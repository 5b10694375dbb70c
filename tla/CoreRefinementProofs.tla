------------------------ MODULE CoreRefinementProofs ------------------------
(***************************************************************************)
(* The cycles that simulate is asked for, executes and counts; that the    *)
(* cycle count never goes down; and that PydrofoilCore implements CpuApi.  *)
(***************************************************************************)
EXTENDS CoreCallProofs

\* The int n_cycles is wide enough for all cycles VCML can ask for.
NoWrap == 2 * (MaxCalls * MaxCycles) < INT_MOD /\ INT_MOD <= U64_MOD

\* The cycles that VCML may have asked for so far.
Budget == calls * MaxCycles

\* Those of them that are asked for and not counted.
Claimed ==
    IF BusySim THEN wtask.arg
    ELSE IF task_queue = <<call>> /\ call.fn = "Simulate" THEN call.arg ELSE 0

\* A Simulate task asks for a cycle at least.
TaskInv ==
    /\ call.fn = "Simulate" => call.arg \in 1 .. MaxCycles
    /\ wtask.fn = "Simulate" => wtask.arg \in 1 .. MaxCycles
    /\ BusySim /\ call.fn = "Simulate" => wtask = call

\* The simulator is ahead of n_cycles by the steps of the current task: by one
\* at least once it has begun, and by no more than the task asks for.
StepsInv ==
    Live => IF BusySim /\ wpc # "run"
              THEN /\ steps + wleft <= n_cycles + wtask.arg
                   /\ \/ n_cycles < steps
                      \/ wpc = "step" /\ wleft = wtask.arg /\ n_cycles = steps
              ELSE n_cycles = steps

\* What the caller was told, or will be, is not more than n_cycles.
ToldInv ==
    /\ 0 <= n_cycles /\ n_cycles + Claimed <= Budget /\ last_count <= n_cycles
    /\ spc \in {"notify", "get"} /\ call.fn = "GetCycles" /\ done # NotReady
         => done = n_cycles

SimInv == TaskInv /\ StepsInv /\ ToldInv

LEMMA BudgetNat ==
    ASSUME calls \in 0 .. MaxCalls
    PROVE  /\ Budget \in Nat /\ Budget <= MaxCalls * MaxCycles
           /\ (calls + 1) * MaxCycles = Budget + MaxCycles
  BY BoundsAssumption DEF Budget

LEMMA Narrow ==
    ASSUME NoWrap, NEW n \in Nat, n <= MaxCalls * MaxCycles
    PROVE  ToInt(n) = n /\ ToU64(n) = n
<1>1. PICK m \in Nat : m = MaxCalls * MaxCycles
  BY BoundsAssumption
<1>2. 2 * m < INT_MOD /\ INT_MOD <= U64_MOD /\ n <= m
  BY <1>1 DEF NoWrap
<1>3. n % INT_MOD = n /\ n % U64_MOD = n
  BY <1>2, WidthAssumption
<1>4. QED
  BY <1>2, <1>3, WidthAssumption DEF ToInt, ToU64

LEMMA SimInvStep ==
    ASSUME NoWrap, TypeOK, Handshake, CallInv, SimInv, [Next]_vars
    PROVE  SimInv'
<1>a. /\ Budget \in Nat /\ MaxCycles \in Nat
      /\ UNCHANGED calls => Budget' = Budget
      /\ calls' = calls + 1 => Budget' = Budget + MaxCycles
  BY BudgetNat, BoundsAssumption DEF TypeOK, Budget
<1>b. \A n \in Nat : n <= Budget => ToInt(n) = n /\ ToU64(n) = n
  BY BudgetNat, Narrow, BoundsAssumption DEF TypeOK
<1>c. n_cycles \in Nat /\ n_cycles <= Budget /\ ToU64(n_cycles) = n_cycles
  <2>1. Claimed \in Nat
    BY DEF Claimed, TypeOK, Task
  <2>2. n_cycles \in Nat /\ n_cycles <= Budget
    BY <1>a, <2>1 DEF SimInv, ToldInv, TypeOK
  <2>3. QED
    BY <1>b, <2>2
<1> USE <1>a, Singleton
    DEF SimInv, TaskInv, StepsInv, ToldInv, Claimed, Handshake, Quiet, InCall,
        InSim, Stuck, AccessInv, LiveInv, Live, Rest, BusyCall, BusySim,
        Waiting, TypeOK, NotReady, vars, client, tasks, fields, memtasks,
        memory, worker, iss, ghosts
<1>1. CASE Construct
  BY <1>1 DEF Construct, PhaseRequest, Request, Push, NewPromise
<1>2. CASE define_cpureg
  BY <1>2 DEF define_cpureg, PhaseRequest, Request, Push, NewPromise
<1>3. CASE flush_cpuregs
  BY <1>3 DEF flush_cpuregs, PhaseRequest, Request, Push, NewPromise
<1>4. CASE end_of_elaboration
  BY <1>4 DEF end_of_elaboration, PhaseRequest, Request, Push, NewPromise
<1>5. CASE cycle_count
  BY <1>5 DEF cycle_count, RunRequest, Request, Push, NewPromise
<1>6. CASE read_reg_dbg
  BY <1>6 DEF read_reg_dbg, RunRequest, Request, Push, NewPromise
<1>7. CASE \E v \in PCs : write_reg_dbg(v)
  BY <1>7 DEF write_reg_dbg, RunRequest, Request, Push, NewPromise
<1>8. CASE sc_stop
  BY <1>8 DEF sc_stop
<1>9. CASE report
  <2>1. CASE PhaseRequest("report", "GetCycles", 0)
    BY <2>1 DEF PhaseRequest, Request, Push, NewPromise
  <2>2. CASE CachedCount("idle", "idle")
    BY <1>c, <2>2 DEF CachedCount
  <2>3. QED
    BY <1>9, <2>1, <2>2 DEF report
<1>10. CASE Destroy
  <2>1. CASE Request("idle", "FreeCpu", 0) /\ UNCHANGED calls
    BY <2>1 DEF Request, Push, NewPromise
  <2>2. CASE spc = "idle" /\ SGoto("join")
    BY <2>2 DEF SGoto
  <2>3. QED
    BY <1>10, <2>1, <2>2 DEF Destroy
<1>11. CASE join
  BY <1>11 DEF join, WorkerGone, SGoto
<1>12. CASE NotifyTask
  BY <1>12 DEF NotifyTask, Woken
<1>13. CASE Get
  BY <1>13 DEF Get, AfterCall, Ready
<1>14. CASE \E m \in 1 .. MaxCycles : simulate(m)
  BY <1>14 DEF simulate, Push, NewPromise
<1>15. CASE StartSim
  BY <1>15 DEF StartSim, SetSimStarted
<1>16. CASE While
  BY <1>16 DEF While, Ready, SGoto, SetSimStarted
<1>17. CASE LockMem
  BY <1>17 DEF LockMem, SGoto
<1>18. CASE PredDone
  BY <1>18 DEF PredDone, SGoto, Ready
<1>19. CASE BlockMem
  BY <1>19 DEF BlockMem, SGoto
<1>20. CASE CountBeforeTransport
  BY <1>20, <1>c DEF CountBeforeTransport, CachedCount
<1>21. CASE Transport
  BY <1>21 DEF Transport
<1>22. CASE SuspendInTransport
  BY <1>22 DEF SuspendInTransport, Request, Push, NewPromise
<1>23. CASE StopInTransport
  BY <1>23 DEF StopInTransport
<1>24. CASE python_worker_loop
  BY <1>24 DEF python_worker_loop
<1>25. CASE InitCpu
  BY <1>25 DEF InitCpu, Handling, Answer, ResetIss, CallInv, CallFits, CountInv
<1>26. CASE GetCycles
  <2>1. BusyCall /\ InCall /\ wtask = call /\ call.fn = "GetCycles" /\ cpu # "freed"
    BY <1>26 DEF GetCycles, Handling, CallInv, FreedInv
  <2>2. n_cycles' = n_cycles
    <3>1. CASE Live
      BY <1>26, <1>b, <1>c, <2>1, <3>1 DEF GetCycles, Refresh
    <3>2. CASE ~Live
      BY <1>26, <2>1, <3>2 DEF GetCycles, Refresh, CallInv, CountInv
    <3>3. QED
      BY <3>1, <3>2
  <2>3. done' = n_cycles
    BY <1>26, <1>c, <2>2 DEF GetCycles, Answer
  <2>4. QED
    BY <1>26, <2>1, <2>2, <2>3 DEF GetCycles, Answer
<1>27. CASE SetPc
  BY <1>27 DEF SetPc, MayRaise, Handling, Answer
<1>28. CASE ReadPc
  BY <1>28 DEF ReadPc, MayRaise, Handling, Answer
<1>29. CASE FreeCpu
  BY <1>29 DEF FreeCpu, Handling, Answer
<1>30. CASE SetCb
  BY <1>30 DEF SetCb, Handling, Answer
<1>31. CASE SetCbEnd
  BY <1>31 DEF SetCbEnd, Answer, ResetIss, CallInv, CallFits, CountInv
<1>32. CASE Simulate
  BY <1>32 DEF Simulate, Handling
<1>33. CASE Step
  BY <1>33 DEF Step, StepLeft
<1>34. CASE StepEnd
  BY <1>34 DEF StepEnd
<1>35. CASE SimulateEnd
  <2>1. /\ BusySim /\ wpc = "step" /\ wleft = 0 /\ wpc' = "simnotify"
        /\ UNCHANGED <<spc, call, calls, task_queue, done, cpu, worker, last_count>>
    BY <1>35 DEF SimulateEnd
  <2>2. CASE Live
    <3>1. n_cycles < steps /\ steps <= n_cycles + wtask.arg
      BY <2>1, <2>2 DEF Task
    <3>2. steps <= Budget
      BY <2>1, <3>1 DEF Task
    <3>3. n_cycles' = steps
      BY <1>35, <1>b, <2>2, <3>2 DEF SimulateEnd, Refresh
    <3>4. QED
      BY <1>c, <2>1, <3>1, <3>2, <3>3
  <2>3. CASE ~Live
    <3>1. n_cycles' = 0
      BY <1>35, <2>3 DEF SimulateEnd, Refresh
    <3>2. n_cycles = 0
      BY <2>1, <2>3 DEF CallInv, FreedInv, CountInv
    <3>3. QED
      BY <1>c, <2>1, <2>3, <3>1, <3>2
  <2>4. QED
    BY <2>2, <2>3
<1>36. CASE SimulateNotify
  BY <1>36 DEF SimulateNotify, NotifyMem, Woken
<1>37. CASE \E q \in Access : Ignore(q)
  BY <1>37 DEF Ignore, CallsBack
<1>38. CASE \E q \in Access : Forward(q)
  BY <1>38 DEF Forward, CallsBack, Ignored, MemMutexFree
<1>39. CASE ForwardNotify
  BY <1>39 DEF ForwardNotify, NotifyMem, Woken
<1>40. CASE Resume
  BY <1>40 DEF Resume, Answered
<1>41. CASE SpuriousTask
  BY <1>41 DEF SpuriousTask
<1>42. CASE SpuriousMem
  BY <1>42 DEF SpuriousMem, SGoto
<1>43. CASE UNCHANGED vars
  BY <1>43
<1>44. QED
  BY <1>1, <1>2, <1>3, <1>4, <1>5, <1>6, <1>7, <1>8, <1>9, <1>10, <1>11,
     <1>12, <1>13, <1>14, <1>15, <1>16, <1>17, <1>18, <1>19, <1>20, <1>21,
     <1>22, <1>23, <1>24, <1>25, <1>26, <1>27, <1>28, <1>29, <1>30, <1>31,
     <1>32, <1>33, <1>34, <1>35, <1>36, <1>37, <1>38, <1>39, <1>40, <1>41,
     <1>42, <1>43
  DEF Next, SysC, Worker, Elaborate, Run, Finish, Serve, Handle, Callback

\* No cycle is counted twice or forgotten, and none is executed that was not
\* asked for.
THEOREM SimInvariant == ASSUME NoWrap PROVE Spec => []SimInv
<1>1. Init => SimInv
  <2> SUFFICES ASSUME Init PROVE SimInv
    OBVIOUS
  <2>1. Budget = 0 /\ Claimed = 0
    BY BoundsAssumption DEF Init, Budget, Claimed, BusySim
  <2>2. QED
    BY <2>1 DEF Init, SimInv, TaskInv, StepsInv, ToldInv, Live, NotReady
<1>2. TypeOK /\ Handshake /\ CallInv /\ SimInv /\ [Next]_vars => SimInv'
  BY SimInvStep
<1>3. QED
  BY <1>1, <1>2, TypeCorrect, HandshakeCorrect, CallInvariant, PTL DEF Spec
-----------------------------------------------------------------------------
\* VCML is told a cycle count in three places, and it is always n_cycles.
LEMMA ToldCount ==
    ASSUME NoWrap, TypeOK, Handshake, CallInv, SimInv, [Next]_vars
    PROVE  last_count' = last_count \/ last_count' = n_cycles
<1>1. ToU64(n_cycles) = n_cycles
  <2>1. Claimed \in Nat /\ Budget \in Nat /\ Budget <= MaxCalls * MaxCycles
    BY BudgetNat DEF Claimed, TypeOK, Task
  <2>2. MaxCalls * MaxCycles \in Nat
    BY BoundsAssumption
  <2>3. n_cycles \in Nat /\ n_cycles <= MaxCalls * MaxCycles
    BY <2>1, <2>2 DEF SimInv, ToldInv, TypeOK
  <2>4. QED
    BY <2>3, Narrow
<1> USE DEF vars, ghosts
<1>2. CASE Elaborate \/ Run
  BY <1>2 DEF Elaborate, Construct, define_cpureg, flush_cpuregs,
     end_of_elaboration, PhaseRequest, Run, cycle_count, read_reg_dbg,
     write_reg_dbg, simulate, RunRequest, Request
<1>3. CASE Finish
  BY <1>1, <1>3 DEF Finish, sc_stop, report, Destroy, join, PhaseRequest,
     Request, CachedCount, SGoto
<1>4. CASE NotifyTask
  BY <1>4 DEF NotifyTask
<1>5. CASE Get
  BY <1>5 DEF Get, Ready, SimInv, ToldInv
<1>6. CASE Serve
  BY <1>1, <1>6 DEF Serve, StartSim, While, LockMem, PredDone, BlockMem,
     CountBeforeTransport, CachedCount, Transport, SetSimStarted, SGoto,
     SuspendInTransport, StopInTransport, Request
<1>7. CASE python_worker_loop
  BY <1>7 DEF python_worker_loop
<1>8. CASE Handle
  BY <1>8 DEF Handle, InitCpu, SetCb, SetCbEnd, GetCycles, SetPc, ReadPc,
     FreeCpu, Simulate, Step, StepEnd, SimulateEnd, SimulateNotify, NotifyMem,
     Answer
<1>9. CASE Callback
  BY <1>9 DEF Callback, Ignore, CallsBack, Forward, ForwardNotify, NotifyMem, Resume
<1>10. CASE SpuriousTask \/ SpuriousMem \/ UNCHANGED vars
  BY <1>10 DEF SpuriousTask, SpuriousMem, SGoto
<1>11. QED
  BY <1>2, <1>3, <1>4, <1>5, <1>6, <1>7, <1>8, <1>9, <1>10
  DEF Next, SysC, Worker

\* processor::update_local_time never sees the cycle count go down, as long as
\* all cycles asked for fit into an int.
THEOREM CycleCountNeverGoesDownCorrect ==
    ASSUME NoWrap PROVE Spec => CycleCountNeverGoesDown
<1>1. TypeOK /\ Handshake /\ CallInv /\ SimInv /\ [Next]_vars
        => [last_count' >= last_count]_last_count
  <2> SUFFICES ASSUME TypeOK, Handshake, CallInv, SimInv, [Next]_vars,
                      last_count' # last_count
               PROVE  last_count' >= last_count
    OBVIOUS
  <2>1. last_count' = n_cycles
    BY ToldCount
  <2>2. QED
    BY <2>1 DEF SimInv, ToldInv, TypeOK
<1>2. QED
  BY <1>1, TypeCorrect, HandshakeCorrect, CallInvariant, SimInvariant, PTL
  DEF Spec, CycleCountNeverGoesDown
-----------------------------------------------------------------------------
(* The steps of CpuApi.                                                    *)

\* What the caller's request and its answer are in CpuApi.
Req == IF Busy THEN call ELSE [fn |-> "none", arg |-> 0]
Reply == IF ~Busy THEN NotReady ELSE IF call.fn = "Simulate" THEN simdone ELSE done

\* A method pushes its task.
LEMMA CallStep ==
    ASSUME TypeOK, NEW f \in Funct, NEW a, spc = "idle", Push(f, a),
           spc' \in {"notify", "pushed"},
           UNCHANGED <<cpu, n_cycles, isspc, last_count>>
    PROVE  Api!Call
<1>1. Req = [fn |-> "none", arg |-> 0] /\ Req' = [fn |-> f, arg |-> a]
  BY DEF Req, Busy, Push
<1>2. Req' # [fn |-> "none", arg |-> 0]
  BY <1>1 DEF Funct
<1>3. Reply' = NotReady
  BY DEF Reply, Busy, Push, NewPromise
<1>4. QED
  BY <1>1, <1>2, <1>3 DEF Api!Call, Api!NoReq, Req, Reply

\* A step that neither the caller nor the simulator can tell from no step.
LEMMA HiddenStep ==
    ASSUME UNCHANGED <<cpu, n_cycles, isspc, last_count, call, done, simdone>>,
           Busy' = Busy
    PROVE  UNCHANGED Api!vars
  BY DEF Api!vars, Busy

\* A handler that answers a blocking call is its effect.
LEMMA EffectStep ==
    ASSUME TypeOK, Handshake, NEW f, NEW v, wpc \in {"run", "exec"}, wtask.fn = f,
           f # "Simulate", Answer(v)
    PROVE  Api!Effect(f, v) /\ Req = call /\ wtask = call /\ InCall
<1>1. InCall /\ wtask = call /\ done = NotReady /\ call.fn = f
  BY DEF Handshake, Quiet, InCall, InSim, Stuck, Rest, BusySim, Waiting
<1>2. Busy /\ done' = v /\ UNCHANGED <<spc, call, last_count>>
  BY <1>1 DEF InCall, Busy, Answer, client, ghosts
<1>3. QED
  BY <1>1, <1>2 DEF Api!Effect, Busy, Req

\* A simulate that ends counts its cycles, once.
LEMMA SimulateStep ==
    ASSUME NoWrap, TypeOK, Handshake, CallInv, SimInv, ~YieldingTransport, SimulateEnd
    PROVE  Api!Serve
<1>1. /\ InSim /\ BusySim /\ simdone = NotReady /\ wtask = call
      /\ call.arg \in 1 .. MaxCycles
  BY DEF SimulateEnd, Handshake, Quiet, InCall, InSim, Stuck, Rest, BusyCall,
     BusySim, SimInv, TaskInv
<1>2. /\ simdone' = 0
      /\ UNCHANGED <<spc, call, last_count, cpu, isspc>>
  BY DEF SimulateEnd, client, worker, iss, ghosts
<1>3. Busy /\ call.fn = "Simulate"
  BY <1>1 DEF InSim, Busy
<1>4. Api!Effect("Simulate", 0)
  BY <1>1, <1>2, <1>3 DEF Api!Effect, Busy
<1>5. \E k \in IF cpu = "live" THEN 1 .. call.arg ELSE {0} : n_cycles' = n_cycles + k
  <2>1. CASE Live
    <3>1. /\ wleft = 0 /\ wpc = "step" /\ n_cycles < steps
          /\ steps <= n_cycles + call.arg
      BY <1>1, <2>1 DEF SimulateEnd, SimInv, StepsInv, TypeOK
    <3>2. n_cycles + call.arg <= MaxCalls * MaxCycles
      <4>1. Budget \in Nat /\ Budget <= MaxCalls * MaxCycles /\ MaxCalls * MaxCycles \in Nat
        BY BudgetNat, BoundsAssumption DEF TypeOK
      <4>2. n_cycles + call.arg <= Budget
        BY <1>1 DEF SimInv, ToldInv, Claimed
      <4>3. QED
        BY <1>1, <4>1, <4>2 DEF TypeOK
    <3>3. MaxCalls * MaxCycles \in Nat
      BY BoundsAssumption
    <3>4. steps <= MaxCalls * MaxCycles
      BY <1>1, <3>1, <3>2, <3>3 DEF TypeOK
    <3>5. n_cycles' = steps
      BY <2>1, <3>4, Narrow DEF SimulateEnd, Refresh, TypeOK
    <3>6. steps - n_cycles \in 1 .. call.arg /\ n_cycles' = n_cycles + (steps - n_cycles)
      BY <1>1, <3>1, <3>5 DEF TypeOK
    <3>7. QED
      BY <2>1, <3>6 DEF Live
  <2>2. CASE ~Live
    <3>1. n_cycles = 0 /\ n_cycles' = 0
      BY <1>1, <2>2 DEF SimulateEnd, Refresh, Live, InSim, TypeOK, CallInv,
         FreedInv, CountInv
    <3>2. QED
      BY <2>2, <3>1 DEF Live
  <2>3. QED
    BY <2>1, <2>2
<1>6. QED
  BY <1>2, <1>3, <1>4, <1>5 DEF Api!Serve, Api!Executed, Busy

\* Every step of the two threads is a step of CpuApi, or none.
LEMMA ApiStep ==
    ASSUME NoWrap, ~YieldingTransport, TypeOK, Handshake, CallInv, SimInv,
           [Next]_vars
    PROVE  Api!Next \/ UNCHANGED Api!vars
<1> USE DEF vars, client, tasks, fields, memtasks, memory, worker, iss, ghosts
<1>0. ~Stuck
  BY DEF Stuck
<1>1. CASE Elaborate
  <2>1. PICK f \in Funct, a \in Nat : Request("idle", f, a)
    BY <1>1, ValueAssumption
    DEF Elaborate, Construct, define_cpureg, flush_cpuregs, end_of_elaboration,
        PhaseRequest, Funct
  <2>2. QED
    BY <2>1, CallStep DEF Request, Api!Next
<1>2. CASE cycle_count \/ read_reg_dbg \/ \E v \in PCs : write_reg_dbg(v)
  <2>1. PICK f \in Funct, a \in Nat : Request("idle", f, a)
    BY <1>2, ValueAssumption
    DEF cycle_count, read_reg_dbg, write_reg_dbg, RunRequest, Funct
  <2>2. QED
    BY <2>1, CallStep DEF Request, Api!Next
<1>3. CASE \E n \in 1 .. MaxCycles : simulate(n)
  <2>1. PICK n \in 1 .. MaxCycles : simulate(n)
    BY <1>3
  <2>2. /\ "Simulate" \in Funct /\ spc = "idle" /\ Push("Simulate", n)
        /\ spc' \in {"notify", "pushed"}
        /\ UNCHANGED <<cpu, n_cycles, isspc, last_count>>
    BY <2>1 DEF simulate, Funct
  <2>3. QED
    BY <2>2, CallStep DEF Api!Next
<1>4. CASE sc_stop
  BY <1>4, HiddenStep DEF sc_stop, Busy
<1>5. CASE report
  <2>1. ~(CachedCount("idle", "idle"))
    BY <1>0 DEF CachedCount, Handshake, Quiet, InCall, InSim
  <2>2. Request("idle", "GetCycles", 0)
    BY <1>5, <2>1 DEF report, PhaseRequest
  <2>3. "GetCycles" \in Funct
    BY DEF Funct
  <2>4. QED
    BY <2>2, <2>3, CallStep DEF Request, Api!Next
<1>6. CASE Destroy
  <2>1. CASE Request("idle", "FreeCpu", 0)
    <3>1. "FreeCpu" \in Funct
      BY DEF Funct
    <3>2. QED
      BY <2>1, <3>1, CallStep DEF Request, Api!Next
  <2>2. CASE spc = "idle" /\ SGoto("join")
    BY <2>2, HiddenStep DEF SGoto, Busy
  <2>3. QED
    BY <1>6, <2>1, <2>2 DEF Destroy
<1>7. CASE join
  BY <1>7, HiddenStep DEF join, SGoto, Busy
<1>8. CASE NotifyTask
  BY <1>8, HiddenStep DEF NotifyTask, Busy
<1>9. CASE Get
  <2>1. InCall /\ done # NotReady
    BY <1>0, <1>9 DEF Get, Ready, Handshake, Quiet, InSim
  <2>2. Busy /\ ~Busy'
    BY <1>9, <2>1 DEF Get, Busy, InCall
  <2>3. Req = call /\ Reply = done /\ call.fn \in Funct /\ call.fn # "none"
    BY <2>1, <2>2 DEF Req, Reply, InCall, TypeOK, Task, Funct
  <2>4. Req # [fn |-> "none", arg |-> 0]
    BY <2>3 
  <2>5. /\ UNCHANGED <<cpu, n_cycles, isspc>>
        /\ last_count' = IF call.fn = "GetCycles" THEN done ELSE last_count
    BY <1>9 DEF Get
  <2>6. Api!Return
    BY <2>1, <2>2, <2>3, <2>4, <2>5 DEF Api!Return, Api!NoReq, Req, Reply
  <2>7. QED
    BY <2>6 DEF Api!Next
<1>10. CASE While
  <2>1. CASE SGoto("lock")
    BY <1>10, <2>1, HiddenStep DEF While, SGoto, Busy
  <2>2. CASE Ready(simdone) /\ SetSimStarted(FALSE, "idle")
    <3>1. InSim /\ simdone # NotReady
      BY <1>0, <1>10, <2>2 DEF While, Ready, Handshake, Quiet, InCall
    <3>2. Busy /\ ~Busy'
      BY <2>2, <3>1 DEF SetSimStarted, Busy, InSim
    <3>3. Req = call /\ Reply = simdone /\ call.fn = "Simulate"
      BY <3>1, <3>2 DEF Req, Reply, InSim
    <3>4. Req # [fn |-> "none", arg |-> 0]
      BY <3>3
    <3>5. UNCHANGED <<cpu, n_cycles, isspc, last_count>>
      BY <2>2 DEF SetSimStarted
    <3>6. Api!Return
      BY <3>1, <3>2, <3>3, <3>4, <3>5 DEF Api!Return, Api!NoReq, Req, Reply
    <3>7. QED
      BY <3>6 DEF Api!Next
  <2>3. QED
    BY <1>10, <2>1, <2>2 DEF While
<1>11. CASE StartSim \/ LockMem \/ PredDone \/ BlockMem \/ Transport \/ SpuriousMem
  BY <1>11, HiddenStep
  DEF StartSim, SetSimStarted, LockMem, PredDone, BlockMem, Transport,
      SpuriousMem, SGoto, Busy
<1>12. CASE CountBeforeTransport
  <2>1. InSim /\ UNCHANGED <<cpu, n_cycles, isspc, call, simdone>>
        /\ spc = "serve" /\ spc' = "xfer" /\ last_count' = ToU64(n_cycles)
    BY <1>0, <1>12 DEF CountBeforeTransport, CachedCount, Handshake, Quiet, InCall
  <2>2. Busy /\ Busy' /\ call.fn = "Simulate"
    BY <2>1 DEF Busy, InSim
  <2>3. Api!Peek
    BY <2>1, <2>2 DEF Api!Peek, Api!Simulating
  <2>4. QED
    BY <2>3 DEF Api!Next
<1>13. CASE SuspendInTransport \/ StopInTransport
  BY <1>13 DEF SuspendInTransport, StopInTransport
<1>14. CASE python_worker_loop \/ SpuriousTask
  BY <1>14, HiddenStep DEF python_worker_loop, SpuriousTask, Busy
<1>15. CASE InitCpu
  <2>1. Api!Effect("Init", 0)
    BY <1>15, EffectStep DEF InitCpu, Handling
  <2>2. cpu' \in {"live", "null"} /\ isspc' = RESET_PC /\ UNCHANGED n_cycles
    BY <1>15 DEF InitCpu, ResetIss
  <2>3. QED
    BY <2>1, <2>2 DEF Api!Serve, Api!Next
<1>16. CASE GetCycles
  <2>1. Api!Effect("GetCycles", ToU64(n_cycles')) /\ InCall /\ call.fn = "GetCycles"
    BY <1>16, EffectStep DEF GetCycles, Handling
  <2>2. n_cycles' = n_cycles
    <3>1. cpu # "freed"
      BY <2>1 DEF InCall, CallInv, CallFits, FreedInv
    <3>2. ~BusySim
      BY <1>16 DEF GetCycles, Handling, BusySim
    <3>3. QED
      BY <1>16, <3>1, <3>2 DEF GetCycles, Refresh, CallInv, CountInv, TypeOK, Live
  <2>3. UNCHANGED <<cpu, isspc>>
    BY <1>16 DEF GetCycles
  <2>4. QED
    BY <2>1, <2>2, <2>3 DEF Api!Serve, Api!Next
<1>17. CASE SetPc
  <2>1. Api!Effect("SetPc", 1) /\ Req = call /\ wtask = call
    BY <1>17, EffectStep DEF SetPc, Handling
  <2>2. isspc' \in Api!PcAfter(Req.arg) /\ UNCHANGED <<cpu, n_cycles>>
    BY <1>17, <2>1 DEF SetPc, MayRaise, Live, Api!PcAfter, Api!MaybeNot
  <2>3. QED
    BY <2>1, <2>2 DEF Api!Serve, Api!Next, Req
<1>18. CASE ReadPc
  <2>1. PICK v \in IF Live THEN MayRaise(isspc, 0) ELSE {0} : Answer(v)
    BY <1>18 DEF ReadPc
  <2>2. Api!Effect("ReadPc", v)
    BY <1>18, <2>1, EffectStep DEF ReadPc, Handling
  <2>3. v \in (IF cpu = "live" THEN {isspc} ELSE {}) \cup Api!MaybeNot(0)
    BY <2>1 DEF MayRaise, Live, Api!MaybeNot
  <2>4. UNCHANGED <<cpu, n_cycles, isspc>>
    BY <1>18 DEF ReadPc
  <2>5. QED
    BY <2>2, <2>3, <2>4 DEF Api!Serve, Api!Next
<1>19. CASE FreeCpu
  <2>1. Api!Effect("FreeCpu", 0)
    BY <1>19, EffectStep DEF FreeCpu, Handling
  <2>2. cpu' = "freed" /\ UNCHANGED <<n_cycles, isspc>>
    BY <1>19 DEF FreeCpu
  <2>3. QED
    BY <2>1, <2>2 DEF Api!Serve, Api!Next
<1>20. CASE SetCb
  <2>1. CASE Live
    BY <1>20, <2>1, HiddenStep DEF SetCb, Busy
  <2>2. CASE ~Live
    <3>1. /\ Handling("SetCb") /\ Answer(0)
          /\ UNCHANGED <<cpu, n_cycles, isspc>>
      BY <1>20, <2>2 DEF SetCb
    <3>2. Api!Effect("SetCb", 0)
      BY <3>1, EffectStep DEF Handling
    <3>3. isspc' \in Api!PcAfter(RESET_PC)
      BY <2>2, <3>1 DEF Live, Api!PcAfter, Api!MaybeNot
    <3>4. QED
      BY <3>1, <3>2, <3>3 DEF Api!Serve, Api!Next
  <2>3. QED
    BY <2>1, <2>2
<1>21. CASE SetCbEnd
  <2>1. Api!Effect("SetCb", 0)
    BY <1>21, EffectStep DEF SetCbEnd
  <2>2. isspc' \in Api!PcAfter(RESET_PC) /\ UNCHANGED <<cpu, n_cycles>>
    BY <1>21 DEF SetCbEnd, ResetIss, Handshake, LiveInv, Live, Api!PcAfter,
       Api!MaybeNot
  <2>3. QED
    BY <2>1, <2>2 DEF Api!Serve, Api!Next
<1>22. CASE Simulate \/ StepEnd \/ SimulateNotify
  BY <1>22, HiddenStep DEF Simulate, StepEnd, SimulateNotify, NotifyMem, Woken, Busy
<1>23. CASE Step
  <2>1. InSim /\ simdone = NotReady
    BY <1>0, <1>23 DEF Step, Handshake, Quiet, InCall, InSim, Rest, BusyCall
  <2>2. Busy /\ call.fn = "Simulate"
    BY <2>1 DEF Busy, InSim
  <2>3. /\ UNCHANGED <<spc, call, simdone, cpu, n_cycles, last_count>>
        /\ isspc' \in PCs
    BY <1>23 DEF Step
  <2>4. Api!Execute
    BY <2>1, <2>2, <2>3 DEF Api!Execute, Api!Simulating, Busy
  <2>5. QED
    BY <2>4 DEF Api!Next
<1>24. CASE SimulateEnd
  BY <1>24, SimulateStep DEF Api!Next
<1>25. CASE Callback
  BY <1>25, HiddenStep
  DEF Callback, Ignore, CallsBack, Forward, ForwardNotify, NotifyMem, Resume, Woken, Busy
<1>26. CASE UNCHANGED vars
  BY <1>26, HiddenStep DEF Busy
<1>27. QED
  BY <1>1, <1>2, <1>3, <1>4, <1>5, <1>6, <1>7, <1>8, <1>9, <1>10, <1>11,
     <1>12, <1>13, <1>14, <1>15, <1>16, <1>17, <1>18, <1>19, <1>20, <1>21,
     <1>22, <1>23, <1>24, <1>25, <1>26
  DEF Next, SysC, Worker, Run, Finish, Serve, Handle

\* The core keeps the promise of CpuApi if no transaction may yield and all
\* cycles asked for fit into an int: each call takes effect once, between its
\* push and its return, and simulate counts its cycles exactly once.
THEOREM RefinesCpuApiCorrect ==
    ASSUME NoWrap, ~YieldingTransport PROVE Spec => RefinesCpuApi
<1>1. Init => Api!Init
  BY DEF Init, Api!Init, Api!NoReq, Busy
<1>2. TypeOK /\ Handshake /\ CallInv /\ SimInv /\ [Next]_vars
        => [Api!Next]_(Api!vars)
  BY ApiStep
<1>3. QED
  BY <1>1, <1>2, TypeCorrect, HandshakeCorrect, CallInvariant, SimInvariant, PTL
  DEF Spec, RefinesCpuApi, Api!Spec
=============================================================================
