--------------------------- MODULE CoreCallProofs ---------------------------
(***************************************************************************)
(* What a caller of PydrofoilCore may rely on: its answer is still right   *)
(* when it gets it, the cached cycle count is the simulator's, and the cpu *)
(* is freed after its last use.  On top of the handshake, the proofs need  *)
(* to know which calls the platform makes in which phase.  Then: that no   *)
(* wakeup for new work is lost, that both threads wait at once only in the *)
(* known ways, and that every step brings them nearer to such a place.     *)
(***************************************************************************)
EXTENDS CoreProgress, PydrofoilCoreProofs

\* The call under way is one that the platform makes in this phase.
CallFits ==
    spc \in {"notify", "get"} =>
        /\ call.fn = "Init" <=> phase = "ctor"
        /\ call.fn = "SetCb" <=> phase = "setcb"
        /\ call.fn = "FreeCpu" <=> phase = "dtor"
        /\ call.fn \in {"GetCycles", "Simulate"} => phase \in {"run", "report"}

\* A freed cpu: the destructor has its answer, or is past it.
FreedInv ==
    /\ cpu = "freed" =>
         /\ phase = "dtor" /\ ~sim_started
         /\ \/ spc \in {"join", "gone"}
            \/ spc \in {"notify", "get"} /\ done # NotReady
    /\ spc = "gone" => wpc = "exit"

\* Before the simulation runs nothing is counted; afterwards n_cycles is the
\* simulator's count, except while the worker is in a Simulate task.
CountInv ==
    /\ phase \in {"ctor", "define", "flush", "setcb"} => steps = 0 /\ n_cycles = 0
    /\ cpu \in {"unset", "null"} => n_cycles = 0
    /\ Live /\ ~BusySim => n_cycles = ToInt(steps)

\* An answer that the worker has given and the caller may not yet have got.
AnswerInv ==
    spc \in {"notify", "get"} /\ done # NotReady /\ Live =>
        /\ call.fn = "GetCycles" => done = ToU64(ToInt(steps))
        /\ call.fn = "ReadPc" => done \in MayRaise(isspc, 0)
        /\ call.fn = "SetPc" => done = 1 /\ call.arg \in MayRaise(isspc, call.arg)

CallInv == CallFits /\ FreedInv /\ CountInv /\ AnswerInv

LEMMA ToIntZero == ToInt(0) = 0
  BY WidthAssumption DEF ToInt

LEMMA CallInvStep ==
    TypeOK /\ Handshake /\ CallInv /\ [Next]_vars => CallInv'
<1> SUFFICES ASSUME TypeOK, Handshake, CallInv, [Next]_vars PROVE CallInv'
    OBVIOUS
<1> USE Singleton
    DEF CallInv, CallFits, FreedInv, CountInv, AnswerInv, Handshake, Quiet, InCall,
        InSim, Stuck, AccessInv, LiveInv, Live, Rest, BusyCall, BusySim,
        Waiting, TypeOK, NotReady, vars, client, tasks, fields, memtasks,
        memory, worker, iss, ghosts
<1>1. CASE Construct
  BY <1>1 DEF Construct, PhaseRequest, Request, Push, NewPromise
<1>2. CASE define_cpureg
  BY <1>2 DEF define_cpureg, PhaseRequest, Request, Push, NewPromise
<1>3. CASE flush_cpuregs
  BY <1>3 DEF flush_cpuregs, PhaseRequest, Request, Push, NewPromise
<1>4. CASE end_of_elaboration
  BY <1>4 DEF end_of_elaboration, PhaseRequest, Request, Push, NewPromise
<1>5. CASE cycle_count
  BY <1>5 DEF cycle_count, RunRequest, Request, Push, NewPromise
<1>6. CASE read_reg_dbg
  BY <1>6 DEF read_reg_dbg, RunRequest, Request, Push, NewPromise
<1>7. CASE \E v \in PCs : write_reg_dbg(v)
  BY <1>7 DEF write_reg_dbg, RunRequest, Request, Push, NewPromise
<1>8. CASE sc_stop
  BY <1>8 DEF sc_stop
<1>9. CASE report
  BY <1>9 DEF report, CachedCount, PhaseRequest, Request, Push, NewPromise
<1>10. CASE Destroy
  <2>1. /\ spc = "idle" /\ phase = "dtor" /\ phase' = "dtor"
        /\ UNCHANGED <<wpc, n_cycles, cpu, steps, wtask>>
    BY <1>10 DEF Destroy, Request, SGoto
  <2>2. cpu # "freed"
    BY <2>1
  <2>3. CallFits' /\ AnswerInv'
    BY <1>10, <2>1 DEF Destroy, SGoto, Request, Push, NewPromise
  <2>4. spc' # "gone"
    BY <1>10 DEF Destroy, SGoto, Request
  <2>5. CountInv' /\ FreedInv'
    BY <2>1, <2>2, <2>4
  <2>6. QED
    BY <2>3, <2>5
<1>11. CASE join
  BY <1>11 DEF join, WorkerGone, SGoto
<1>12. CASE NotifyTask
  BY <1>12 DEF NotifyTask, Woken
<1>13. CASE Get
  <2>1. /\ spc = "get" /\ done # NotReady /\ InCall
        /\ UNCHANGED <<wpc, call, tasks, fields, worker>>
    BY <1>13 DEF Get, Ready
  <2>2. spc' = IF phase = "dtor" THEN "join" ELSE "idle"
    BY <1>13, <2>1 DEF Get
  <2>3. phase' = AfterCall(phase)
    BY <1>13 DEF Get
  <2>4. /\ phase = "dtor" => phase' = "dtor"
        /\ phase' \in {"ctor", "define", "flush", "setcb"}
             => phase \in {"ctor", "define", "flush", "setcb"}
    BY <2>3 DEF AfterCall, Phases
  <2>5. QED
    BY <2>1, <2>2, <2>4
<1>14. CASE \E m \in 1 .. MaxCycles : simulate(m)
  BY <1>14 DEF simulate, Push, NewPromise
<1>15. CASE StartSim
  BY <1>15 DEF StartSim, SetSimStarted
<1>16. CASE While
  BY <1>16 DEF While, Ready, SGoto, SetSimStarted
<1>17. CASE LockMem
  BY <1>17 DEF LockMem, SGoto
<1>18. CASE PredDone
  BY <1>18 DEF PredDone, SGoto, Ready
<1>19. CASE BlockMem
  BY <1>19 DEF BlockMem, SGoto
<1>20. CASE CountBeforeTransport
  BY <1>20 DEF CountBeforeTransport, CachedCount
<1>21. CASE Transport
  BY <1>21 DEF Transport
<1>22. CASE SuspendInTransport
  BY <1>22 DEF SuspendInTransport, Request, Push, NewPromise
<1>23. CASE StopInTransport
  BY <1>23 DEF StopInTransport
<1>24. CASE python_worker_loop
  BY <1>24 DEF python_worker_loop
<1>25. CASE InitCpu
  BY <1>25, ToIntZero DEF InitCpu, Handling, Answer, ResetIss
<1>26. CASE GetCycles
  BY <1>26 DEF GetCycles, Handling, Refresh, Answer
<1>27. CASE SetPc
  BY <1>27 DEF SetPc, MayRaise, Handling, Answer
<1>28. CASE ReadPc
  BY <1>28 DEF ReadPc, MayRaise, Handling, Answer
<1>29. CASE FreeCpu
  BY <1>29 DEF FreeCpu, Handling, Answer
<1>30. CASE SetCb
  BY <1>30 DEF SetCb, Handling, Answer
<1>31. CASE SetCbEnd
  BY <1>31 DEF SetCbEnd, Answer, ResetIss
<1>32. CASE Simulate
  BY <1>32 DEF Simulate, Handling
<1>33. CASE Step
  BY <1>33 DEF Step, StepLeft
<1>34. CASE StepEnd
  BY <1>34 DEF StepEnd
<1>35. CASE SimulateEnd
  BY <1>35 DEF SimulateEnd, Refresh
<1>36. CASE SimulateNotify
  BY <1>36 DEF SimulateNotify, NotifyMem, Woken
<1>37. CASE \E q \in Access : Ignore(q)
  BY <1>37 DEF Ignore, CallsBack
<1>38. CASE \E q \in Access : Forward(q)
  BY <1>38 DEF Forward, CallsBack, Ignored, MemMutexFree
<1>39. CASE ForwardNotify
  BY <1>39 DEF ForwardNotify, NotifyMem, Woken
<1>40. CASE Resume
  BY <1>40 DEF Resume, Answered
<1>41. CASE SpuriousTask
  BY <1>41 DEF SpuriousTask
<1>42. CASE SpuriousMem
  BY <1>42 DEF SpuriousMem, SGoto
<1>43. CASE UNCHANGED vars
  BY <1>43
<1>44. QED
  BY <1>1, <1>2, <1>3, <1>4, <1>5, <1>6, <1>7, <1>8, <1>9, <1>10, <1>11,
     <1>12, <1>13, <1>14, <1>15, <1>16, <1>17, <1>18, <1>19, <1>20, <1>21,
     <1>22, <1>23, <1>24, <1>25, <1>26, <1>27, <1>28, <1>29, <1>30, <1>31,
     <1>32, <1>33, <1>34, <1>35, <1>36, <1>37, <1>38, <1>39, <1>40, <1>41,
     <1>42, <1>43
  DEF Next, SysC, Worker, Elaborate, Run, Finish, Serve, Handle, Callback

\* The invariant of the calls holds in every reachable state.
THEOREM CallInvariant == Spec => []CallInv
<1>1. Init => CallInv
  BY DEF Init, CallInv, CallFits, FreedInv, CountInv, AnswerInv, Live, NotReady
<1>2. QED
  BY <1>1, TypeCorrect, HandshakeCorrect, CallInvStep, PTL DEF Spec
-----------------------------------------------------------------------------
\* A result of the worker is still right when done.get() returns it: nothing
\* happens to the simulator in between, for every order of the threads' steps.
THEOREM AnswersAreCurrentCorrect == Spec => []AnswersAreCurrent
<1>1. CallInv => AnswersAreCurrent
  BY DEF CallInv, AnswerInv, AnswersAreCurrent
<1>2. QED
  BY <1>1, CallInvariant, PTL

\* Between calls the cached n_cycles is the simulator's count, whatever the
\* width of int, and no access is left over, also after a failed one.
THEOREM QuietBetweenCallsCorrect == Spec => []QuietBetweenCalls
<1>1. Handshake /\ CallInv => QuietBetweenCalls
  <2> SUFFICES ASSUME Handshake, CallInv, spc = "idle", phase = "run"
               PROVE  /\ Live => n_cycles = ToInt(steps)
                      /\ memtask_queue = <<>> /\ mres = "none" /\ ~Waiting
                      /\ ~sim_started
    BY DEF QuietBetweenCalls
  <2>1. Quiet
    BY DEF Handshake, InCall, InSim, Stuck
  <2>2. ~BusySim /\ ~Waiting /\ ~sim_started
    BY <2>1 DEF Quiet, Rest, BusySim, Waiting
  <2>3. QED
    BY <2>2 DEF Handshake, AccessInv, CallInv, CountInv
<1>2. QED
  BY <1>1, HandshakeCorrect, CallInvariant, PTL

\* No task runs on a handle that pydrofoil_free_cpu has removed, and the
\* worker is gone, with nothing left to do, when the object is.
THEOREM NoUseAfterFreeCorrect == Spec => []NoUseAfterFree
<1>1. Handshake /\ CallInv => NoUseAfterFree
  <2> SUFFICES ASSUME Handshake, CallInv PROVE NoUseAfterFree
    OBVIOUS
  <2>1. ASSUME cpu = "freed" PROVE Rest
    BY <2>1 DEF Handshake, Quiet, InCall, InSim, Stuck, CallInv, CallFits,
       FreedInv
  <2>2. ASSUME spc = "gone" PROVE wpc = "exit" /\ task_queue = <<>>
    BY <2>2 DEF Handshake, Quiet, InCall, InSim, Stuck, CallInv, FreedInv
  <2>3. QED
    BY <2>1, <2>2 DEF NoUseAfterFree, Rest
<1>2. QED
  BY <1>1, HandshakeCorrect, CallInvariant, PTL
-----------------------------------------------------------------------------
(* Waking up, and standing still.                                          *)

\* A worker that sleeps with a task before it is about to be notified.
SleepingWorker ==
    /\ wpc = "blocked" /\ task_queue # <<>> => spc \in {"pushed", "notify"}
    /\ wpc = "blocked" /\ stop_worker => spc = "notify" /\ task_queue # <<>>

\* So is a SystemC thread with an access before it: it found memtask_queue
\* empty, and keeps memtask_mutex until it sleeps.
SleepingSysC ==
    /\ spc = "blocked" /\ memtask_queue # <<>> => wpc = "mnotify"
    /\ spc \in {"pred", "block"} => memtask_queue = <<>>

\* stop_worker is set with the last task, and the worker runs that task before
\* it leaves.
StopInv ==
    /\ stop_worker => phase = "dtor" /\ spc \in {"notify", "get", "join", "gone"}
    /\ phase = "dtor" /\ spc \in {"notify", "get"} => stop_worker
    /\ spc \in {"join", "gone"} => stop_worker \/ cpu = "null"
    /\ wpc = "exit" =>
         /\ stop_worker /\ task_queue = <<>>
         /\ spc \in {"notify", "get"} => done # NotReady

WakeInv == SleepingWorker /\ SleepingSysC /\ StopInv

LEMMA WakeInvStep ==
    TypeOK /\ Handshake /\ WakeInv /\ [Next]_vars => WakeInv'
<1> SUFFICES ASSUME TypeOK, Handshake, WakeInv, [Next]_vars PROVE WakeInv'
    OBVIOUS
<1> USE Singleton
    DEF WakeInv, SleepingWorker, SleepingSysC, StopInv, Handshake, Quiet, InCall,
        InSim, Stuck, AccessInv, Rest, BusyCall, BusySim,
        Waiting, TypeOK, NotReady, vars, client, tasks, fields, memtasks,
        memory, worker, iss, ghosts
<1>1. CASE Construct
  BY <1>1 DEF Construct, PhaseRequest, Request, Push, NewPromise
<1>2. CASE define_cpureg
  BY <1>2 DEF define_cpureg, PhaseRequest, Request, Push, NewPromise
<1>3. CASE flush_cpuregs
  BY <1>3 DEF flush_cpuregs, PhaseRequest, Request, Push, NewPromise
<1>4. CASE end_of_elaboration
  BY <1>4 DEF end_of_elaboration, PhaseRequest, Request, Push, NewPromise
<1>5. CASE cycle_count
  BY <1>5 DEF cycle_count, RunRequest, Request, Push, NewPromise
<1>6. CASE read_reg_dbg
  BY <1>6 DEF read_reg_dbg, RunRequest, Request, Push, NewPromise
<1>7. CASE \E v \in PCs : write_reg_dbg(v)
  BY <1>7 DEF write_reg_dbg, RunRequest, Request, Push, NewPromise
<1>8. CASE sc_stop
  BY <1>8 DEF sc_stop
<1>9. CASE report
  BY <1>9 DEF report, CachedCount, PhaseRequest, Request, Push, NewPromise
<1>10. CASE Destroy
  BY <1>10 DEF Destroy, SGoto, Request, Push, NewPromise
<1>11. CASE join
  BY <1>11 DEF join, WorkerGone, SGoto
<1>12. CASE NotifyTask
  BY <1>12 DEF NotifyTask, Woken
<1>13. CASE Get
  BY <1>13 DEF Get, Ready, AfterCall, Phases
<1>14. CASE \E m \in 1 .. MaxCycles : simulate(m)
  BY <1>14 DEF simulate, Push, NewPromise
<1>15. CASE StartSim
  BY <1>15 DEF StartSim, SetSimStarted
<1>16. CASE While
  BY <1>16 DEF While, Ready, SGoto, SetSimStarted
<1>17. CASE LockMem
  BY <1>17 DEF LockMem, SGoto
<1>18. CASE PredDone
  BY <1>18 DEF PredDone, SGoto, Ready
<1>19. CASE BlockMem
  BY <1>19 DEF BlockMem, SGoto
<1>20. CASE CountBeforeTransport
  BY <1>20 DEF CountBeforeTransport, CachedCount
<1>21. CASE Transport
  BY <1>21 DEF Transport
<1>22. CASE SuspendInTransport
  BY <1>22 DEF SuspendInTransport, Request, Push, NewPromise
<1>23. CASE StopInTransport
  BY <1>23 DEF StopInTransport
<1>24. CASE python_worker_loop
  BY <1>24 DEF python_worker_loop
<1>25. CASE InitCpu
  BY <1>25 DEF InitCpu, Handling, Answer, ResetIss
<1>26. CASE GetCycles
  BY <1>26 DEF GetCycles, Handling, Refresh, Answer
<1>27. CASE SetPc
  BY <1>27 DEF SetPc, MayRaise, Handling, Answer
<1>28. CASE ReadPc
  BY <1>28 DEF ReadPc, MayRaise, Handling, Answer
<1>29. CASE FreeCpu
  BY <1>29 DEF FreeCpu, Handling, Answer
<1>30. CASE SetCb
  BY <1>30 DEF SetCb, Handling, Answer
<1>31. CASE SetCbEnd
  BY <1>31 DEF SetCbEnd, Answer, ResetIss
<1>32. CASE Simulate
  BY <1>32 DEF Simulate, Handling
<1>33. CASE Step
  BY <1>33 DEF Step, StepLeft
<1>34. CASE StepEnd
  BY <1>34 DEF StepEnd
<1>35. CASE SimulateEnd
  BY <1>35 DEF SimulateEnd, Refresh
<1>36. CASE SimulateNotify
  BY <1>36 DEF SimulateNotify, NotifyMem, Woken
<1>37. CASE \E q \in Access : Ignore(q)
  BY <1>37 DEF Ignore, CallsBack
<1>38. CASE \E q \in Access : Forward(q)
  BY <1>38 DEF Forward, CallsBack, Ignored, MemMutexFree
<1>39. CASE ForwardNotify
  BY <1>39 DEF ForwardNotify, NotifyMem, Woken
<1>40. CASE Resume
  BY <1>40 DEF Resume, Answered
<1>41. CASE SpuriousTask
  BY <1>41 DEF SpuriousTask
<1>42. CASE SpuriousMem
  BY <1>42 DEF SpuriousMem, SGoto
<1>43. CASE UNCHANGED vars
  BY <1>43
<1>44. QED
  BY <1>1, <1>2, <1>3, <1>4, <1>5, <1>6, <1>7, <1>8, <1>9, <1>10, <1>11,
     <1>12, <1>13, <1>14, <1>15, <1>16, <1>17, <1>18, <1>19, <1>20, <1>21,
     <1>22, <1>23, <1>24, <1>25, <1>26, <1>27, <1>28, <1>29, <1>30, <1>31,
     <1>32, <1>33, <1>34, <1>35, <1>36, <1>37, <1>38, <1>39, <1>40, <1>41,
     <1>42, <1>43
  DEF Next, SysC, Worker, Elaborate, Run, Finish, Serve, Handle, Callback

\* The invariant of the sleeping threads holds in every reachable state.
THEOREM WakeInvariant == Spec => []WakeInv
<1>1. Init => WakeInv
  BY DEF Init, WakeInv, SleepingWorker, SleepingSysC, StopInv
<1>2. QED
  BY <1>1, TypeCorrect, HandshakeCorrect, WakeInvStep, PTL DEF Spec

\* No wakeup for new work is lost, for every order of the threads' steps: a
\* thread that sleeps with a task or an access before it will be notified.
THEOREM WakeupsArePendingCorrect == Spec => []WakeupsArePending
<1>1. WakeInv => WakeupsArePending
  BY DEF WakeInv, SleepingWorker, SleepingSysC, WakeupsArePending
<1>2. QED
  BY <1>1, WakeInvariant, PTL

\* Both threads wait for each other only in the four known ways: the lost
\* wakeup at the end of simulate, the join without a cpu, the embrace after a
\* transaction that yields, and the end.
THEOREM StandstillIsKnownCorrect == Spec => []StandstillIsKnown
<1>1. TypeOK /\ Handshake /\ WakeInv => StandstillIsKnown
  <2> SUFFICES ASSUME TypeOK, Handshake, WakeInv, SysCWaits, WorkerWaits
               PROVE  KnownHang
    BY DEF StandstillIsKnown
  <2> USE DEF Ready, Answered, WorkerGone, WorkerWaits, NotReady
  <2>1. CASE spc = "get" /\ ~Ready(done)
    <3>1. wpc = "mget" => Embrace
      BY <2>1 DEF Handshake, AccessInv, Waiting, Embrace
    <3>2. wpc # "exit"
      BY <2>1 DEF WakeInv, StopInv
    <3>3. wpc = "blocked" => task_queue # <<>>
      BY <2>1 DEF Handshake, Quiet, InCall, InSim, Stuck, BusyCall, Waiting
    <3>4. wpc # "blocked"
      BY <2>1, <3>3 DEF WakeInv, SleepingWorker
    <3>5. QED
      BY <3>1, <3>2, <3>4 DEF KnownHang
  <2>2. CASE spc = "join" /\ ~WorkerGone
    <3>1. wpc = "blocked"
      BY <2>2 DEF Handshake, Quiet, InCall, InSim, Stuck, Rest
    <3>2. ~stop_worker
      BY <2>2, <3>1 DEF WakeInv, SleepingWorker
    <3>3. QED
      BY <2>2, <3>1, <3>2 DEF WakeInv, StopInv, KnownHang, JoinWithoutCpu
  <2>3. CASE spc = "blocked"
    <3>1. InSim
      BY <2>3 DEF Handshake, Quiet, InCall, Stuck
    <3>2. wpc # "mget"
      BY <2>3 DEF Handshake, AccessInv, Waiting, Stuck, WakeInv, SleepingSysC
    <3>3. wpc # "exit"
      BY <2>3 DEF WakeInv, StopInv
    <3>4. task_queue = <<>>
      BY <2>3, <3>2, <3>3 DEF WakeInv, SleepingWorker
    <3>5. simdone # NotReady
      BY <3>1, <3>2, <3>3, <3>4, Singleton DEF InSim, BusySim, TypeOK
    <3>6. QED
      BY <2>3, <3>2, <3>3, <3>5 DEF KnownHang, LostWakeup
  <2>4. CASE spc = "gone"
    BY <2>4 DEF KnownHang, Ended
  <2>5. QED
    BY <2>1, <2>2, <2>3, <2>4 DEF SysCWaits
<1>2. QED
  BY <1>1, TypeCorrect, HandshakeCorrect, WakeInvariant, PTL

\* An access inside the window is ignored only while the callbacks are being
\* set, or before simulate has set sim_started: afterwards every load and store
\* of the guest reaches the SystemC thread.
THEOREM IgnoredOnlyEarlyCorrect == Spec => IgnoredOnlyEarly
<1>1. Handshake => [\A q \in Access : Ignore(q) /\ InWindow(q.addr)
                      => wtask.fn = "SetCb" \/ spc = "pushed"]_vars
  <2> SUFFICES ASSUME Handshake, NEW q \in Access, Ignore(q), InWindow(q.addr)
               PROVE  wtask.fn = "SetCb" \/ spc = "pushed"
    OBVIOUS
  <2>1. wpc = "exec" /\ ~sim_started
    BY DEF Ignore, CallsBack, Ignored
  <2>2. QED
    BY <2>1 DEF Handshake, Quiet, InCall, InSim, Stuck, Rest, BusyCall, BusySim,
       Waiting
<1>2. QED
  BY <1>1, HandshakeCorrect, PTL DEF IgnoredOnlyEarly
-----------------------------------------------------------------------------
(* Progress.                                                               *)

\* The ten parts of Left are natural numbers, so that the order on them is
\* well-founded.
LEMMA LeftIsNatural == TypeOK => Left \in [1 .. 10 -> Nat]
<1> SUFFICES ASSUME TypeOK PROVE Left \in [1 .. 10 -> Nat]
    OBVIOUS
<1>1. MaxCalls - calls \in Nat /\ MaxAccesses - wacc \in Nat /\ wleft \in Nat
  BY BoundsAssumption DEF TypeOK
<1>2. PhaseLeft \in Nat /\ Stage \in Nat /\ WorkerLeft \in Nat
  BY DEF PhaseLeft, Stage, WorkerLeft
<1>3. InInstr \in Nat /\ AccessLeft \in Nat /\ Unnotified \in Nat /\ LoopLeft \in Nat
  BY DEF InInstr, AccessLeft, Unnotified, LoopLeft
<1>4. QED
  BY <1>1, <1>2, <1>3 DEF Left

\* What it means for Left to go down: one part does, and those before it stay.
SameCall == UNCHANGED <<PhaseLeft, calls, Stage>>
SameInstr == SameCall /\ UNCHANGED <<WorkerLeft, wleft, InInstr>>
SameAccess == SameInstr /\ UNCHANGED <<wacc, AccessLeft, Unnotified>>
Lower ==
    \/ PhaseLeft' < PhaseLeft
    \/ UNCHANGED PhaseLeft /\ calls' > calls
    \/ UNCHANGED <<PhaseLeft, calls>> /\ Stage' < Stage
    \/ SameCall /\ WorkerLeft' < WorkerLeft
    \/ SameCall /\ UNCHANGED WorkerLeft /\ wleft' < wleft
    \/ SameCall /\ UNCHANGED <<WorkerLeft, wleft>> /\ InInstr' < InInstr
    \/ SameInstr /\ wacc' > wacc
    \/ SameInstr /\ UNCHANGED wacc /\ AccessLeft' < AccessLeft
    \/ SameInstr /\ UNCHANGED <<wacc, AccessLeft>> /\ Unnotified' < Unnotified
    \/ SameAccess /\ LoopLeft' < LoopLeft

LEMMA LessLeft == \A n, c, d \in Nat : d > c => n - d < n - c
  OBVIOUS

LEMMA LowerDescends == TypeOK /\ TypeOK' /\ Lower => Descends(Left', Left)
<1> SUFFICES ASSUME TypeOK, TypeOK', Lower PROVE Descends(Left', Left)
    OBVIOUS
<1>1. /\ calls \in Nat /\ calls' \in Nat /\ wacc \in Nat /\ wacc' \in Nat
      /\ MaxCalls \in Nat /\ MaxAccesses \in Nat
  BY BoundsAssumption DEF TypeOK
<1>2. DOMAIN Left = 1 .. 10
  BY DEF Left
<1>3. \E k \in 1 .. 10 : Left'[k] < Left[k] /\ \A j \in 1 .. (k - 1) : Left'[j] = Left[j]
  <2>1. CASE PhaseLeft' < PhaseLeft
    <3>1. Left'[1] < Left[1] /\ \A j \in 1 .. (1 - 1) : Left'[j] = Left[j]
      BY <1>1, <2>1 DEF Left
    <3>2. QED
      BY <3>1
  <2>2. CASE UNCHANGED PhaseLeft /\ calls' > calls
    <3>1. MaxCalls - calls' < MaxCalls - calls
      BY <1>1, <2>2, LessLeft
    <3>2. Left'[2] = MaxCalls - calls' /\ Left[2] = MaxCalls - calls
      BY DEF Left
    <3>3. \A j \in 1 .. (2 - 1) : Left'[j] = Left[j]
      BY <2>2 DEF Left
    <3>4. QED
      BY <3>1, <3>2, <3>3
  <2>3. CASE UNCHANGED <<PhaseLeft, calls>> /\ Stage' < Stage
    <3>1. Left'[3] < Left[3] /\ \A j \in 1 .. (3 - 1) : Left'[j] = Left[j]
      BY <1>1, <2>3 DEF Left
    <3>2. QED
      BY <3>1
  <2>4. CASE SameCall /\ WorkerLeft' < WorkerLeft
    <3>1. Left'[4] < Left[4] /\ \A j \in 1 .. (4 - 1) : Left'[j] = Left[j]
      BY <1>1, <2>4 DEF Left, SameCall
    <3>2. QED
      BY <3>1
  <2>5. CASE SameCall /\ UNCHANGED WorkerLeft /\ wleft' < wleft
    <3>1. Left'[5] < Left[5] /\ \A j \in 1 .. (5 - 1) : Left'[j] = Left[j]
      BY <1>1, <2>5 DEF Left, SameCall
    <3>2. QED
      BY <3>1
  <2>6. CASE SameCall /\ UNCHANGED <<WorkerLeft, wleft>> /\ InInstr' < InInstr
    <3>1. Left'[6] < Left[6] /\ \A j \in 1 .. (6 - 1) : Left'[j] = Left[j]
      BY <1>1, <2>6 DEF Left, SameCall
    <3>2. QED
      BY <3>1
  <2>7. CASE SameInstr /\ wacc' > wacc
    <3>1. MaxAccesses - wacc' < MaxAccesses - wacc
      BY <1>1, <2>7, LessLeft
    <3>2. Left'[7] = MaxAccesses - wacc' /\ Left[7] = MaxAccesses - wacc
      BY DEF Left
    <3>3. \A j \in 1 .. (7 - 1) : Left'[j] = Left[j]
      BY <2>7 DEF Left, SameInstr, SameCall
    <3>4. QED
      BY <3>1, <3>2, <3>3
  <2>8. CASE SameInstr /\ UNCHANGED wacc /\ AccessLeft' < AccessLeft
    <3>1. Left'[8] < Left[8] /\ \A j \in 1 .. (8 - 1) : Left'[j] = Left[j]
      BY <1>1, <2>8 DEF Left, SameInstr, SameCall
    <3>2. QED
      BY <3>1
  <2>9. CASE SameInstr /\ UNCHANGED <<wacc, AccessLeft>> /\ Unnotified' < Unnotified
    <3>1. Left'[9] < Left[9] /\ \A j \in 1 .. (9 - 1) : Left'[j] = Left[j]
      BY <1>1, <2>9 DEF Left, SameInstr, SameCall
    <3>2. QED
      BY <3>1
  <2>10. CASE SameAccess /\ LoopLeft' < LoopLeft
    <3>1. Left'[10] < Left[10] /\ \A j \in 1 .. (10 - 1) : Left'[j] = Left[j]
      BY <1>1, <2>10 DEF Left, SameAccess, SameInstr, SameCall
    <3>2. QED
      BY <3>1
  <2>11. QED
    BY <2>1, <2>2, <2>3, <2>4, <2>5, <2>6, <2>7, <2>8, <2>9, <2>10 DEF Lower
<1>4. QED
  BY <1>2, <1>3 DEF Descends

LEMMA StepsLower ==
    TypeOK /\ Handshake /\ Next => SpuriousTask \/ SpuriousMem \/ Lower
<1> SUFFICES ASSUME TypeOK, Handshake, Next PROVE SpuriousTask \/ SpuriousMem \/ Lower
    OBVIOUS
<1> USE Singleton
    DEF Handshake, Quiet, InCall, InSim, Stuck, AccessInv, Rest, BusyCall, BusySim,
        Waiting, TypeOK, NotReady, Nested,
        client, tasks, fields, memtasks, memory, worker, iss, ghosts
<1>1. CASE Construct
  BY <1>1 DEF Construct, PhaseRequest, Request, Push, NewPromise, Lower,
     PhaseLeft, Stage
<1>2. CASE define_cpureg
  BY <1>2 DEF define_cpureg, PhaseRequest, Request, Push, NewPromise, Lower,
     PhaseLeft, Stage
<1>3. CASE flush_cpuregs
  BY <1>3 DEF flush_cpuregs, PhaseRequest, Request, Push, NewPromise, Lower,
     PhaseLeft, Stage
<1>4. CASE end_of_elaboration
  BY <1>4 DEF end_of_elaboration, PhaseRequest, Request, Push, NewPromise,
     Lower, PhaseLeft, Stage
<1>5. CASE cycle_count
  BY <1>5 DEF cycle_count, RunRequest, Request, Push, NewPromise, Lower,
     PhaseLeft
<1>6. CASE read_reg_dbg
  BY <1>6 DEF read_reg_dbg, RunRequest, Request, Push, NewPromise, Lower,
     PhaseLeft
<1>7. CASE \E v \in PCs : write_reg_dbg(v)
  BY <1>7 DEF write_reg_dbg, RunRequest, Request, Push, NewPromise, Lower,
     PhaseLeft
<1>8. CASE sc_stop
  BY <1>8 DEF sc_stop, Lower, PhaseLeft
<1>9. CASE report
  BY <1>9 DEF report, CachedCount, PhaseRequest, Request, Push, NewPromise,
     Lower, PhaseLeft, Stage
<1>10. CASE Destroy
  BY <1>10 DEF Destroy, SGoto, Request, Push, NewPromise, Lower, PhaseLeft,
     Stage
<1>11. CASE join
  BY <1>11 DEF join, SGoto, Lower, PhaseLeft, Stage
<1>12. CASE NotifyTask
  BY <1>12 DEF NotifyTask, Lower, PhaseLeft, Stage
<1>13. CASE Get
  BY <1>13 DEF Get, Ready, AfterCall, Phases, Lower, PhaseLeft, Stage
<1>14. CASE \E m \in 1 .. MaxCycles : simulate(m)
  BY <1>14 DEF simulate, Lower, PhaseLeft
<1>15. CASE StartSim
  BY <1>15 DEF StartSim, SetSimStarted, Lower, PhaseLeft, Stage
<1>16. CASE While
  BY <1>16 DEF While, Ready, SetSimStarted, SGoto, Lower, SameAccess,
     SameInstr, SameCall, PhaseLeft, Stage, WorkerLeft, InInstr, AccessLeft,
     Unnotified, LoopLeft
<1>17. CASE LockMem
  BY <1>17 DEF LockMem, SGoto, Ready, Lower, SameAccess, SameInstr, SameCall,
     PhaseLeft, Stage, WorkerLeft, InInstr, AccessLeft, Unnotified, LoopLeft
<1>18. CASE PredDone
  BY <1>18 DEF PredDone, SGoto, Ready, Lower, SameAccess, SameInstr, SameCall,
     PhaseLeft, Stage, WorkerLeft, InInstr, AccessLeft, Unnotified, LoopLeft
<1>19. CASE BlockMem
  BY <1>19 DEF BlockMem, SGoto, Ready, Lower, SameAccess, SameInstr, SameCall,
     PhaseLeft, Stage, WorkerLeft, InInstr, AccessLeft, Unnotified, LoopLeft
<1>20. CASE CountBeforeTransport
  BY <1>20 DEF CountBeforeTransport, CachedCount, Lower, SameInstr, SameCall,
     PhaseLeft, Stage, WorkerLeft, InInstr, AccessLeft
<1>21. CASE Transport
  BY <1>21 DEF Transport, Lower, SameInstr, SameCall, PhaseLeft, Stage,
     WorkerLeft, InInstr, AccessLeft
<1>22. CASE SuspendInTransport
  BY <1>22 DEF SuspendInTransport, Request, Push, NewPromise, Lower,
     PhaseLeft, Stage
<1>23. CASE StopInTransport
  BY <1>23 DEF StopInTransport, Lower, PhaseLeft
<1>24. CASE python_worker_loop
  BY <1>24 DEF python_worker_loop, Lower, SameCall, PhaseLeft, Stage, WorkerLeft
<1>25. CASE InitCpu
  BY <1>25 DEF InitCpu, Handling, Answer, Lower, SameCall, PhaseLeft, Stage,
     WorkerLeft
<1>26. CASE GetCycles
  BY <1>26 DEF GetCycles, Handling, Answer, Lower, SameCall, PhaseLeft, Stage,
     WorkerLeft
<1>27. CASE SetPc
  BY <1>27 DEF SetPc, MayRaise, Handling, Answer, Lower, SameCall, PhaseLeft, Stage,
     WorkerLeft
<1>28. CASE ReadPc
  BY <1>28 DEF ReadPc, MayRaise, Handling, Answer, Lower, SameCall, PhaseLeft, Stage,
     WorkerLeft
<1>29. CASE FreeCpu
  BY <1>29 DEF FreeCpu, Handling, Answer, Lower, SameCall, PhaseLeft, Stage,
     WorkerLeft
<1>30. CASE SetCb
  BY <1>30 DEF SetCb, Handling, Answer, Lower, SameCall, PhaseLeft, Stage,
     WorkerLeft
<1>31. CASE SetCbEnd
  BY <1>31 DEF SetCbEnd, Answer, Lower, SameCall, PhaseLeft, Stage, WorkerLeft
<1>32. CASE Simulate
  BY <1>32 DEF Simulate, Handling, Lower, SameCall, PhaseLeft, Stage, WorkerLeft
<1>33. CASE Step
  BY <1>33 DEF Step, StepLeft, Lower, SameInstr, SameCall, PhaseLeft, Stage,
     WorkerLeft, InInstr
<1>34. CASE StepEnd
  BY <1>34 DEF StepEnd, Lower, SameInstr, SameCall, PhaseLeft, Stage,
     WorkerLeft, InInstr
<1>35. CASE SimulateEnd
  BY <1>35 DEF SimulateEnd, Lower, SameCall, PhaseLeft, Stage, WorkerLeft
<1>36. CASE SimulateNotify
  BY <1>36 DEF SimulateNotify, NotifyMem, Woken, Lower, SameCall, PhaseLeft,
     Stage, WorkerLeft
<1>37. CASE \E q \in Access : Ignore(q)
  BY <1>37 DEF Ignore, CallsBack, Lower, SameInstr, SameCall, PhaseLeft, Stage,
     WorkerLeft, InInstr
<1>38. CASE \E q \in Access : Forward(q)
  BY <1>38 DEF Forward, CallsBack, Ignored, MemMutexFree, Lower, SameInstr, SameCall,
     PhaseLeft, Stage, WorkerLeft, InInstr
<1>39. CASE ForwardNotify
  BY <1>39 DEF ForwardNotify, NotifyMem, Woken, Lower, SameInstr, SameCall,
     PhaseLeft, Stage, WorkerLeft, InInstr, AccessLeft, Unnotified
<1>40. CASE Resume
  <2>1. SameCall /\ UNCHANGED WorkerLeft
    BY <1>40 DEF Resume, SameCall, PhaseLeft, Stage, WorkerLeft
  <2>2. CASE mres = "fail"
    <3>1. wleft' = 0 /\ InInstr' = 0 /\ InInstr = 1
      BY <1>40, <2>2 DEF Resume, InInstr
    <3>2. wleft' < wleft \/ wleft' = wleft
      BY <3>1
    <3>3. QED
      BY <2>1, <3>1, <3>2 DEF Lower
  <2>3. CASE mres # "fail"
    <3>1. SameInstr /\ UNCHANGED wacc
      BY <1>40, <2>1, <2>3 DEF Resume, SameInstr, InInstr
    <3>2. AccessLeft' < AccessLeft
      BY <1>40, <2>3 DEF Resume, Answered, AccessLeft
    <3>3. QED
      BY <3>1, <3>2 DEF Lower
  <2>4. QED
    BY <2>2, <2>3
<1>41. CASE SpuriousTask
  BY <1>41
<1>42. CASE SpuriousMem
  BY <1>42
<1>43. QED
  BY <1>1, <1>2, <1>3, <1>4, <1>5, <1>6, <1>7, <1>8, <1>9, <1>10, <1>11,
     <1>12, <1>13, <1>14, <1>15, <1>16, <1>17, <1>18, <1>19, <1>20, <1>21,
     <1>22, <1>23, <1>24, <1>25, <1>26, <1>27, <1>28, <1>29, <1>30, <1>31,
     <1>32, <1>33, <1>34, <1>35, <1>36, <1>37, <1>38, <1>39, <1>40, <1>41,
     <1>42
  DEF Next, SysC, Worker, Elaborate, Run, Finish, Serve, Handle, Callback

\* Every step of the two threads that is not a spurious wakeup brings Left
\* down: there is no livelock, whatever the order of the steps.
THEOREM StepsMakeProgressCorrect == Spec => StepsMakeProgress
<1>1. TypeOK /\ TypeOK' /\ Handshake /\ [Next]_vars
        => [SpuriousTask \/ SpuriousMem \/ Descends(Left', Left)]_vars
  BY StepsLower, LowerDescends
<1>2. QED
  BY <1>1, TypeCorrect, HandshakeCorrect, PTL DEF Spec, StepsMakeProgress

\* The parts of Left stay natural numbers, so that it cannot go down for ever
\* (NoEndlessDescent of LexicographicProofs).
THEOREM LeftCorrect == Spec => [](Left \in [1 .. 10 -> Nat])
  BY LeftIsNatural, TypeCorrect, PTL
=============================================================================
