---------------------------- MODULE CoreProgress ----------------------------
(***************************************************************************)
(* Why the two threads of PydrofoilCore cannot run for ever: a tuple of    *)
(* natural numbers that every step of either of them makes smaller.  Only  *)
(* a spurious wakeup of a condition variable is no progress.               *)
(***************************************************************************)
EXTENDS PydrofoilCore, Lexicographic

\* The phases that are still to come.
PhaseLeft ==
    CASE phase = "ctor" -> 6 [] phase = "define" -> 5 [] phase = "flush" -> 4
      [] phase = "setcb" -> 3 [] phase = "run" -> 2 [] phase = "report" -> 1
      [] OTHER -> 0

\* A call, from before its push to its return: in simulate, or in a request
\* that is made while simulate runs (Nested), or in another request.
Nested == sim_started /\ call.fn # "Simulate"
Stage ==
    CASE spc = "idle" -> (IF phase = "run" THEN 1 ELSE 7)
      [] spc = "pushed" -> 6
      [] spc = "notify" -> (IF Nested THEN 3 ELSE 5)
      [] spc = "get" -> (IF Nested THEN 2 ELSE 4)
      [] spc = "join" -> 1
      [] spc = "gone" -> 0
      [] OTHER -> 4

\* A task, from the worker's waiting for it to its waiting for the next one.
WorkerLeft ==
    CASE wpc = "run" -> 5
      [] wpc \in {"step", "exec", "mnotify", "mget"} -> 4
      [] wpc = "simnotify" -> (IF task_queue # <<>> THEN 8 ELSE 3)
      [] wpc = "lock" -> (IF task_queue # <<>> THEN 7 ELSE 2)
      [] OTHER -> (IF task_queue # <<>> THEN 6 ELSE 1)

\* An instruction, and one access of it: queued, taken, counted, answered.
InInstr == IF wpc \in {"exec", "mnotify", "mget"} THEN 1 ELSE 0
AccessLeft ==
    CASE ~Waiting -> 0
      [] Waiting /\ memtask_queue # <<>> -> 4
      [] Waiting /\ memtask_queue = <<>> /\ mres # "none" -> 1
      [] OTHER -> (IF spc = "serve" THEN 3 ELSE 2)
Unnotified == IF wpc = "mnotify" THEN 1 ELSE 0

\* The loop in simulate: to the wait, or, once done is ready, out of it.
LoopLeft ==
    CASE spc = "while" -> (IF Ready(simdone) THEN 1 ELSE 5)
      [] spc = "lock" -> (IF Ready(simdone) THEN 3 ELSE 4)
      [] spc = "pred" -> (IF Ready(simdone) THEN 2 ELSE 3)
      [] spc = "block" -> (IF Ready(simdone) THEN 5 ELSE 2)
      [] spc = "blocked" -> (IF Ready(simdone) THEN 4 ELSE 1)
      [] OTHER -> 0

Left == <<PhaseLeft, MaxCalls - calls, Stage, WorkerLeft, wleft, InInstr,
          MaxAccesses - wacc, AccessLeft, Unnotified, LoopLeft>>

\* No order of steps of the two threads is a livelock: between the calls of the
\* platform and the instructions and accesses of the guest, of which there are
\* only so many, each step brings a thread nearer to the end of its call or to
\* a place where it waits (the loops of simulate and python_worker_loop).
StepsMakeProgress ==
    [][SpuriousTask \/ SpuriousMem \/ Descends(Left', Left)]_vars
=============================================================================
