-------------------------------- MODULE CpuApi --------------------------------
(***************************************************************************)
(* What PydrofoilCore promises VCML, without threads, queues and promises: *)
(* a cpu that serves one call at a time.  A call takes effect once,        *)
(* between the moment it is made and the moment it returns, and its answer *)
(* is the state at that moment.  While simulate runs, the cycle count is   *)
(* the one it had when simulate was called.                                *)
(***************************************************************************)
EXTENDS Integers

CONSTANTS PCs, RESET_PC, NotReady, Seen(_),   \* Seen: int to u64
          SimMayRaise   \* register accesses and the reset may fail, unnoticed

VARIABLES cpu,      \* "unset", "live", "null" or "freed"
          count,    \* executed cycles
          pc,       \* the program counter
          req,      \* the call under way, or NoReq
          reply,    \* its answer, or NotReady
          seen      \* the cycle count the caller was told last
vars == <<cpu, count, pc, req, reply, seen>>

NoReq == [fn |-> "none", arg |-> 0]

\* The cycles a simulate call for n cycles may execute: all of them, or those
\* up to a failing access or instruction; at least one, unless there is no cpu.
Executed(n) == IF cpu = "live" THEN 1 .. n ELSE {0}

\* A call without a cpu has no effect, and with one it may have none.
MaybeNot(v) == IF cpu # "live" \/ SimMayRaise THEN {v} ELSE {}
PcAfter(v) == (IF cpu = "live" THEN {v} ELSE {}) \cup MaybeNot(pc)

Init ==
    /\ cpu = "unset" /\ count = 0 /\ pc = RESET_PC
    /\ req = NoReq /\ reply = NotReady /\ seen = 0

Call ==
    /\ req = NoReq /\ req' # NoReq /\ reply' = NotReady
    /\ UNCHANGED <<cpu, count, pc, seen>>

\* The effect of a call and its answer, by the function called.
Effect(f, ans) ==
    req.fn = f /\ reply = NotReady /\ reply' = ans /\ UNCHANGED <<req, seen>>
Serve ==
    \/ /\ Effect("Init", 0) /\ cpu' \in {"live", "null"} /\ pc' = RESET_PC
       /\ UNCHANGED count
    \/ /\ Effect("SetCb", 0) /\ pc' \in PcAfter(RESET_PC)
       /\ UNCHANGED <<cpu, count>>
    \/ /\ Effect("SetPc", 1) /\ pc' \in PcAfter(req.arg)
       /\ UNCHANGED <<cpu, count>>
    \/ /\ \E v \in (IF cpu = "live" THEN {pc} ELSE {}) \cup MaybeNot(0) :
            Effect("ReadPc", v)
       /\ UNCHANGED <<cpu, count, pc>>
    \/ Effect("GetCycles", Seen(count)) /\ UNCHANGED <<cpu, count, pc>>
    \/ Effect("FreeCpu", 0) /\ cpu' = "freed" /\ UNCHANGED <<count, pc>>
    \/ /\ Effect("Simulate", 0)
       /\ \E k \in Executed(req.arg) : count' = count + k
       /\ UNCHANGED <<cpu, pc>>

\* While simulate is under way the guest runs, and the caller may be told the
\* cycle count.
Simulating == req.fn = "Simulate" /\ UNCHANGED <<cpu, count, req, reply>>
Execute == Simulating /\ reply = NotReady /\ pc' \in PCs /\ UNCHANGED seen
Peek == Simulating /\ seen' = Seen(count) /\ UNCHANGED pc

Return ==
    /\ req # NoReq /\ reply # NotReady
    /\ req' = NoReq /\ reply' = NotReady
    /\ seen' = (IF req.fn = "GetCycles" THEN reply ELSE seen)
    /\ UNCHANGED <<cpu, count, pc>>

Next == Call \/ Serve \/ Execute \/ Peek \/ Return
Spec == Init /\ [][Next]_vars
=============================================================================
