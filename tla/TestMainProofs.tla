---------------------------- MODULE TestMainProofs ----------------------------
(***************************************************************************)
(* main of testmain.c, for any number of steps and any number of handles:  *)
(* what its two runs begin with and what they count, and that the guest's  *)
(* accesses go to the block list as SparseMemProofs assumes of a caller.   *)
(***************************************************************************)
EXTENDS TestMain, SparseMemProofs

\* The object of the cpu of main.
Own == object[handle]

Shape ==
    /\ mpc \in 1 .. 13 /\ steps \in Nat /\ exit \in {"none", "ok", "error"}
    /\ object \in [Handle -> G!Object \cup {NoObject}]
    /\ mpc = 1 => cpu = NULL

\* From its allocation on the cpu of main is the only one, and it is alive until
\* it is freed, unless the allocation has failed.
OwnInv ==
    /\ mpc = 1 => all_cpu_handles = {}
    /\ mpc \in 2 .. 12 =>
         \/ mpc = 2 /\ handle = NULL /\ trouble
         \/ handle \in Handle /\ all_cpu_handles = {handle} /\ Own # NoObject
    /\ mpc = 13 => all_cpu_handles = {}

\* A call of simulate runs on that cpu, between two statements of main.
RunInv ==
    running # NULL => mpc \in {4, 10} /\ running = handle /\ left \in 0 .. steps

\* Unless a call has raised, the object has the steps of this run.
CountInv ==
    /\ mpc \in {3, 6, 7, 8, 9} /\ ~trouble => Own.steps = 0
    /\ mpc \in {4, 10} /\ ~trouble =>
         Own.steps + (IF running = NULL THEN 0 ELSE left) = steps
    /\ mpc \in {5, 11} /\ ~trouble => result = steps

\* Verbosity and pc, from the statement on that sets them, unless it has raised.
ConfInv ==
    /\ mpc \in {7, 8, 9, 10} /\ "set_verbosity" \notin unset => ~Own.sim.verbose
    /\ mpc = 9 \/ (mpc = 10 /\ running # NULL /\ left = steps)
         => ("set_pc" \notin unset => Own.sim.pc = SET_PC)

\* The calls whose result main looks at succeed, but for the allocation.
ExitInv ==
    /\ mpc \in {9, 13} => result = 0
    /\ exit # "none" /\ ~trouble => exit = "ok" /\ all_cpu_handles = {}

MainInv == Shape /\ OwnInv /\ RunInv /\ CountInv /\ ConfInv /\ ExitInv
-----------------------------------------------------------------------------
(* The program text of main.                                               *)

LEMMA MainIs ==
    /\ Len(Main) = 12
    /\ Main[1] = "allocate" /\ Main[2] = "set_callback" /\ Main[3] = "simulate"
    /\ Main[4] = "cycles" /\ Main[5] = "reset" /\ Main[6] = "set_verbosity"
    /\ Main[7] = "pc" /\ Main[8] = "set_pc" /\ Main[9] = "simulate"
    /\ Main[10] = "cycles" /\ Main[11] = "pc" /\ Main[12] = "free"
BY DEF Main

LEMMA Positions ==
    \A n \in 1 .. 13 :
        /\ (n > 1 /\ Main[n - 1] = "allocate") <=> n = 2
        /\ (n > 1 /\ Main[n - 1] = "set_pc") <=> n = 9
        /\ (n > 1 /\ Main[n - 1] = "cycles") <=> n \in {5, 11}
        /\ (n > 1 /\ Main[n - 1] = "free") <=> n = 13
<1> SUFFICES ASSUME NEW n \in 2 .. 13
             PROVE  /\ Main[n - 1] = "allocate" <=> n = 2
                    /\ Main[n - 1] = "set_pc" <=> n = 9
                    /\ Main[n - 1] = "cycles" <=> n \in {5, 11}
                    /\ Main[n - 1] = "free" <=> n = 13
  OBVIOUS
<1>1. PICK m \in 1 .. 12 : m = n - 1
  OBVIOUS
<1>2. m \in {1, 2, 3, 4, 5, 6, 7, 8, 9, 10, 11, 12}
  OBVIOUS
<1>3. QED
  BY <1>1, <1>2, MainIs

LEMMA Handles ==
    /\ mpc \in 1 .. 13 => handle = IF mpc = 2 THEN result ELSE cpu
    /\ mpc' \in 1 .. 13 => handle' = IF mpc' = 2 THEN result' ELSE cpu'
BY Positions DEF handle, After

LEMMA Failures ==
    mpc \in 1 .. 13 =>
        (Fails <=> \/ mpc = 2 /\ result = NULL
                   \/ mpc = 9 /\ result # 0
                   \/ mpc = 13 /\ result # 0)
BY Positions DEF Fails, After

\* The statement at mpc.
LEMMA DoIs ==
    ASSUME mpc \in 1 .. 13, Do
    PROVE  \/ mpc = 1 /\ G!pydrofoil_allocate_cpu
           \/ mpc = 2 /\ \E c \in Client :
                G!pydrofoil_cpu_set_ram_read_write_callback(handle, c)
           \/ mpc \in {3, 9} /\ G!pydrofoil_cpu_simulate(handle, steps)
           \/ mpc \in {4, 10} /\ G!pydrofoil_cpu_cycles(handle)
           \/ mpc = 5 /\ G!pydrofoil_cpu_reset(handle)
           \/ mpc = 6 /\ G!pydrofoil_cpu_set_verbosity(handle, FALSE)
           \/ mpc \in {7, 11} /\ G!pydrofoil_cpu_pc(handle)
           \/ mpc = 8 /\ G!pydrofoil_cpu_set_pc(handle, SET_PC)
           \/ mpc = 12 /\ G!pydrofoil_free_cpu(handle)
<1>1. Statement(Main[mpc]) /\ mpc <= 12
  BY MainIs DEF Do
<1>2. mpc \in {1, 2, 3, 4, 5, 6, 7, 8, 9, 10, 11, 12}
  BY <1>1
<1>3. QED
  BY <1>1, <1>2, MainIs DEF Statement
-----------------------------------------------------------------------------
(* What the functions of the API make of an object.                        *)

LEMMA NewObjectIs == G!NewObject \in G!Object /\ G!NewObject.steps = 0
<1>1. G!NewSim(NULL) \in G!Sim
  BY ApiAssumption DEF G!GlueAssumption, G!NewSim, G!Sim
<1>2. G!NoCallback \in G!Callbacks
  BY DEF G!NoCallback, G!Callbacks
<1>3. QED
  BY <1>1, <1>2 DEF G!NewObject, G!Object

LEMMA ResetIs ==
    ASSUME NEW o \in G!Object
    PROVE  /\ G!Reset(o, TRUE) \in G!Object /\ G!Reset(o, TRUE).steps = 0
           /\ G!Reset(o, FALSE) = o
<1>1. G!NewSim(o.callbacks.payload) \in G!Sim
  BY ApiAssumption DEF G!GlueAssumption, G!NewSim, G!Sim, G!Object, G!Callbacks
<1>2. QED
  BY <1>1 DEF G!Reset, G!Object

LEMMA SetCallbacksIs ==
    ASSUME NEW o \in G!Object, NEW c \in Client
    PROVE  G!SetCallbacks(o, c) \in G!Object
BY DEF G!SetCallbacks, G!Object, G!Callbacks

LEMMA SteppedIs ==
    ASSUME NEW o \in G!Object, NEW p \in PCs
    PROVE  /\ G!Stepped(o, p) \in G!Object /\ G!Stepped(o, p).steps = o.steps + 1
           /\ G!Stepped(o, p).sim.verbose = o.sim.verbose
<1>1. PICK k \in Nat : k = o.steps + 1
  BY DEF G!Object
<1>2. PICK r \in Nat : r = o.sim.ran + 1
  BY DEF G!Object, G!Sim
<1>3. ASSUME NEW t \in G!Sim
      PROVE  /\ [t EXCEPT !.ran = r, !.pc = p] \in G!Sim
             /\ [t EXCEPT !.ran = r, !.pc = p].verbose = t.verbose
  BY <1>2 DEF G!Sim
<1>4. o.sim \in G!Sim
  BY DEF G!Object
<1>5. PICK u \in G!Sim : u = [o.sim EXCEPT !.ran = r, !.pc = p] /\ u.verbose = o.sim.verbose
  BY <1>3, <1>4
<1>6. G!Stepped(o, p) = [o EXCEPT !.steps = k, !.sim = u]
  BY <1>1, <1>2, <1>4, <1>5 DEF G!Stepped, G!Object, G!Sim
<1>7. QED
  BY <1>1, <1>5, <1>6 DEF G!Object

LEMMA SetPcIs ==
    ASSUME NEW o \in G!Object, NEW v \in PCs
    PROVE  /\ [o EXCEPT !.sim.pc = v] \in G!Object
           /\ [o EXCEPT !.sim.pc = v].steps = o.steps
           /\ [o EXCEPT !.sim.pc = v].sim.pc = v
           /\ [o EXCEPT !.sim.pc = v].sim.verbose = o.sim.verbose
BY DEF G!Object, G!Sim

LEMMA SetVerbosityIs ==
    ASSUME NEW o \in G!Object
    PROVE  /\ [o EXCEPT !.sim.verbose = FALSE] \in G!Object
           /\ [o EXCEPT !.sim.verbose = FALSE].steps = o.steps
           /\ ~[o EXCEPT !.sim.verbose = FALSE].sim.verbose
BY DEF G!Object, G!Sim
-----------------------------------------------------------------------------
(* The statements of main.                                                 *)

\* A statement that is executed after the allocation has a cpu to work on.
LEMMA HasCpu ==
    ASSUME Shape, OwnInv, Do, mpc # 1
    PROVE  /\ mpc \in 2 .. 12 /\ mpc' = mpc + 1 /\ handle' = handle
           /\ handle \in Handle /\ all_cpu_handles = {handle}
           /\ Own \in G!Object /\ Own # NoObject /\ G!FromHandle(handle)
           /\ exit = "none" /\ UNCHANGED <<steps, exit>>
<1>1. /\ mpc \in 2 .. 12 /\ mpc' = mpc + 1 /\ cpu' = handle /\ ~Fails
      /\ exit = "none" /\ UNCHANGED <<steps, exit>>
  BY MainIs DEF Do, Shape
<1>2. handle' = handle
  BY <1>1, Handles
<1>3. handle # NULL \/ mpc # 2
  BY <1>1, Failures, Handles
<1>4. handle \in Handle /\ all_cpu_handles = {handle} /\ Own # NoObject
  BY <1>1, <1>3 DEF OwnInv
<1>5. QED
  BY <1>1, <1>2, <1>4 DEF Own, Shape, G!FromHandle

\* A call that ends at once puts new into the place of the object.
LEMMA Called ==
    ASSUME Shape, OwnInv, Do, mpc # 1, NEW new \in G!Object,
           G!Enter, object' = [object EXCEPT ![handle] = new],
           UNCHANGED <<all_cpu_handles, running>>
    PROVE  /\ Shape' /\ (mpc # 12 => OwnInv')
           /\ Own' = new /\ running = NULL /\ running' = NULL
<1>1. /\ object' \in [Handle -> G!Object \cup {NoObject}] /\ object'[handle] = new
      /\ new # NoObject
  BY HasCpu, ApiAssumption DEF Shape, G!ObjectAssumption
<1>2. Own' = new /\ running = NULL /\ running' = NULL
  BY <1>1, HasCpu DEF Own, G!Enter
<1>3. Shape'
  BY <1>1, HasCpu DEF Shape
<1>4. mpc # 12 => OwnInv'
  BY <1>1, <1>2, HasCpu DEF OwnInv
<1>5. QED
  BY <1>2, <1>3, <1>4

LEMMA CallIs ==
    ASSUME Shape, OwnInv, Do, mpc # 1, NEW f, NEW new \in G!Object, NEW r,
           G!Call(f, handle, new, r)
    PROVE  /\ Shape' /\ (mpc # 12 => OwnInv')
           /\ Own' = new /\ running = NULL /\ running' = NULL
           /\ result' = r /\ UNCHANGED all_cpu_handles
<1>1. G!FromHandle(handle)
  BY HasCpu
<1>2. /\ G!Enter /\ object' = [object EXCEPT ![handle] = new] /\ result' = r
      /\ UNCHANGED <<all_cpu_handles, running>>
  BY <1>1 DEF G!Call, G!Returns
<1>3. QED
  BY <1>2, Called

LEMMA FailedResetIs ==
    ASSUME Shape, OwnInv, Do, mpc # 1, mpc # 12, NEW f, NEW new \in G!Object,
           G!FailedReset(f, handle, new)
    PROVE  /\ Shape' /\ OwnInv' /\ Own' = new /\ running' = NULL
           /\ failed' = f /\ UNCHANGED all_cpu_handles
<1>1. G!Reset(new, FALSE) = new
  BY ResetIs
<1>2. /\ G!Enter /\ object' = [object EXCEPT ![handle] = new] /\ failed' = f
      /\ UNCHANGED <<all_cpu_handles, running>>
  BY <1>1 DEF G!FailedReset, G!Raises
<1>3. QED
  BY <1>2, Called

LEMMA SimulatorRaisesIs ==
    ASSUME Shape, OwnInv, Do, mpc # 1, mpc # 12, NEW f, G!SimulatorRaises(f, handle)
    PROVE  /\ Shape' /\ OwnInv' /\ Own' = Own /\ running' = NULL
           /\ failed' = f /\ result' = 0 /\ UNCHANGED all_cpu_handles
<1>1. /\ G!Enter /\ failed' = f /\ result' = 0
      /\ UNCHANGED <<all_cpu_handles, object, running>>
  BY DEF G!SimulatorRaises, G!Raises
<1>2. PICK new \in G!Object : new = Own
  BY HasCpu
<1>3. object' = [object EXCEPT ![handle] = new]
  BY <1>1, <1>2, HasCpu DEF Own, Shape
<1>4. Shape' /\ OwnInv' /\ Own' = new /\ running' = NULL
  BY <1>1, <1>3, Called
<1>5. QED
  BY <1>1, <1>2, <1>4

\* Whether some call has raised, and one that sets the pc or the verbosity.
LEMMA Troubles ==
    ASSUME MainNext
    PROVE  /\ ~trouble' => ~trouble /\ failed' = "none"
           /\ trouble => trouble'
           /\ failed' # "none" => trouble'
           /\ unset \subseteq unset'
           /\ failed' \in {"set_pc", "set_verbosity"} => failed' \in unset'
<1>1. trouble' = (trouble \/ failed' # "none")
  BY Zenon DEF MainNext
<1>2. unset' = unset \cup ({failed'} \cap {"set_pc", "set_verbosity"})
  BY DEF MainNext
<1>3. unset \subseteq unset' /\ (failed' \in {"set_pc", "set_verbosity"} => failed' \in unset')
  BY <1>2
<1>4. QED
  BY <1>1, <1>3, Zenon

LEMMA DoKeeps == ASSUME MainInv, MainNext, Do PROVE MainInv'
<1> USE DEF MainInv
<1>0. mpc \in 1 .. 13
  BY DEF Shape
<1>1. CASE mpc = 1 /\ G!pydrofoil_allocate_cpu
  <2>0. /\ mpc' = 2 /\ handle' = result' /\ UNCHANGED <<steps, exit>>
        /\ exit = "none" /\ running = NULL /\ running' = NULL
    BY <1>0, <1>1, Handles DEF Do, G!pydrofoil_allocate_cpu, G!Enter
  <2>1. ASSUME NEW h \in Handle, object[h] = NoObject,
               object' = [object EXCEPT ![h] = G!NewObject],
               all_cpu_handles' = G!Kept(h), result' = h
        PROVE  Shape' /\ OwnInv'
    <3>1. /\ object' \in [Handle -> G!Object \cup {NoObject}]
          /\ object'[h] = G!NewObject /\ G!NewObject # NoObject
      BY <2>1, NewObjectIs, ApiAssumption DEF Shape, G!ObjectAssumption
    <3>2. all_cpu_handles' = {h}
      BY <1>1, <2>1 DEF OwnInv, G!Kept
    <3>3. QED
      BY <2>0, <2>1, <3>1, <3>2 DEF Shape, OwnInv, Own
  <2>2. ASSUME result' = NULL, failed' = "allocate", UNCHANGED object
        PROVE  Shape' /\ OwnInv'
    BY <2>0, <2>2, Troubles DEF Shape, OwnInv
  <2>3. Shape' /\ OwnInv'
    BY <1>1, <2>1, <2>2 DEF G!pydrofoil_allocate_cpu, G!Returns
  <2>4. QED
    BY <2>0, <2>3 DEF RunInv, CountInv, ConfInv, ExitInv
<1>2. ASSUME mpc # 1
      PROVE  /\ mpc \in 2 .. 12 /\ mpc' = mpc + 1 /\ Own \in G!Object
             /\ exit = "none" /\ UNCHANGED <<steps, exit>>
             /\ ~trouble' => ~trouble /\ failed' = "none"
             /\ unset \subseteq unset'
  BY <1>2, HasCpu, Troubles
<1>3. CASE mpc = 2 /\ \E c \in Client :
             G!pydrofoil_cpu_set_ram_read_write_callback(handle, c)
  <2>0. PICK c \in Client : G!pydrofoil_cpu_set_ram_read_write_callback(handle, c)
    BY <1>3
  <2>1. PICK o \in G!Object : o = G!SetCallbacks(Own, c)
    BY <1>2, <1>3, SetCallbacksIs
  <2>2. PICK new \in G!Object : new = G!Reset(o, TRUE) /\ new.steps = 0
    BY ResetIs
  <2>3. \/ G!Call("set_callback", handle, new, 0)
        \/ G!FailedReset("set_callback", handle, o)
    BY <2>0, <2>1, <2>2 DEF G!pydrofoil_cpu_set_ram_read_write_callback, Own
  <2>4. /\ Shape' /\ OwnInv' /\ running' = NULL
        /\ ~trouble' => Own'.steps = 0
    <3>1. CASE G!Call("set_callback", handle, new, 0)
      <4>1. Shape' /\ OwnInv' /\ running' = NULL /\ Own' = new
        BY <1>3, <3>1, CallIs
      <4>2. QED
        BY <2>2, <4>1
    <3>2. CASE G!FailedReset("set_callback", handle, o)
      BY <1>2, <1>3, <3>2, FailedResetIs
    <3>3. QED
      BY <2>3, <3>1, <3>2
  <2>5. mpc' = 3 /\ exit' = "none"
    BY <1>2, <1>3
  <2>6. QED
    BY <2>4, <2>5 DEF RunInv, CountInv, ConfInv, ExitInv
<1>4. CASE mpc \in {3, 9} /\ G!pydrofoil_cpu_simulate(handle, steps)
  <2>1. /\ running' = handle /\ left' = steps /\ handle' = handle
        /\ UNCHANGED <<all_cpu_handles, object>>
    BY <1>4, HasCpu DEF G!pydrofoil_cpu_simulate
  <2>2. Own' = Own
    BY <2>1 DEF Own
  <2>3. Shape' /\ OwnInv'
    BY <1>2, <1>4, <2>1, <2>2, HasCpu DEF Shape, OwnInv
  <2>4. RunInv' /\ ExitInv'
    BY <1>2, <1>4, <2>1, HasCpu DEF RunInv, Shape, ExitInv
  <2>5. CountInv'
    <3>1. mpc' \in {4, 10} /\ (~trouble' => Own'.steps = 0) /\ running' # NULL
      BY <1>2, <1>4, <2>1, <2>2, HasCpu, ApiAssumption DEF CountInv, G!GlueAssumption
    <3>2. QED
      BY <1>2, <1>4, <2>1, <3>1 DEF CountInv, Shape
  <2>6. ConfInv'
    BY <1>2, <1>4, <2>2 DEF ConfInv
  <2>7. QED
    BY <2>3, <2>4, <2>5, <2>6
<1>5. CASE mpc \in {4, 10} /\ G!pydrofoil_cpu_cycles(handle)
  <2>1. G!Call("cycles", handle, Own, Own.steps)
    BY <1>5 DEF G!pydrofoil_cpu_cycles, Own
  <2>2. /\ Shape' /\ OwnInv' /\ Own' = Own /\ running = NULL /\ running' = NULL
        /\ result' = Own.steps
    BY <1>2, <1>5, <2>1, CallIs
  <2>3. ~trouble => result' = steps
    BY <1>2, <1>5, <2>2 DEF CountInv, G!Object
  <2>4. QED
    BY <1>2, <1>5, <2>2, <2>3 DEF RunInv, CountInv, ConfInv, ExitInv
<1>6. CASE mpc = 5 /\ G!pydrofoil_cpu_reset(handle)
  <2>0. PICK o \in G!Object : o = Own
    BY <1>2, <1>6
  <2>1. PICK new \in G!Object : new = G!Reset(o, TRUE) /\ new.steps = 0
    BY ResetIs
  <2>2. \/ G!Call("reset", handle, new, 0)
        \/ G!FailedReset("reset", handle, Own)
    BY <1>6, <2>0, <2>1 DEF G!pydrofoil_cpu_reset, Own
  <2>3. /\ Shape' /\ OwnInv' /\ running' = NULL
        /\ ~trouble' => Own'.steps = 0
    <3>1. CASE G!Call("reset", handle, new, 0)
      <4>1. Shape' /\ OwnInv' /\ running' = NULL /\ Own' = new
        BY <1>6, <3>1, CallIs
      <4>2. QED
        BY <2>1, <4>1
    <3>2. CASE G!FailedReset("reset", handle, Own)
      BY <1>2, <1>6, <3>2, FailedResetIs
    <3>3. QED
      BY <2>2, <3>1, <3>2
  <2>4. mpc' = 6 /\ exit' = "none"
    BY <1>2, <1>6
  <2>5. QED
    BY <2>3, <2>4 DEF RunInv, CountInv, ConfInv, ExitInv
<1>7. CASE mpc = 6 /\ G!pydrofoil_cpu_set_verbosity(handle, FALSE)
  <2>0. PICK o \in G!Object : o = Own
    BY <1>2, <1>7
  <2>1. PICK new \in G!Object : /\ new = [o EXCEPT !.sim.verbose = FALSE]
                                /\ new.steps = o.steps /\ ~new.sim.verbose
    BY SetVerbosityIs
  <2>2. \/ G!Call("set_verbosity", handle, new, 0)
        \/ G!SimulatorRaises("set_verbosity", handle)
    BY <1>7, <2>0, <2>1 DEF G!pydrofoil_cpu_set_verbosity, Own
  <2>3. mpc' = 7 /\ exit' = "none"
    BY <1>2, <1>7
  <2>4. CASE G!Call("set_verbosity", handle, new, 0)
    <3>1. Shape' /\ OwnInv' /\ Own' = new /\ running' = NULL
      BY <1>7, <2>4, CallIs
    <3>2. QED
      BY <1>2, <1>7, <2>0, <2>1, <2>3, <3>1 DEF RunInv, CountInv, ConfInv, ExitInv
  <2>5. CASE G!SimulatorRaises("set_verbosity", handle)
    <3>1. Shape' /\ OwnInv' /\ running' = NULL /\ failed' = "set_verbosity"
      BY <1>7, <2>5, SimulatorRaisesIs
    <3>2. "set_verbosity" \in unset' /\ trouble'
      BY <3>1, Troubles
    <3>3. QED
      BY <2>3, <3>1, <3>2 DEF RunInv, CountInv, ConfInv, ExitInv
  <2>6. QED
    BY <2>2, <2>4, <2>5
<1>8. CASE mpc \in {7, 11} /\ G!pydrofoil_cpu_pc(handle)
  <2>1. G!Call("pc", handle, Own, Own.sim.pc) \/ G!SimulatorRaises("pc", handle)
    BY <1>8 DEF G!pydrofoil_cpu_pc, Own
  <2>2. Shape' /\ OwnInv' /\ Own' = Own /\ running' = NULL
    BY <1>2, <1>8, <2>1, CallIs, SimulatorRaisesIs
  <2>3. mpc' \in {8, 12} /\ (mpc' = 8 => mpc = 7) /\ exit' = "none"
    BY <1>2, <1>8
  <2>4. QED
    BY <1>2, <1>8, <2>2, <2>3 DEF RunInv, CountInv, ConfInv, ExitInv
<1>9. CASE mpc = 8 /\ G!pydrofoil_cpu_set_pc(handle, SET_PC)
  <2>0. PICK o \in G!Object : o = Own
    BY <1>2, <1>9
  <2>1. PICK new \in G!Object : /\ new = [o EXCEPT !.sim.pc = SET_PC]
                                /\ new.steps = o.steps /\ new.sim.pc = SET_PC
                                /\ new.sim.verbose = o.sim.verbose
    BY SetPcIs, MainAssumption
  <2>2. \/ G!Call("set_pc", handle, new, 0)
        \/ G!SimulatorRaises("set_pc", handle)
    BY <1>9, <2>0, <2>1 DEF G!pydrofoil_cpu_set_pc, Own
  <2>3. mpc' = 9 /\ exit' = "none"
    BY <1>2, <1>9
  <2>4. CASE G!Call("set_pc", handle, new, 0)
    <3>1. Shape' /\ OwnInv' /\ Own' = new /\ running' = NULL /\ result' = 0
      BY <1>9, <2>4, CallIs
    <3>2. QED
      BY <1>2, <1>9, <2>0, <2>1, <2>3, <3>1 DEF RunInv, CountInv, ConfInv, ExitInv
  <2>5. CASE G!SimulatorRaises("set_pc", handle)
    <3>1. /\ Shape' /\ OwnInv' /\ Own' = Own /\ running' = NULL
          /\ failed' = "set_pc" /\ result' = 0
      BY <1>9, <2>5, SimulatorRaisesIs
    <3>2. "set_pc" \in unset' /\ trouble'
      BY <3>1, Troubles
    <3>3. QED
      BY <1>2, <1>9, <2>3, <3>1, <3>2 DEF RunInv, CountInv, ConfInv, ExitInv
  <2>6. QED
    BY <2>2, <2>4, <2>5
<1>10. CASE mpc = 12 /\ G!pydrofoil_free_cpu(handle)
  <2>1. /\ all_cpu_handles' = {} /\ result' = 0 /\ running' = NULL
        /\ UNCHANGED object
    BY <1>10, HasCpu DEF G!pydrofoil_free_cpu, G!Enter, G!Returns
  <2>2. mpc' = 13 /\ exit' = "none" /\ UNCHANGED steps
    BY <1>2, <1>10
  <2>3. QED
    BY <2>1, <2>2 DEF Shape, OwnInv, RunInv, CountInv, ConfInv, ExitInv
<1>11. QED
  BY <1>0, <1>1, <1>3, <1>4, <1>5, <1>6, <1>7, <1>8, <1>9, <1>10, DoIs

\* Between two statements: the run, the guest's accesses, the collector.
LEMMA MainStep ==
    ASSUME MainInv, [MainNext]_<<main, vars, glue, history>> PROVE MainInv'
<1> USE DEF MainInv
<1>0. /\ mpc \in 1 .. 13
      /\ mpc \in 3 .. 12 => /\ handle \in Handle /\ all_cpu_handles = {handle}
                            /\ Own \in G!Object /\ Own # NoObject
  BY DEF Shape, OwnInv, RunInv, Own
<1>1. ASSUME MainNext, UNCHANGED <<main, all_cpu_handles, object, running, left, result>>
      PROVE  MainInv'
  <2>1. handle' = handle /\ Own' = Own
    BY <1>1 DEF main, handle, After, Own
  <2>2. (~trouble' => ~trouble) /\ (trouble => trouble') /\ unset \subseteq unset'
    BY <1>1, Troubles
  <2>3. QED
    BY <1>1, <2>1, <2>2
    DEF main, Shape, OwnInv, RunInv, CountInv, ConfInv, ExitInv
<1>2. CASE MainNext /\ Exit
  <2>1. /\ exit = "none" /\ running = NULL /\ (Fails \/ mpc > Len(Main))
        /\ exit' = (IF Fails THEN "error" ELSE "ok")
        /\ UNCHANGED <<mpc, cpu, steps, all_cpu_handles, object, running, left, result>>
    BY <1>2 DEF Exit, glue
  <2>2. handle' = handle /\ Own' = Own
    BY <2>1 DEF handle, After, Own
  <2>3. (~trouble' => ~trouble) /\ (trouble => trouble') /\ unset \subseteq unset'
    BY <1>2, Troubles
  <2>4. Shape' /\ OwnInv' /\ RunInv' /\ CountInv' /\ ConfInv'
    BY <2>1, <2>2, <2>3 DEF Shape, OwnInv, RunInv, CountInv, ConfInv
  <2>5. Fails => trouble
    <3>1. mpc = 2 /\ result = NULL => handle = NULL /\ NULL \notin Handle
      BY Handles, ApiAssumption DEF Shape, G!GlueAssumption
    <3>2. QED
      BY <1>0, <3>1, Failures DEF OwnInv, ExitInv
  <2>6. ~Fails => mpc = 13
    BY <1>0, <2>1, MainIs
  <2>7. ExitInv'
    BY <2>1, <2>3, <2>5, <2>6 DEF OwnInv, ExitInv
  <2>8. QED
    BY <2>4, <2>7
<1>3. CASE MainNext /\ GuestAccess
  BY <1>1, <1>3 DEF GuestAccess, G!callback
<1>4. CASE MainNext /\ Quietly(G!step)
  <2>1. /\ running # NULL /\ left > 0 /\ left' = left - 1 /\ UNCHANGED main
        /\ UNCHANGED <<all_cpu_handles, running, result>>
    BY <1>4 DEF Quietly, G!step, G!InRange
  <2>2. PICK q \in PCs : object' = [object EXCEPT ![running] = G!Stepped(object[running], q)]
    BY <1>4 DEF Quietly, G!step
  <2>3. /\ mpc \in {4, 10} /\ running = handle /\ left \in 0 .. steps
        /\ handle \in Handle /\ all_cpu_handles = {handle} /\ Own \in G!Object
    BY <1>0, <2>1 DEF RunInv
  <2>4. PICK o \in G!Object : o = Own
    BY <2>3
  <2>5. PICK new \in G!Object : /\ new = G!Stepped(o, q) /\ new.steps = o.steps + 1
                                /\ new.sim.verbose = o.sim.verbose
    BY SteppedIs
  <2>6. handle' = handle
    BY <2>1 DEF main, handle, After
  <2>7. /\ object' = [object EXCEPT ![handle] = new]
    BY <2>2, <2>3, <2>4, <2>5 DEF Own
  <2>8. /\ Own' = new /\ new # NoObject
        /\ object' \in [Handle -> G!Object \cup {NoObject}]
    BY <2>3, <2>6, <2>7, ApiAssumption DEF Own, Shape, G!ObjectAssumption
  <2>9. (~trouble' => ~trouble) /\ (trouble => trouble') /\ unset \subseteq unset'
    BY <1>4, Troubles
  <2>10. Shape' /\ OwnInv' /\ RunInv' /\ ExitInv'
    BY <2>1, <2>3, <2>6, <2>8, <2>9 DEF main, Shape, OwnInv, RunInv, ExitInv
  <2>11. CountInv'
    <3>1. o.steps \in Nat
      BY DEF G!Object
    <3>2. ~trouble => o.steps + left = steps
      BY <2>1, <2>3, <2>4 DEF CountInv
    <3>3. ~trouble' => new.steps + left' = steps
      BY <2>1, <2>3, <2>5, <2>9, <3>1, <3>2 DEF Shape
    <3>4. QED
      BY <2>1, <2>3, <2>8, <3>3 DEF main, CountInv
  <2>12. ConfInv'
    <3>1. mpc = 10 /\ "set_verbosity" \notin unset' => ~new.sim.verbose
      BY <2>4, <2>5, <2>9 DEF ConfInv
    <3>2. left' # steps
      BY <2>1, <2>3 DEF Shape
    <3>3. QED
      BY <2>1, <2>3, <2>8, <3>1, <3>2 DEF main, ConfInv
  <2>13. QED
    BY <2>10, <2>11, <2>12
<1>5. CASE MainNext /\ Quietly(G!SimulateReturns)
  <2>1. /\ running # NULL /\ left = 0 /\ running' = NULL /\ UNCHANGED main
        /\ UNCHANGED <<all_cpu_handles, object, left, result>>
    BY <1>5 DEF Quietly, G!SimulateReturns
  <2>2. handle' = handle /\ Own' = Own
    BY <2>1 DEF main, handle, After, Own
  <2>3. (~trouble' => ~trouble) /\ (trouble => trouble') /\ unset \subseteq unset'
    BY <1>5, Troubles
  <2>4. QED
    BY <2>1, <2>2, <2>3
    DEF main, Shape, OwnInv, RunInv, CountInv, ConfInv, ExitInv
<1>6. CASE MainNext /\ Quietly(G!SimulateRaises)
  <2>1. /\ running # NULL /\ running' = NULL /\ failed' = "simulate" /\ UNCHANGED main
        /\ UNCHANGED <<all_cpu_handles, object>>
    BY <1>6 DEF Quietly, G!SimulateRaises, G!InStep, G!Raises
  <2>2. mpc \in {4, 10}
    BY <2>1 DEF RunInv
  <2>3. handle' = handle /\ Own' = Own
    BY <2>1, <2>2, Handles DEF main, Own
  <2>4. trouble' /\ unset \subseteq unset'
    BY <1>6, <2>1, Troubles
  <2>5. QED
    BY <2>1, <2>2, <2>3, <2>4
    DEF main, Shape, OwnInv, RunInv, CountInv, ConfInv, ExitInv
<1>7. CASE MainNext /\ \E h \in Handle : Quietly(G!Collect(h))
  <2>1. PICK h \in Handle : Quietly(G!Collect(h))
    BY <1>7
  <2>2. /\ h \notin all_cpu_handles /\ object' = [object EXCEPT ![h] = NoObject]
        /\ UNCHANGED main /\ UNCHANGED <<all_cpu_handles, running, left, result>>
    BY <2>1 DEF Quietly, G!Collect
  <2>3. handle' = handle
    BY <2>2 DEF main, handle, After
  <2>4. object' \in [Handle -> G!Object \cup {NoObject}]
    BY <2>2 DEF Shape
  <2>5. handle \in Handle /\ handle # h => Own' = Own
    BY <2>2, <2>3 DEF Own, Shape
  <2>6. mpc \in 3 .. 12 => Own' = Own
    BY <1>0, <2>2, <2>5
  <2>7. (~trouble' => ~trouble) /\ (trouble => trouble') /\ unset \subseteq unset'
    BY <1>7, Troubles
  <2>8. Shape' /\ OwnInv' /\ RunInv' /\ ExitInv'
    BY <2>2, <2>3, <2>4, <2>5, <2>7 DEF main, Shape, OwnInv, RunInv, ExitInv
  <2>9. CountInv' /\ ConfInv'
    BY <2>2, <2>6, <2>7 DEF main, CountInv, ConfInv
  <2>10. QED
    BY <2>8, <2>9
<1>8. CASE UNCHANGED <<main, vars, glue, history>>
  <2>1. handle' = handle /\ Own' = Own
    BY <1>8 DEF main, glue, handle, After, Own
  <2>2. QED
    BY <1>8, <2>1
    DEF main, glue, history, Shape, OwnInv, RunInv, CountInv, ConfInv, ExitInv
<1>9. QED
  BY <1>2, <1>3, <1>4, <1>5, <1>6, <1>7, <1>8, DoKeeps DEF MainNext
-----------------------------------------------------------------------------
\* The invariant of main: its cpu, the run under way, what it counts, how it is
\* configured and how main ends.
THEOREM MainInvariant == MainSpec => []MainInv
<1>1. MainInit => MainInv
  <2> SUFFICES ASSUME MainInit PROVE MainInv
    OBVIOUS
  <2>1. /\ mpc = 1 /\ cpu = NULL /\ exit = "none" /\ steps \in Nat
        /\ object = [h \in Handle |-> NoObject] /\ running = NULL
        /\ all_cpu_handles = {}
    BY ApiAssumption DEF MainInit, G!Init, G!GlueAssumption
  <2>2. QED
    BY <2>1 DEF MainInv, Shape, OwnInv, RunInv, CountInv, ConfInv, ExitInv
<1>2. MainInv /\ [MainNext]_<<main, vars, glue, history>> => MainInv'
  BY MainStep
<1>3. QED
  BY <1>1, <1>2, PTL DEF MainSpec

\* The second run begins with the pc and the verbosity that main has set, whichever
\* calls have raised, the reset among them, but for the two that set them.
THEOREM SecondRunAsConfiguredCorrect == MainSpec => []SecondRunAsConfigured
<1>1. MainInv => SecondRunAsConfigured
  <2> SUFFICES ASSUME MainInv, mpc = 10, running # NULL, left = steps
               PROVE  /\ "set_pc" \notin unset => object[cpu].sim.pc = SET_PC
                      /\ "set_verbosity" \notin unset => ~object[cpu].sim.verbose
    BY DEF SecondRunAsConfigured
  <2>1. Own = object[cpu]
    BY Handles DEF Own, MainInv, Shape
  <2>2. /\ "set_pc" \notin unset => Own.sim.pc = SET_PC
        /\ "set_verbosity" \notin unset => ~Own.sim.verbose
    BY DEF MainInv, ConfInv
  <2>3. QED
    BY <2>1, <2>2
<1>2. QED
  BY <1>1, MainInvariant, PTL

\* If no call raises, both printed counts are the steps of their run, and main
\* ends with 0 and its cpu freed.
THEOREM RunsAreCountedCorrect == MainSpec => []RunsAreCounted
<1>1. MainInv => RunsAreCounted
  <2> SUFFICES ASSUME MainInv PROVE RunsAreCounted
    OBVIOUS
  <2>1. After("cycles") => mpc \in {5, 11}
    BY Positions DEF After, MainInv, Shape
  <2>2. QED
    BY <2>1 DEF RunsAreCounted, MainInv, CountInv, ExitInv
<1>2. QED
  BY <1>1, MainInvariant, PTL

\* Words are at addresses of the memory.
LEMMA WordAddress == \A w \in 0 .. MaxAddr \div WORD : w * WORD \in Addr
<1>1. \A c \in Nat \ {0}, e \in Nat : e \div c \in Nat /\ c * (e \div c) <= e
  OBVIOUS
<1>2. PICK n \in Nat : n = MaxAddr \div WORD /\ WORD * n <= MaxAddr
  BY <1>1, MainAssumption, SparseAssumption
<1>3. \A c, d, w \in Nat : w <= d => w * c \in Nat /\ w * c <= c * d
  OBVIOUS
<1>4. QED
  BY <1>2, <1>3, MainAssumption, SparseAssumption DEF Addr

\* The memory of the guest is only changed by read_mem and write_mem, with
\* addresses of the memory and one callback of the API at a time.
THEOREM MainUsesSparseMem == MainSpec => Spec
<1>1. MainInit => Init
  BY DEF MainInit
<1>2. [MainNext]_<<main, vars, glue, history>> => [Next]_vars
  <2> SUFFICES ASSUME [MainNext]_<<main, vars, glue, history>> PROVE [Next]_vars
    OBVIOUS
  <2>1. CASE GuestAccess
    <3>1. PICK w \in 0 .. MaxAddr \div WORD :
            read_mem(w * WORD) \/ \E v \in Value : write_mem(w * WORD, v)
      BY <2>1 DEF GuestAccess
    <3>2. PICK a \in Addr : read_mem(a) \/ \E v \in Value : write_mem(a, v)
      BY <3>1, WordAddress
    <3>3. QED
      BY <3>2 DEF Next
  <2>2. CASE ~GuestAccess
    <3>1. UNCHANGED vars
      BY <2>2 DEF MainNext, Do, Exit, Quietly
    <3>2. QED
      BY <3>1
  <2>3. QED
    BY <2>1, <2>2
<1>3. QED
  BY <1>1, <1>2, PTL DEF MainSpec, Spec

\* What SparseMemProofs shows of the block list holds while main runs: its types,
\* its disjoint blocks, and that the guest sees one flat memory.
THEOREM MainMemoryCorrect ==
    MainSpec => []TypeOK /\ []BlocksDisjoint /\ RefinesFlatMem
BY MainUsesSparseMem, TypeCorrect, BlocksDisjointCorrect, RefinesFlatMemCorrect, PTL
-----------------------------------------------------------------------------
(* main as a client of the C API.                                          *)

\* The number of steps, read once from the command line, stays within its range.
StepsInv == steps \in 0 .. MaxSteps

LEMMA StepsInvariant == MainSpec => []StepsInv
<1>1. MainInit => StepsInv
  BY DEF MainInit, StepsInv
<1>2. StepsInv /\ [MainNext]_<<main, vars, glue, history>> => StepsInv'
  BY DEF StepsInv, MainNext, Do, Exit, GuestAccess, Quietly, main
<1>3. QED
  BY <1>1, <1>2, PTL DEF MainSpec

LEMMA StatementIsApiCall ==
    ASSUME MainInv, StepsInv, Do PROVE G!Next
<1>0. mpc \in 1 .. 13 /\ (mpc # 1 => handle \in Handle \cup {NULL})
  BY HasCpu DEF MainInv, Shape
<1>1. CASE mpc = 1 /\ G!pydrofoil_allocate_cpu
  BY <1>1 DEF G!Next
<1>2. ASSUME handle \in Handle \cup {NULL}, G!ApiCall(handle) PROVE G!Next
  BY <1>2 DEF G!Next
<1>3. CASE mpc = 2 /\ \E c \in Client :
             G!pydrofoil_cpu_set_ram_read_write_callback(handle, c)
  BY <1>0, <1>2, <1>3 DEF G!ApiCall
<1>4. CASE mpc \in {3, 9} /\ G!pydrofoil_cpu_simulate(handle, steps)
  BY <1>0, <1>2, <1>4 DEF G!ApiCall, StepsInv
<1>5. CASE mpc \in {4, 10} /\ G!pydrofoil_cpu_cycles(handle)
  BY <1>0, <1>2, <1>5 DEF G!ApiCall
<1>6. CASE mpc = 5 /\ G!pydrofoil_cpu_reset(handle)
  BY <1>0, <1>2, <1>6 DEF G!ApiCall
<1>7. CASE mpc = 6 /\ G!pydrofoil_cpu_set_verbosity(handle, FALSE)
  <2>1. \E b \in BOOLEAN : G!pydrofoil_cpu_set_verbosity(handle, b)
    BY <1>7, Zenon
  <2>2. QED
    BY <1>0, <1>2, <1>7, <2>1 DEF G!ApiCall
<1>8. CASE mpc \in {7, 11} /\ G!pydrofoil_cpu_pc(handle)
  BY <1>0, <1>2, <1>8 DEF G!ApiCall
<1>9. CASE mpc = 8 /\ G!pydrofoil_cpu_set_pc(handle, SET_PC)
  BY <1>0, <1>2, <1>9, MainAssumption DEF G!ApiCall
<1>10. CASE mpc = 12 /\ G!pydrofoil_free_cpu(handle)
  BY <1>0, <1>2, <1>10 DEF G!ApiCall
<1>11. QED
  BY <1>0, <1>1, <1>3, <1>4, <1>5, <1>6, <1>7, <1>8, <1>9, <1>10, DoIs

\* main, its guest and the collector do to the glue code only what GlueCode
\* lets a client do: calls one at a time, each with a handle that the API has
\* given to main, so that what GlueCodeProofs shows of every client holds of it.
THEOREM MainUsesApi == MainSpec => G!Spec
<1>1. MainInit => G!Init
  BY DEF MainInit
<1>2. MainInv /\ StepsInv /\ [MainNext]_<<main, vars, glue, history>> => [G!Next]_G!glue
  <2> SUFFICES ASSUME MainInv, StepsInv, [MainNext]_<<main, vars, glue, history>>
               PROVE  [G!Next]_G!glue
    OBVIOUS
  <2>1. CASE Do
    BY <2>1, StatementIsApiCall
  <2>2. CASE Exit \/ UNCHANGED <<main, vars, glue, history>>
    BY <2>2 DEF Exit, glue, G!glue
  <2>3. CASE GuestAccess \/ Quietly(G!step) \/ Quietly(G!SimulateReturns)
               \/ Quietly(G!SimulateRaises)
    BY <2>3 DEF GuestAccess, Quietly, G!Next, G!Python
  <2>4. CASE \E h \in Handle : Quietly(G!Collect(h))
    BY <2>4 DEF Quietly, G!Next, G!Python
  <2>5. QED
    BY <2>1, <2>2, <2>3, <2>4 DEF MainNext
<1>3. QED
  BY <1>1, <1>2, MainInvariant, StepsInvariant, PTL DEF MainSpec, G!Spec
=============================================================================
