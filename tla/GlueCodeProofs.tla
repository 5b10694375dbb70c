---------------------------- MODULE GlueCodeProofs ----------------------------
(***************************************************************************)
(* Theorems about the C API of gluecode.py, for any number of handles and  *)
(* calls.  All follow from one inductive invariant: the type of the        *)
(* object table depends on which objects are alive, and an object keeps    *)
(* its count only if every function makes good objects of good ones.       *)
(***************************************************************************)
EXTENDS GlueCode, TLAPS

\* C objects that count the steps of their simulator.
Good == {o \in Object : o.steps = o.sim.ran}

Table == object \in [Handle -> Good \cup {NoObject}]
Alive ==
    /\ held \subseteq all_cpu_handles /\ all_cpu_handles \subseteq Handle
    /\ \A h \in all_cpu_handles : object[h] # NoObject
    /\ running \in Handle \cup {NULL}
    /\ running # NULL => object[running] # NoObject
Ranges ==
    /\ left \in 0 .. MaxSteps /\ calls \in 0 .. MaxCalls /\ halfset \subseteq Handle
    /\ result \in Int \cup Handle \cup {NULL}
GlueInv == Table /\ Alive /\ Ranges
-----------------------------------------------------------------------------
(* What the functions make of an object.                                   *)

LEMMA GoodIsObject == Good \subseteq Object /\ NoObject \notin Good
BY ObjectAssumption DEF Good

LEMMA NewSimType == \A p \in Client \cup {NULL} : NewSim(p) \in Sim
BY GlueAssumption DEF NewSim, Sim

LEMMA NewObjectGood == NewObject \in Good
<1>1. NoCallback \in Callbacks
  BY DEF NoCallback, Callbacks
<1>2. NewObject \in Object
  BY <1>1, NewSimType DEF NewObject, Object
<1>3. QED
  BY <1>2 DEF Good, NewObject, NewSim

\* A reset that succeeds begins to count again, one that fails changes nothing.
LEMMA ResetGood ==
    ASSUME NEW o \in Good, NEW ok \in BOOLEAN PROVE Reset(o, ok) \in Good
<1>1. o.callbacks.payload \in Client \cup {NULL}
  BY DEF Good, Object, Callbacks
<1>2. NewSim(o.callbacks.payload) \in Sim
  BY <1>1, NewSimType
<1>3. Reset(o, ok) \in Object
  BY <1>2 DEF Reset, Object, Good
<1>4. Reset(o, ok).steps = Reset(o, ok).sim.ran
  BY DEF Reset, Object, Good, NewSim
<1>5. QED
  BY <1>3, <1>4 DEF Good

LEMMA SetCallbacksGood ==
    ASSUME NEW o \in Good, NEW c \in Client PROVE SetCallbacks(o, c) \in Good
BY DEF SetCallbacks, Good, Object, Callbacks

LEMMA SteppedGood ==
    ASSUME NEW o \in Good, NEW p \in PCs PROVE Stepped(o, p) \in Good
<1>1. o.sim \in Sim /\ o.steps \in Nat /\ o.sim.ran \in Nat /\ o.steps = o.sim.ran
  BY DEF Good, Object, Sim
<1>2. PICK k \in Nat : k = o.steps + 1 /\ k = o.sim.ran + 1
  BY <1>1
<1>3. ASSUME NEW s \in Sim PROVE [s EXCEPT !.ran = k, !.pc = p] \in Sim
  BY <1>2 DEF Sim
<1>4. Stepped(o, p) = [o EXCEPT !.steps = k, !.sim = [o.sim EXCEPT !.ran = k, !.pc = p]]
  BY <1>1, <1>2 DEF Stepped, Good, Object, Sim
<1>5. QED
  BY <1>1, <1>2, <1>3, <1>4 DEF Good, Object, Sim

LEMMA SetPcGood ==
    ASSUME NEW o \in Good, NEW p \in PCs PROVE [o EXCEPT !.sim.pc = p] \in Good
BY DEF Good, Object, Sim

LEMMA SetVerbosityGood ==
    ASSUME NEW o \in Good, NEW b \in BOOLEAN
    PROVE  [o EXCEPT !.sim.verbose = b] \in Good
BY DEF Good, Object, Sim
-----------------------------------------------------------------------------
\* A call that ends at once and replaces a good object by a good one.
LEMMA Replaced ==
    ASSUME GlueInv, Enter, NEW i \in Handle, object[i] # NoObject,
           NEW new \in Good, object' = [object EXCEPT ![i] = new],
           result' \in Int, halfset' \subseteq Handle,
           UNCHANGED <<all_cpu_handles, running, left, held>>
    PROVE  GlueInv'
<1>1. Table' /\ \A h \in Handle : object[h] # NoObject => object'[h] # NoObject
  BY GoodIsObject DEF GlueInv, Table
<1>2. Alive'
  BY <1>1, GlueAssumption DEF GlueInv, Alive
<1>3. Ranges'
  BY GlueAssumption DEF GlueInv, Ranges, Enter
<1>4. QED
  BY <1>1, <1>2, <1>3 DEF GlueInv

LEMMA CallKeeps ==
    ASSUME GlueInv, NEW f, NEW i \in Handle \cup {NULL}, NEW new, NEW r,
           FromHandle(i) => new \in Good /\ r \in Int,
           Call(f, i, new, r)
    PROVE  GlueInv'
<1>1. halfset' \subseteq Handle /\ UNCHANGED <<all_cpu_handles, running, left, held>>
  BY DEF Call, GlueInv, Ranges
<1>2. CASE FromHandle(i)
  BY <1>1, <1>2, Replaced DEF Call, FromHandle, Returns
<1>3. CASE ~FromHandle(i)
  BY <1>1, <1>3, GlueAssumption DEF Call, Raises, Enter, GlueInv, Table, Alive, Ranges
<1>4. QED
  BY <1>2, <1>3

LEMMA FailedResetKeeps ==
    ASSUME GlueInv, NEW f, NEW i \in Handle \cup {NULL}, NEW new,
           FromHandle(i) => new \in Good,
           FailedReset(f, i, new), halfset' \subseteq Handle
    PROVE  GlueInv'
<1>1. FromHandle(i) /\ Reset(new, FALSE) \in Good
  BY ResetGood DEF FailedReset
<1>2. /\ Enter /\ i \in Handle /\ object[i] # NoObject /\ result' \in Int
      /\ object' = [object EXCEPT ![i] = Reset(new, FALSE)]
      /\ UNCHANGED <<all_cpu_handles, running, left, held>>
  BY <1>1 DEF FailedReset, FromHandle, Raises
<1>3. QED
  BY <1>1, <1>2, Replaced

LEMMA RaiseKeeps ==
    ASSUME GlueInv, NEW f, NEW i \in Handle \cup {NULL}, SimulatorRaises(f, i)
    PROVE  GlueInv'
BY GlueAssumption DEF SimulatorRaises, Enter, Raises, GlueInv, Table, Alive, Ranges

\* Every call of the C API keeps the invariant.
LEMMA ApiKeeps ==
    ASSUME GlueInv, NEW i \in Handle \cup {NULL}, ApiCall(i) PROVE GlueInv'
<1>0. FromHandle(i) => i \in Handle /\ object[i] \in Good
  BY DEF FromHandle, GlueInv, Table
<1>1. CASE pydrofoil_free_cpu(i)
  BY <1>1, GlueAssumption
  DEF pydrofoil_free_cpu, Enter, Returns, GlueInv, Table, Alive, Ranges
<1>2. CASE pydrofoil_cpu_reset(i)
  <2> DEFINE made == Reset(object[i], TRUE)
  <2>1. FromHandle(i) => made \in Good
    BY <1>0, ResetGood
  <2>2. CASE Call("reset", i, made, 0)
    <3> HIDE DEF made
    <3>1. QED
      BY <2>1, <2>2, CallKeeps
  <2>3. CASE FailedReset("reset", i, object[i]) /\ UNCHANGED halfset
    <3>1. halfset' \subseteq Handle
      BY <2>3 DEF GlueInv, Ranges
    <3>2. QED
      BY <1>0, <2>3, <3>1, FailedResetKeeps
  <2>4. QED
    BY <1>2, <2>2, <2>3 DEF pydrofoil_cpu_reset
<1>3. CASE pydrofoil_cpu_cycles(i)
  <2>1. FromHandle(i) => object[i].steps \in Int
    BY <1>0 DEF Good, Object
  <2>2. QED
    BY <1>0, <1>3, <2>1, CallKeeps DEF pydrofoil_cpu_cycles
<1>4. CASE pydrofoil_cpu_pc(i)
  <2>1. FromHandle(i) => object[i].sim.pc \in Int
    <3>1. \A o \in Good : o.sim.pc \in PCs
      BY DEF Good, Object, Sim
    <3>2. \A v \in PCs : v \in Int
      BY GlueAssumption
    <3>3. QED
      BY <1>0, <3>1, <3>2, Zenon
  <2>2. QED
    BY <1>0, <1>4, <2>1, CallKeeps, RaiseKeeps DEF pydrofoil_cpu_pc
<1>5. ASSUME NEW c \in Client, pydrofoil_cpu_set_ram_read_write_callback(i, c)
      PROVE  GlueInv'
  <2> DEFINE new == SetCallbacks(object[i], c)
  <2>1. FromHandle(i) => new \in Good
    BY <1>0, SetCallbacksGood
  <2> DEFINE made == Reset(new, TRUE)
  <2>2. FromHandle(i) => made \in Good
    BY <2>1, ResetGood
  <2>3. CASE Call("set_callback", i, made, 0)
    <3> HIDE DEF made
    <3>1. QED
      BY <2>2, <2>3, CallKeeps
  <2>4. CASE FailedReset("set_callback", i, new) /\ halfset' = halfset \cup {i}
    <3>1. halfset' \subseteq Handle
      BY <1>0, <2>4 DEF FailedReset, GlueInv, Ranges
    <3> HIDE DEF new
    <3>2. QED
      BY <2>1, <2>4, <3>1, FailedResetKeeps
  <2>5. QED
    BY <1>5, <2>3, <2>4 DEF pydrofoil_cpu_set_ram_read_write_callback
<1>6. ASSUME NEW v \in PCs, pydrofoil_cpu_set_pc(i, v) PROVE GlueInv'
  <2>1. FromHandle(i) => [object[i] EXCEPT !.sim.pc = v] \in Good
    BY <1>0, SetPcGood
  <2>2. QED
    BY <1>6, <2>1, CallKeeps, RaiseKeeps DEF pydrofoil_cpu_set_pc
<1>7. ASSUME NEW b \in BOOLEAN, pydrofoil_cpu_set_verbosity(i, b) PROVE GlueInv'
  <2>1. FromHandle(i) => [object[i] EXCEPT !.sim.verbose = b] \in Good
    BY <1>0, SetVerbosityGood
  <2>2. QED
    BY <1>7, <2>1, CallKeeps, RaiseKeeps DEF pydrofoil_cpu_set_verbosity
<1>8. ASSUME NEW n \in 0 .. MaxSteps, pydrofoil_cpu_simulate(i, n) PROVE GlueInv'
  BY <1>8, GlueAssumption DEF pydrofoil_cpu_simulate, Enter, Returns, Raises,
     FromHandle, GlueInv, Table, Alive, Ranges
<1>9. QED
  BY <1>1, <1>2, <1>3, <1>4, <1>5, <1>6, <1>7, <1>8 DEF ApiCall

\* The invariant is inductive: for every function and every step of Python.
THEOREM GlueInvariant == Spec => []GlueInv
<1>1. Init => GlueInv
  BY GlueAssumption DEF Init, GlueInv, Table, Alive, Ranges
<1>2. GlueInv /\ [Next]_glue => GlueInv'
  <2> SUFFICES ASSUME GlueInv, [Next]_glue PROVE GlueInv'
    OBVIOUS
  <2>1. CASE pydrofoil_allocate_cpu
    <3>1. ASSUME NEW h \in Handle, Enter, object[h] = NoObject,
                 object' = [object EXCEPT ![h] = NewObject],
                 all_cpu_handles' = all_cpu_handles \cup {h},
                 held' = held \cup {h}, halfset' = halfset \ {h}, result' = h,
                 UNCHANGED <<running, left>>
          PROVE  GlueInv'
      <4>1. Table' /\ \A g \in Handle : g = h \/ object[g] # NoObject
                                         => object'[g] # NoObject
        BY <3>1, NewObjectGood, GoodIsObject DEF GlueInv, Table
      <4>2. Alive'
        BY <3>1, <4>1, GlueAssumption DEF GlueInv, Alive
      <4>3. Ranges'
        BY <3>1, GlueAssumption DEF GlueInv, Ranges, Enter
      <4>4. QED
        BY <4>1, <4>2, <4>3 DEF GlueInv
    <3>2. CASE /\ Enter /\ result' = NULL
               /\ UNCHANGED <<all_cpu_handles, object, running, left, held, halfset>>
      BY <3>2, GlueAssumption DEF Enter, GlueInv, Table, Alive, Ranges
    <3>3. QED
      BY <2>1, <3>1, <3>2 DEF pydrofoil_allocate_cpu, Kept, Returns
  <2>2. ASSUME NEW i \in Handle \cup {NULL}, ApiCall(i) PROVE GlueInv'
    BY <2>2, ApiKeeps
  <2>3. CASE step
    <3>1. PICK p \in PCs : object' = [object EXCEPT ![running] = Stepped(object[running], p)]
      BY <2>3 DEF step
    <3>2. running \in Handle /\ object[running] \in Good
      BY <2>3 DEF step, GlueInv, Table, Alive
    <3>3. Stepped(object[running], p) \in Good
      BY <3>2, SteppedGood
    <3>4. Table' /\ \A h \in Handle : object[h] # NoObject => object'[h] # NoObject
      BY <3>1, <3>2, <3>3, GoodIsObject DEF GlueInv, Table
    <3>5. Alive'
      BY <2>3, <3>4, GlueAssumption DEF step, GlueInv, Alive
    <3>6. Ranges'
      BY <2>3, GlueAssumption DEF step, InRange, GlueInv, Ranges
    <3>7. QED
      BY <3>4, <3>5, <3>6 DEF GlueInv
  <2>4. CASE callback
    BY <2>4 DEF callback, GlueInv, Table, Alive, Ranges
  <2>5. CASE SimulateReturns
    BY <2>5 DEF SimulateReturns, GlueInv, Table, Alive, Ranges
  <2>6. CASE SimulateRaises
    BY <2>6, GlueAssumption DEF SimulateRaises, Raises, GlueInv, Table, Alive, Ranges
  <2>7. ASSUME NEW h \in Handle, Collect(h) PROVE GlueInv'
    BY <2>7 DEF Collect, GlueInv, Table, Alive, Ranges
  <2>8. CASE UNCHANGED glue
    BY <2>8 DEF glue, GlueInv, Table, Alive, Ranges
  <2>9. QED
    BY <2>1, <2>2, <2>3, <2>4, <2>5, <2>6, <2>7, <2>8 DEF Next, Python
<1>3. QED
  BY <1>1, <1>2, PTL DEF Spec
-----------------------------------------------------------------------------
\* Every reachable state of gluecode.py is well typed, after exceptions and
\* calls with freed handles too.
THEOREM TypeCorrect == Spec => []TypeOK
<1>1. GlueInv => TypeOK
  <2>1. GlueInv => object \in [Handle -> Object \cup {NoObject}]
    BY GoodIsObject DEF GlueInv, Table
  <2>2. QED
    BY <2>1 DEF GlueInv, Alive, Ranges, TypeOK
<1>2. QED
  BY <1>1, GlueInvariant, PTL

\* A cpu that was not freed, and the cpu of a running simulate, are never
\* collected.
THEOREM HeldIsAliveCorrect == Spec => []HeldIsAlive
<1>1. GlueInv => HeldIsAlive
  BY DEF GlueInv, Alive, HeldIsAlive
<1>2. QED
  BY <1>1, GlueInvariant, PTL

\* pydrofoil_cpu_cycles counts the steps of the simulator the cpu has now.
THEOREM CyclesCorrect == Spec => []CyclesAreOfThisSimulator
<1>1. GlueInv => CyclesAreOfThisSimulator
  BY DEF GlueInv, Table, Good, CyclesAreOfThisSimulator
<1>2. QED
  BY <1>1, GlueInvariant, PTL
-----------------------------------------------------------------------------
(* Callbacks and payloads.                                                 *)

\* The functions in a C object belong to the payload of its closures, and,
\* unless the last registration failed half way, to that of its simulator.
Paired(o, half) ==
    /\ o.callbacks.fun = o.callbacks.payload
    /\ half \/ o.sim.payload = o.callbacks.fun
PayloadInv == \A h \in Handle : object[h] # NoObject => Paired(object[h], h \in halfset)

LEMMA NewObjectPaired == \A half : Paired(NewObject, half)
BY DEF Paired, NewObject, NewSim, NoCallback

\* A simulator made by reset() has the payload of the object.
LEMMA ResetPairs ==
    ASSUME NEW o \in Good, o.callbacks.fun = o.callbacks.payload, NEW half
    PROVE  Paired(Reset(o, TRUE), half)
<1>1. /\ Reset(o, TRUE).callbacks = o.callbacks
      /\ Reset(o, TRUE).sim.payload = o.callbacks.payload
  BY DEF Reset, NewSim, Good, Object
<1>2. QED
  BY <1>1 DEF Paired

\* Nothing else a call changes in an object has to do with them.
LEMMA SamePaired ==
    ASSUME NEW o, NEW new, NEW half, Paired(o, half),
           new.callbacks = o.callbacks, new.sim.payload = o.sim.payload
    PROVE  Paired(new, half)
BY DEF Paired

\* A call that replaces the object of i, and no other.
LEMMA PayloadReplaced ==
    ASSUME GlueInv, PayloadInv, NEW i \in Handle, NEW new,
           object' = [object EXCEPT ![i] = new],
           \A h \in Handle : h # i => (h \in halfset' <=> h \in halfset),
           Paired(new, i \in halfset')
    PROVE  PayloadInv'
<1> SUFFICES ASSUME NEW h \in Handle, object'[h] # NoObject
             PROVE  Paired(object'[h], h \in halfset')
    BY DEF PayloadInv
<1>1. CASE h = i
  BY <1>1 DEF GlueInv, Table
<1>2. CASE h # i
  <2>1. object'[h] = object[h] /\ (h \in halfset' <=> h \in halfset)
    BY <1>2 DEF GlueInv, Table
  <2>2. QED
    BY <2>1 DEF PayloadInv, Paired
<1>3. QED
  BY <1>1, <1>2

LEMMA CallKeepsPayload ==
    ASSUME GlueInv, PayloadInv, NEW f, NEW i \in Handle \cup {NULL}, NEW new, NEW r,
           FromHandle(i) =>
             IF f \in {"reset", "set_callback"}
               THEN \A half : Paired(new, half)
               ELSE /\ new.callbacks = object[i].callbacks
                    /\ new.sim.payload = object[i].sim.payload,
           Call(f, i, new, r)
    PROVE  PayloadInv'
<1>1. CASE FromHandle(i)
  <2>1. i \in Handle /\ object[i] # NoObject /\ object' = [object EXCEPT ![i] = new]
    BY <1>1 DEF Call, FromHandle
  <2>2. \A h \in Handle : h # i => (h \in halfset' <=> h \in halfset)
    BY DEF Call
  <2>3. Paired(new, i \in halfset')
    <3>1. CASE f \in {"reset", "set_callback"}
      BY <1>1, <3>1
    <3>2. CASE f \notin {"reset", "set_callback"}
      <4>1. halfset' = halfset
        BY <3>2 DEF Call
      <4>2. Paired(object[i], i \in halfset)
        BY <2>1 DEF PayloadInv
      <4>3. QED
        BY <1>1, <3>2, <4>1, <4>2 DEF Paired
    <3>3. QED
      BY <3>1, <3>2
  <2>4. QED
    BY <2>1, <2>2, <2>3, PayloadReplaced
<1>2. CASE ~FromHandle(i)
  <2>1. object' = object
    BY <1>2 DEF Call
  <2>2. \A h \in Handle : object[h] # NoObject => (h \in halfset' <=> h \in halfset)
    BY <1>2 DEF Call, FromHandle
  <2>3. QED
    BY <2>1, <2>2 DEF PayloadInv, Paired
<1>3. QED
  BY <1>1, <1>2

LEMMA RaiseKeepsPayload ==
    ASSUME PayloadInv, NEW f, NEW i, SimulatorRaises(f, i) PROVE PayloadInv'
BY DEF SimulatorRaises, PayloadInv, Paired

LEMMA ApiKeepsPayload ==
    ASSUME GlueInv, PayloadInv, NEW i \in Handle \cup {NULL}, ApiCall(i)
    PROVE  PayloadInv'
<1>0. FromHandle(i) => /\ i \in Handle /\ object[i] \in Good
                       /\ object[i].callbacks.fun = object[i].callbacks.payload
  BY DEF FromHandle, GlueInv, Table, PayloadInv, Paired
<1>1. CASE pydrofoil_free_cpu(i)
  BY <1>1 DEF pydrofoil_free_cpu, PayloadInv, Paired
<1>2. CASE pydrofoil_cpu_reset(i)
  <2> DEFINE made == Reset(object[i], TRUE)
  <2>1. FromHandle(i) => \A half : Paired(made, half)
    BY <1>0, ResetPairs
  <2>2. CASE Call("reset", i, made, 0)
    <3> HIDE DEF made
    <3>1. QED
      BY <2>1, <2>2, CallKeepsPayload
  <2>3. CASE FailedReset("reset", i, object[i]) /\ UNCHANGED halfset
    <3>1. object' = object
      BY <2>3 DEF FailedReset, FromHandle, Reset, GlueInv, Table
    <3>2. QED
      BY <2>3, <3>1 DEF PayloadInv, Paired
  <2>4. QED
    BY <1>2, <2>2, <2>3 DEF pydrofoil_cpu_reset
<1>3. CASE pydrofoil_cpu_cycles(i)
  BY <1>3, CallKeepsPayload DEF pydrofoil_cpu_cycles
<1>4. CASE pydrofoil_cpu_pc(i)
  BY <1>4, CallKeepsPayload, RaiseKeepsPayload DEF pydrofoil_cpu_pc
<1>5. ASSUME NEW c \in Client, pydrofoil_cpu_set_ram_read_write_callback(i, c)
      PROVE  PayloadInv'
  <2> DEFINE new == SetCallbacks(object[i], c)
  <2>1. FromHandle(i) => /\ new \in Good
                         /\ new.callbacks.fun = c /\ new.callbacks.payload = c
    BY <1>0, SetCallbacksGood DEF SetCallbacks, Good, Object
  <2> DEFINE made == Reset(new, TRUE)
  <2>2. FromHandle(i) => \A half : Paired(made, half)
    <3> HIDE DEF new
    <3>1. QED
      BY <2>1, ResetPairs
  <2>3. CASE Call("set_callback", i, made, 0)
    <3> HIDE DEF made
    <3>1. QED
      BY <2>2, <2>3, CallKeepsPayload
  <2>4. CASE FailedReset("set_callback", i, new) /\ halfset' = halfset \cup {i}
    <3> HIDE DEF new
    <3>1. FromHandle(i) /\ object' = [object EXCEPT ![i] = new]
      BY <2>4 DEF FailedReset, Reset
    <3>2. Paired(new, i \in halfset')
      BY <2>1, <2>4, <3>1 DEF Paired
    <3>3. i \in Handle /\ \A h \in Handle : h # i => (h \in halfset' <=> h \in halfset)
      BY <1>0, <2>4, <3>1
    <3>4. QED
      BY <3>1, <3>2, <3>3, PayloadReplaced
  <2>5. QED
    BY <1>5, <2>3, <2>4 DEF pydrofoil_cpu_set_ram_read_write_callback
<1>6. ASSUME NEW v \in PCs, pydrofoil_cpu_set_pc(i, v) PROVE PayloadInv'
  <2> DEFINE new == [object[i] EXCEPT !.sim.pc = v]
  <2>1. FromHandle(i) => /\ new.callbacks = object[i].callbacks
                         /\ new.sim.payload = object[i].sim.payload
    BY <1>0 DEF Good, Object, Sim
  <2>2. Call("set_pc", i, new, 0) \/ SimulatorRaises("set_pc", i)
    BY <1>6 DEF pydrofoil_cpu_set_pc
  <2> HIDE DEF new
  <2>3. QED
    BY <2>1, <2>2, CallKeepsPayload, RaiseKeepsPayload
<1>7. ASSUME NEW b \in BOOLEAN, pydrofoil_cpu_set_verbosity(i, b) PROVE PayloadInv'
  <2> DEFINE new == [object[i] EXCEPT !.sim.verbose = b]
  <2>1. FromHandle(i) => /\ new.callbacks = object[i].callbacks
                         /\ new.sim.payload = object[i].sim.payload
    BY <1>0 DEF Good, Object, Sim
  <2>2. Call("set_verbosity", i, new, 0) \/ SimulatorRaises("set_verbosity", i)
    BY <1>7 DEF pydrofoil_cpu_set_verbosity
  <2> HIDE DEF new
  <2>3. QED
    BY <2>1, <2>2, CallKeepsPayload, RaiseKeepsPayload
<1>8. ASSUME NEW n \in 0 .. MaxSteps, pydrofoil_cpu_simulate(i, n) PROVE PayloadInv'
  BY <1>8 DEF pydrofoil_cpu_simulate, PayloadInv, Paired
<1>9. QED
  BY <1>1, <1>2, <1>3, <1>4, <1>5, <1>6, <1>7, <1>8 DEF ApiCall

\* Functions and payload of a cpu belong together, but for failed registrations.
THEOREM PayloadInvariant == Spec => []PayloadInv
<1>1. Init => PayloadInv
  BY DEF Init, PayloadInv
<1>2. GlueInv /\ PayloadInv /\ [Next]_glue => PayloadInv'
  <2> SUFFICES ASSUME GlueInv, PayloadInv, [Next]_glue PROVE PayloadInv'
    OBVIOUS
  <2>1. CASE pydrofoil_allocate_cpu
    <3>1. ASSUME NEW h \in Handle, object' = [object EXCEPT ![h] = NewObject],
                 halfset' = halfset \ {h}
          PROVE  PayloadInv'
      <4>1. PICK new : new = NewObject
        OBVIOUS
      <4>2. \A half : Paired(new, half)
        BY <4>1, NewObjectPaired
      <4>3. /\ object' = [object EXCEPT ![h] = new]
            /\ \A g \in Handle : g # h => (g \in halfset' <=> g \in halfset)
        BY <3>1, <4>1
      <4>4. QED
        BY <4>2, <4>3, PayloadReplaced
    <3>2. CASE UNCHANGED <<object, halfset>>
      BY <3>2 DEF PayloadInv, Paired
    <3>3. QED
      BY <2>1, <3>1, <3>2 DEF pydrofoil_allocate_cpu
  <2>2. ASSUME NEW i \in Handle \cup {NULL}, ApiCall(i) PROVE PayloadInv'
    BY <2>2, ApiKeepsPayload
  <2>3. CASE step
    <3>1. PICK p \in PCs : object' = [object EXCEPT ![running] = Stepped(object[running], p)]
      BY <2>3 DEF step
    <3>2. /\ running \in Handle /\ object[running] \in Good /\ halfset' = halfset
          /\ Paired(object[running], running \in halfset)
      BY <2>3 DEF step, GlueInv, Table, Alive, PayloadInv
    <3>3. PICK new : new = Stepped(object[running], p)
      OBVIOUS
    <3>4. /\ new.callbacks = object[running].callbacks
          /\ new.sim.payload = object[running].sim.payload
      BY <3>2, <3>3 DEF Stepped, Good, Object, Sim
    <3>5. Paired(new, running \in halfset')
      BY <3>2, <3>4, SamePaired
    <3>6. QED
      BY <3>1, <3>2, <3>3, <3>5, PayloadReplaced
  <2>4. CASE callback \/ SimulateReturns \/ SimulateRaises
    BY <2>4 DEF callback, SimulateReturns, SimulateRaises, PayloadInv, Paired
  <2>5. ASSUME NEW h \in Handle, Collect(h) PROVE PayloadInv'
    BY <2>5 DEF Collect, PayloadInv, Paired, GlueInv, Table
  <2>6. CASE UNCHANGED glue
    BY <2>6 DEF glue, PayloadInv, Paired
  <2>7. QED
    BY <2>1, <2>2, <2>3, <2>4, <2>5, <2>6 DEF Next, Python
<1>3. QED
  BY <1>1, <1>2, GlueInvariant, PTL DEF Spec

\* pyread and pywrite call a function with the payload it was registered with,
\* unless the last registration on this cpu failed half way.
THEOREM CallbackGetsItsPayloadCorrect == Spec => CallbackGetsItsPayload
<1>1. GlueInv /\ PayloadInv /\ [Next]_glue
        => [called'.fun = called'.payload \/ running \in halfset]_called
  <2> SUFFICES ASSUME GlueInv, PayloadInv, [Next]_glue, called' # called
               PROVE  called'.fun = called'.payload \/ running \in halfset
    OBVIOUS
  <2>1. ASSUME NEW i \in Handle \cup {NULL}, ApiCall(i) PROVE called' = called
    BY <2>1 DEF ApiCall, pydrofoil_free_cpu, pydrofoil_cpu_reset,
       pydrofoil_cpu_cycles, pydrofoil_cpu_pc, pydrofoil_cpu_set_pc,
       pydrofoil_cpu_set_ram_read_write_callback, pydrofoil_cpu_set_verbosity,
       pydrofoil_cpu_simulate, Call, FailedReset, SimulatorRaises
  <2>2. callback
    BY <2>1 DEF Next, Python, pydrofoil_allocate_cpu, step, SimulateReturns,
       SimulateRaises, Collect, glue
  <2>3. /\ called'.fun = object[running].callbacks.fun
        /\ called'.payload = object[running].sim.payload
        /\ running \in Handle /\ object[running] # NoObject
    BY <2>2 DEF callback, InStep, GlueInv, Alive
  <2>4. QED
    BY <2>3 DEF PayloadInv, Paired
<1>2. QED
  BY <1>1, GlueInvariant, PayloadInvariant, PTL DEF Spec, CallbackGetsItsPayload
=============================================================================
