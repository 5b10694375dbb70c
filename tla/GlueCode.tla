------------------------------- MODULE GlueCode -------------------------------
(***************************************************************************)
(* gluecode.py: the C API of pydrofoilcapi.h over Python objects.          *)
(*                                                                         *)
(* A handle is a number the C client holds.  Python keeps the object of a  *)
(* handle alive as long as the handle is in all_cpu_handles; afterwards    *)
(* the collector may take it at any time, and a new cpu may get the same   *)
(* number.  A Python exception ends a function, and its C caller gets 0.   *)
(* One thread calls the API.  The callbacks a constructor makes, with what *)
(* it was just given, are left out (PydrofoilCore has them, in SetCb).     *)
(* A definition whose comment begins with "fault:" is a seeded fault; no   *)
(* action uses it.                                                         *)
(***************************************************************************)
EXTENDS Integers, FiniteSets

CONSTANTS
    Handle,            \* handles other than NULL
    NULL, NoObject,    \* no handle; nothing behind a handle
    Client,            \* callers of set_ram_read_write_callback
    PCs, RESET_PC,     \* program counters; the one of a new simulator
    MaxSteps,          \* bound: steps of one simulate call
    MaxCalls           \* bound: calls of the API

ASSUME GlueAssumption ==
    /\ NULL \notin Handle /\ NULL \notin Client
    /\ RESET_PC \in PCs /\ PCs \subseteq Nat
    /\ MaxSteps \in Nat /\ MaxCalls \in Nat

VARIABLES
    all_cpu_handles,   \* the list of handles: a set, they are distinct
    object,            \* the C object behind a handle, or NoObject
    running,           \* the handle a simulate call runs on, or NULL
    left,              \* steps left in that call
    result, failed,    \* of the last call: what C got; its name if it raised
    calls,             \* API calls so far
    held,              \* history: handles allocated and not freed
    halfset,           \* history: handles whose last set_callback failed
    called             \* history: function and payload of the last callback
glue == <<all_cpu_handles, object, running, left, result, failed, calls, held,
          halfset, called>>

\* The function that self.read or self.write names, and a payload; None twice
\* before callbacks are set.
NoCallback == [fun |-> NULL, payload |-> NULL]

\* _pydrofoil.RISCV64 and RISCV32: a simulator as reset() makes it.  Its
\* closures keep the payload; the function they look up in the C object.
NewSim(p) == [pc |-> RESET_PC, ran |-> 0, payload |-> p, verbose |-> TRUE]
NewObject == [sim |-> NewSim(NULL), steps |-> 0, callbacks |-> NoCallback]
Sim == [pc : PCs, ran : Nat, payload : Client \cup {NULL}, verbose : BOOLEAN]
Callbacks == [fun : Client \cup {NULL}, payload : Client \cup {NULL}]
Object == [sim : Sim, steps : Nat, callbacks : Callbacks]
ASSUME ObjectAssumption == NoObject \notin Object

Init ==
    /\ all_cpu_handles = {} /\ object = [h \in Handle |-> NoObject]
    /\ running = NULL /\ left = 0 /\ result = 0 /\ failed = "none" /\ calls = 0
    /\ held = {} /\ halfset = {} /\ called = NoCallback
-----------------------------------------------------------------------------
\* Every function begins with ffi.from_handle, which raises on NULL and on a
\* handle whose object is gone.
FromHandle(i) == i \in Handle /\ object[i] # NoObject

\* A function f that ends at once: it returns r, or raises and C gets 0.
Enter == running = NULL /\ calls < MaxCalls /\ calls' = calls + 1
Returns(r) == result' = r /\ failed' = "none"
Raises(f) == result' = 0 /\ failed' = f
Call(f, i, new, r) ==
    /\ Enter
    /\ IF FromHandle(i)
         THEN object' = [object EXCEPT ![i] = new] /\ Returns(r)
         ELSE UNCHANGED object /\ Raises(f)
    /\ halfset' = IF f \in {"reset", "set_callback"} THEN halfset \ {i} ELSE halfset
    /\ UNCHANGED <<all_cpu_handles, running, left, held, called>>

\* The C object must be kept alive: ffi.new_handle alone does not.
\* fault: the handle is not entered into all_cpu_handles
NotKept(h) == all_cpu_handles
Kept(h) == all_cpu_handles \cup {h}

\* The constructor may raise: then no object is made, and C gets NULL.
pydrofoil_allocate_cpu ==
    \/ /\ Enter
       /\ \E h \in Handle :
            /\ object[h] = NoObject
            /\ object' = [object EXCEPT ![h] = NewObject]
            /\ all_cpu_handles' = Kept(h)
            /\ held' = held \cup {h} /\ halfset' = halfset \ {h} /\ Returns(h)
       /\ UNCHANGED <<running, left, called>>
    \/ /\ Enter /\ result' = NULL /\ failed' = "allocate"
       /\ UNCHANGED <<all_cpu_handles, object, running, left, held, halfset,
                      called>>

pydrofoil_free_cpu(i) ==
    /\ Enter
    /\ Returns(IF i \in all_cpu_handles THEN 0 ELSE -1)
    /\ all_cpu_handles' = all_cpu_handles \ {i} /\ held' = held \ {i}
    /\ UNCHANGED <<object, running, left, halfset, called>>

\* reset(): a new simulator with the callbacks of the object, then steps = 0.
\* If the constructor raises, neither has happened.
\* fault: steps = 0 comes first
ResetEarly(o, ok) ==
    IF ok THEN [o EXCEPT !.sim = NewSim(o.callbacks.payload), !.steps = 0]
          ELSE [o EXCEPT !.steps = 0]
Reset(o, ok) ==
    IF ok THEN [o EXCEPT !.sim = NewSim(o.callbacks.payload), !.steps = 0]
          ELSE o

\* A function that ends with reset(), which raises; new is the object before.
FailedReset(f, i, new) ==
    /\ Enter /\ FromHandle(i) /\ Raises(f)
    /\ object' = [object EXCEPT ![i] = Reset(new, FALSE)]
    /\ UNCHANGED <<all_cpu_handles, running, left, held, called>>

pydrofoil_cpu_reset(i) ==
    \/ Call("reset", i, Reset(object[i], TRUE), 0)
    \/ FailedReset("reset", i, object[i]) /\ UNCHANGED halfset

\* _set_callbacks puts the functions into the C object, and the payload into
\* closures that only the next simulator uses.
\* fault: the closures keep the payload of the first call
OldPayload(o, c) ==
    [o EXCEPT !.callbacks =
       [fun |-> c, payload |-> IF o.callbacks.fun = NULL THEN c ELSE @.payload]]
SetCallbacks(o, c) == [o EXCEPT !.callbacks = [fun |-> c, payload |-> c]]
pydrofoil_cpu_set_ram_read_write_callback(i, c) ==
    \/ Call("set_callback", i, Reset(SetCallbacks(object[i], c), TRUE), 0)
    \/ /\ FailedReset("set_callback", i, SetCallbacks(object[i], c))
       /\ halfset' = halfset \cup {i}

\* read_register, write_register or set_verbosity of a simulator that is there
\* raises, without effect.
SimulatorRaises(f, i) ==
    /\ Enter /\ FromHandle(i) /\ Raises(f)
    /\ UNCHANGED <<all_cpu_handles, object, running, left, held, halfset, called>>

pydrofoil_cpu_cycles(i) == Call("cycles", i, object[i], object[i].steps)
pydrofoil_cpu_pc(i) ==
    \/ Call("pc", i, object[i], object[i].sim.pc)
    \/ SimulatorRaises("pc", i)
pydrofoil_cpu_set_pc(i, v) ==
    \/ Call("set_pc", i, [object[i] EXCEPT !.sim.pc = v], 0)
    \/ SimulatorRaises("set_pc", i)
pydrofoil_cpu_set_verbosity(i, b) ==
    \/ Call("set_verbosity", i, [object[i] EXCEPT !.sim.verbose = b], 0)
    \/ SimulatorRaises("set_verbosity", i)

\* pydrofoil_cpu_simulate: its result is known when it begins.
pydrofoil_cpu_simulate(i, n) ==
    /\ Enter
    /\ IF FromHandle(i) THEN Returns(n) /\ running' = i /\ left' = n
                        ELSE Raises("simulate") /\ UNCHANGED <<running, left>>
    /\ UNCHANGED <<all_cpu_handles, object, held, halfset, called>>

\* for i in range(steps)
\* fault: one step too many
OneMore == left >= 0
InRange == left > 0

\* C.step counts, which cannot raise, and then calls the simulator: ran is the
\* number of these calls, those that raise (SimulateRaises) among them.
Stepped(o, p) == [o EXCEPT !.steps = @ + 1, !.sim.ran = @ + 1, !.sim.pc = p]
step ==
    /\ running # NULL /\ InRange /\ left' = left - 1
    /\ \E p \in PCs :
         object' = [object EXCEPT ![running] = Stepped(object[running], p)]
    /\ UNCHANGED <<all_cpu_handles, running, result, failed, calls, held,
                   halfset, called>>

\* pyread and pywrite, in a step of a simulator that has callbacks.
InStep == running # NULL /\ left < result
callback ==
    /\ InStep /\ object[running].sim.payload # NULL
    /\ called' = [fun |-> object[running].callbacks.fun,
                  payload |-> object[running].sim.payload]
    /\ UNCHANGED <<all_cpu_handles, object, running, left, result, failed,
                   calls, held, halfset>>

\* simulate returns, or an exception in a step ends it (a failed assertion on
\* the callback's result, or an error of the simulator).
SimulateReturns ==
    /\ running # NULL /\ left = 0 /\ running' = NULL
    /\ UNCHANGED <<all_cpu_handles, object, left, result, failed, calls, held,
                   halfset, called>>
SimulateRaises ==
    /\ InStep /\ running' = NULL /\ left' = 0 /\ Raises("simulate")
    /\ UNCHANGED <<all_cpu_handles, object, calls, held, halfset, called>>

\* The garbage collector.
Collect(h) ==
    /\ h \notin all_cpu_handles /\ h # running /\ object[h] # NoObject
    /\ object' = [object EXCEPT ![h] = NoObject]
    /\ UNCHANGED <<all_cpu_handles, running, left, result, failed, calls, held,
                   halfset, called>>

\* Any client: it may use a freed handle or NULL.
ApiCall(i) ==
    \/ pydrofoil_free_cpu(i) \/ pydrofoil_cpu_reset(i)
    \/ pydrofoil_cpu_cycles(i) \/ pydrofoil_cpu_pc(i)
    \/ \E c \in Client : pydrofoil_cpu_set_ram_read_write_callback(i, c)
    \/ \E v \in PCs : pydrofoil_cpu_set_pc(i, v)
    \/ \E b \in BOOLEAN : pydrofoil_cpu_set_verbosity(i, b)
    \/ \E n \in 0 .. MaxSteps : pydrofoil_cpu_simulate(i, n)
Python == step \/ callback \/ SimulateReturns \/ SimulateRaises
             \/ \E h \in Handle : Collect(h)
Next == pydrofoil_allocate_cpu \/ Python \/ \E i \in Handle \cup {NULL} : ApiCall(i)

Spec == Init /\ [][Next]_glue
-----------------------------------------------------------------------------
\* Type invariant of gluecode.py: the handle list, the C objects, the call
\* under way.
TypeOK ==
    /\ all_cpu_handles \subseteq Handle /\ held \subseteq Handle
    /\ object \in [Handle -> Object \cup {NoObject}]
    /\ running \in Handle \cup {NULL} /\ left \in 0 .. MaxSteps
    /\ result \in Int \cup Handle \cup {NULL} /\ calls \in 0 .. MaxCalls
    /\ halfset \subseteq Handle

\* A cpu that its client has not freed is never collected, though Python holds
\* no other reference to it than the entry in all_cpu_handles; and the object
\* of a running simulate stays.
HeldIsAlive ==
    /\ \A h \in held : object[h] # NoObject
    /\ running # NULL => object[running] # NoObject

\* pydrofoil_cpu_cycles reports the steps of the simulator the object has now,
\* whichever resets, failed resets and exceptions came before.
CyclesAreOfThisSimulator ==
    \A h \in Handle : object[h] # NoObject => object[h].steps = object[h].sim.ran

\* A callback is called with the payload it was registered with, unless the last
\* registration failed half way: then the C object has the new functions, and
\* the simulator, which reset() did not replace, the old payload.
CallbackGetsItsPayload ==
    [][called'.fun = called'.payload \/ running \in halfset]_called

\* testmain.c: "setting pc failed" if the result of pydrofoil_cpu_set_pc is not
\* 0: a failure can be told from the result.
SetPcFailureIsReported == failed = "set_pc" => result # 0
=============================================================================
