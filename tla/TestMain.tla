------------------------------- MODULE TestMain -------------------------------
(***************************************************************************)
(* testmain.c: main, which calls the C API (GlueCode) and gives it the     *)
(* block list (SparseMem) as the memory of the guest.                      *)
(***************************************************************************)
EXTENDS SparseMem, Integers

CONSTANTS Handle, NULL, NoObject, Client, PCs, RESET_PC, MaxSteps, MaxCalls,
          SET_PC,   \* 4096: the pc of the second run
          WORD      \* 1 << 3 (the guest counts words, the callbacks bytes)

ASSUME MainAssumption == SET_PC \in PCs /\ WORD \in Nat \ {0}

VARIABLES
    mpc, cpu, steps, exit,     \* main: the next statement; its variables
    all_cpu_handles, object, running, left, result, failed, calls, held,
    halfset, called,           \* see GlueCode
    trouble, unset             \* history: a call has raised; so has one that sets
main == <<mpc, cpu, steps, exit>>
glue == <<all_cpu_handles, object, running, left, result, failed, calls, held,
          halfset, called>>
history == <<trouble, unset>>
G == INSTANCE GlueCode
ASSUME ApiAssumption == G!GlueAssumption /\ G!ObjectAssumption

\* The calls of main, in order.
\* fault: the pc is set before the reset; fault: there is no reset
MainPcFirst == <<"allocate", "set_callback", "simulate", "cycles", "set_pc",
          "set_verbosity", "pc", "reset", "simulate", "cycles", "pc", "free">>
MainNoReset == <<"allocate", "set_callback", "simulate", "cycles", "pc",
          "set_verbosity", "pc", "set_pc", "simulate", "cycles", "pc", "free">>
Main == <<"allocate", "set_callback", "simulate", "cycles", "reset",
          "set_verbosity", "pc", "set_pc", "simulate", "cycles", "pc", "free">>
After(s) == mpc > 1 /\ Main[mpc - 1] = s

MainInit ==
    /\ Init /\ G!Init /\ trouble = FALSE /\ unset = {}
    /\ mpc = 1 /\ cpu = NULL /\ exit = "none" /\ steps \in 0 .. MaxSteps

\* The results main looks at.
Fails == \/ After("allocate") /\ result = NULL
         \/ After("set_pc") /\ result # 0
         \/ After("free") /\ result # 0

handle == IF After("allocate") THEN result ELSE cpu
Statement(s) ==
    \/ s = "allocate" /\ G!pydrofoil_allocate_cpu
    \/ s = "set_callback"
         /\ \E c \in Client : G!pydrofoil_cpu_set_ram_read_write_callback(handle, c)
    \/ s = "simulate" /\ G!pydrofoil_cpu_simulate(handle, steps)
    \/ s = "cycles" /\ G!pydrofoil_cpu_cycles(handle)
    \/ s = "reset" /\ G!pydrofoil_cpu_reset(handle)
    \/ s = "set_verbosity" /\ G!pydrofoil_cpu_set_verbosity(handle, FALSE)
    \/ s = "pc" /\ G!pydrofoil_cpu_pc(handle)
    \/ s = "set_pc" /\ G!pydrofoil_cpu_set_pc(handle, SET_PC)
    \/ s = "free" /\ G!pydrofoil_free_cpu(handle)
Do ==
    /\ exit = "none" /\ mpc <= Len(Main) /\ ~Fails
    /\ Statement(Main[mpc])
    /\ mpc' = mpc + 1 /\ cpu' = handle /\ UNCHANGED <<steps, exit, vars>>
Exit ==
    /\ exit = "none" /\ running = NULL /\ (Fails \/ mpc > Len(Main))
    /\ exit' = IF Fails THEN "error" ELSE "ok"
    /\ UNCHANGED <<mpc, cpu, steps, vars, glue>>

\* An access of the guest to word w, through pyread or pywrite.
GuestAccess ==
    /\ G!callback /\ UNCHANGED main
    /\ \E w \in 0 .. MaxAddr \div WORD :
         read_mem(w * WORD) \/ \E v \in Value : write_mem(w * WORD, v)
Quietly(A) == A /\ UNCHANGED <<main, vars>>
MainNext ==
    /\ \/ Do \/ Exit \/ GuestAccess
       \/ Quietly(G!step) \/ Quietly(G!SimulateReturns)
       \/ Quietly(G!SimulateRaises)
       \/ \E h \in Handle : Quietly(G!Collect(h))
    /\ trouble' = (trouble \/ failed' # "none")
    /\ unset' = unset \cup ({failed'} \cap {"set_pc", "set_verbosity"})

MainSpec == MainInit /\ [][MainNext]_<<main, vars, glue, history>>
-----------------------------------------------------------------------------
\* main sets the pc and the verbosity after everything that replaces the
\* simulator, so that the second run begins as configured, even if the reset
\* or another call has raised.  Only the call that sets a value must not have:
\* main cannot see that it did (GlueCode: SetPcFailureIsReported), and runs on.
SecondRunAsConfigured ==
    mpc = 10 /\ running # NULL /\ left = steps =>
        /\ "set_pc" \notin unset => object[cpu].sim.pc = SET_PC
        /\ "set_verbosity" \notin unset => ~object[cpu].sim.verbose

\* Unless a call has raised, each of the two printed "Total cycles" is the number
\* of steps of its own run, and main ends with 0 and has freed the cpu.
RunsAreCounted ==
    /\ After("cycles") /\ ~trouble => result = steps
    /\ exit # "none" /\ ~trouble => exit = "ok" /\ all_cpu_handles = {}
=============================================================================
