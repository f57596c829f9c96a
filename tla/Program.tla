------------------------------- MODULE Program -------------------------------
(***************************************************************************)
(* memsim from main to its end: the resources that CSC369_SimulationCreate *)
(* acquires one by one, any of which may fail; the replay of the trace     *)
(* over the page table; CSC369_SimulationDestroy; and the handler of fatal *)
(* signals, which closes and removes the swap file through the global      *)
(* "simulation".  A fatal signal is memsim's own (a failed assertion, a    *)
(* NULL dereference) or is sent from outside, at any moment.               *)
(*                                                                         *)
(* What an access does beyond the page table is the subject of MemSim;     *)
(* here it succeeds or kills the program.                                  *)
(***************************************************************************)
EXTENDS PageTable, Trace

(* The addresses of the traces are those of the simulated address space.   *)
TraceTexts == {Access(va) : va \in Addresses} \cup {Comment, Invalid}

ASSUME FilesAssumption ==
  Files \subseteq [lines : Seq(Seq(TraceTexts)), terminated : BOOLEAN]

VARIABLES
  pc,           \* where main is; "handler" while a fatal signal is handled
  held,         \* resources acquired and not given back, those of km apart
  simulation,   \* the global of memsim.c: "null", "set" or "dangling"
  stdin,        \* is descriptor 0 still open?
  external      \* has a fatal signal been sent from outside?

progVars == <<ptVars, traceVars, pc, held, simulation, stdin, external>>

(* The order of acquisition in CSC369_SimulationCreate and the Create      *)
(* functions it calls.  "file" is the open trace file, "swapfile" the      *)
(* temporary file with its descriptor.                                     *)
Resources == <<"simulation", "trace", "file", "physmem", "swap", "swapmap",
               "words", "swapfile", "coremap", "frames">>

(* What each Destroy function releases.                                    *)
Parts == [trace |-> {"trace", "file"},
          physmem |-> {"physmem"},
          coremap |-> {"coremap", "frames"},
          swap |-> {"swap", "swapmap", "words", "swapfile"}]

(* The next resource to acquire.                                           *)
Acquires(r) ==
  \E n \in DOMAIN Resources :
    /\ Resources[n] = r /\ r \notin held
    /\ \A m \in 1 .. n - 1 : Resources[m] \in held

Complete == held = ToSet(Resources)

Ended == pc \in {"returned", "exited", "killed"}

MM == Block("mm", <<>>)

ProgInit ==
  /\ PTInit /\ TraceInit
  /\ pc = "args" /\ held = {} /\ simulation = "null" /\ stdin = TRUE
  /\ external = FALSE

(* CreateSimulationFromArgs: usage, or an algorithm that is not found and  *)
(* fails the assertion on policy, or arguments that will do.               *)
CreateSimulationFromArgs ==
  /\ pc = "args"
  /\ pc' \in {"returned", "handler", "create"}
  /\ UNCHANGED <<ptVars, traceVars, held, simulation, stdin, external>>

Acquire(r) ==
  /\ pc = "create" /\ Acquires(r)
  /\ held' = held \cup {r}
  /\ UNCHANGED <<ptVars, traceVars, pc, simulation, stdin, external>>

(* The Create function that needed r destroys what it has and returns      *)
(* NULL, and the simulation is destroyed.  CSC369_SwapDestroy closes the   *)
(* descriptor of the calloc'ed struct, 0, if mkstemp was not reached.      *)
AcquireFails(r) ==
  /\ pc = "create" /\ Acquires(r)
  /\ held' = held \ UNION {Parts[c] : c \in {d \in DOMAIN Parts : r \in Parts[d]}}
  /\ stdin' = (stdin /\ r \notin {"swapmap", "words"})
  /\ pc' = IF r = "simulation" THEN "returned" ELSE "destroy"
  /\ UNCHANGED <<ptVars, traceVars, simulation, external>>

(* CSC369_MMCreate: its own block, from CSC369_malloc ...                  *)
MMCreate ==
  /\ pc = "create" /\ Complete
  /\ \/ /\ WithinMax(km, <<MM>>)
        /\ km' = CSC369_malloc(km, <<MM>>)
        /\ pc' = "mm"
     \/ pc' = "destroy" /\ UNCHANGED km
     \/ MallocAborts(<<MM>>, 1) /\ pc' = "handler"
  /\ UNCHANGED <<touched, phase, traceVars, held, simulation, stdin, external>>

(* ... and the page table.  If that fails neither the block nor what there *)
(* is of the table is freed.  Otherwise the policy is initialised, and     *)
(* main gets the simulation.                                               *)
MMCreateTable ==
  /\ pc = "mm"
  /\ CSC369_PageTableCreate
  /\ pc' = CASE phase' = "ready" -> "created"
             [] phase' = "failed" -> "destroy"
             [] OTHER -> "handler"
  /\ UNCHANGED <<traceVars, held, simulation, stdin, external>>

AssignSimulation ==
  /\ pc = "created"
  /\ simulation' = "set" /\ pc' = "run"
  /\ UNCHANGED <<ptVars, traceVars, held, stdin, external>>

-----------------------------------------------------------------------------
(* The loop of CSC369_SimulationRun.                                       *)
SimulationRun ==
  /\ pc = "run"
  /\ CSC369_TraceRead
  /\ pc' = IF result' = 0 THEN "execute" ELSE "destroy"
  /\ UNCHANGED <<ptVars, held, simulation, stdin, external>>

ExecuteMemInstruction ==
  /\ pc = "execute"
  /\ \/ CSC369_PageTableAllocate(Last(delivered)) /\ pc' = "run"
     \/ AllocateFails(Last(delivered)) /\ pc' = "handler"
     \/ UNCHANGED ptVars /\ pc' = "handler"
  /\ UNCHANGED <<traceVars, held, simulation, stdin, external>>

-----------------------------------------------------------------------------
(* CSC369_SimulationDestroy: the trace, physmem, the coremap and the swap, *)
(* in this order and as far as there is one ...                            *)
Components == <<"trace", "physmem", "coremap", "swap">>
Destroys(c) ==
  /\ pc = "destroy" /\ c \in held
  /\ \E n \in DOMAIN Components :
       /\ Components[n] = c
       /\ \A m \in 1 .. n - 1 : Components[m] \notin held

(* Faulty variant: only the struct is freed, not what it owns.             *)
DestroyShallow(c) ==
  /\ Destroys(c)
  /\ held' = held \ {c}
  /\ UNCHANGED <<ptVars, traceVars, pc, simulation, stdin, external>>

DestroyPart(c) ==
  /\ Destroys(c)
  /\ held' = held \ Parts[c]
  /\ UNCHANGED <<ptVars, traceVars, pc, simulation, stdin, external>>

AllDestroyed == \A c \in DOMAIN Parts : c \notin held

(* ... then the memory manager, whose assertions may fail ...              *)
MMDestroy ==
  /\ pc = "destroy" /\ AllDestroyed /\ phase = "ready"
  /\ \E order \in {Append(DestroyOrder[<<>>], MM)} : DestroyBlocks(order)
  /\ pc' = IF km'.ok THEN "destroy" ELSE "handler"
  /\ phase' = "destroyed"
  /\ UNCHANGED <<touched, traceVars, held, simulation, stdin, external>>

(* ... and the struct itself: the global is not reset.  The leak check is  *)
(* all that main does after it.                                            *)
DestroyDone ==
  /\ pc = "destroy" /\ AllDestroyed /\ phase # "ready"
  /\ held' = held \ {"simulation"}
  /\ simulation' = IF simulation = "set" THEN "dangling" ELSE simulation
  /\ pc' = IF simulation = "set" THEN "leakcheck" ELSE "returned"
  /\ UNCHANGED <<ptVars, traceVars, stdin, external>>

LeakCheck ==
  /\ pc = "leakcheck"
  /\ pc' = "returned"
  /\ UNCHANGED <<ptVars, traceVars, held, simulation, stdin, external>>

-----------------------------------------------------------------------------
(* A fatal signal from outside, one of those InstallFatalHandlers installs *)
(* the handler for.  SIGINT, SIGTERM and SIGKILL are not among them: they  *)
(* end the process with the swap file left behind, and are not modelled.   *)
Signal ==
  /\ ~Ended /\ pc # "handler"
  /\ pc' = "handler" /\ external' = TRUE
  /\ UNCHANGED <<ptVars, traceVars, held, simulation, stdin>>

(* May the handler go through simulation->swap?                            *)
SwapValid == simulation = "set" /\ "swap" \in held

(* Faulty variant: the swap file is closed but not removed.                *)
HandlerKeepsFile ==
  /\ pc = "handler"
  /\ pc' \in IF SwapValid THEN {"exited"} ELSE {"killed", "exited"}
  /\ UNCHANGED <<ptVars, traceVars, held, simulation, stdin, external>>

(* Faulty variant: a fault of the handler is handled again, for ever.      *)
HandlerReenters ==
  /\ pc = "handler"
  /\ IF SwapValid THEN pc' = "exited" /\ held' = held \ {"swapfile"}
     ELSE UNCHANGED <<pc, held>>
  /\ UNCHANGED <<ptVars, traceVars, simulation, stdin, external>>

(* HandleFatalSignal: the swap file is closed and removed, and the process *)
(* exits.  Through a NULL simulation it faults: the signal is handled a    *)
(* second time, faults again while it is blocked, and the process is       *)
(* killed.  Through freed memory either may happen; the swap file is then  *)
(* gone already.                                                           *)
HandleFatalSignal ==
  /\ pc = "handler"
  /\ \/ SwapValid /\ pc' = "exited" /\ held' = held \ {"swapfile"}
     \/ ~SwapValid /\ pc' = "killed" /\ UNCHANGED held
     \/ ~SwapValid /\ simulation # "null" /\ pc' = "exited" /\ UNCHANGED held
  /\ UNCHANGED <<ptVars, traceVars, simulation, stdin, external>>

MainNext ==
  \/ CreateSimulationFromArgs
  \/ \E r \in ToSet(Resources) : Acquire(r) \/ AcquireFails(r)
  \/ MMCreate \/ MMCreateTable \/ AssignSimulation
  \/ SimulationRun \/ ExecuteMemInstruction
  \/ \E c \in DOMAIN Parts : DestroyPart(c)
  \/ MMDestroy \/ DestroyDone \/ LeakCheck
  \/ HandleFatalSignal

ProgTerminated == Ended /\ UNCHANGED progVars

ProgNext == MainNext \/ Signal \/ ProgTerminated

(* The operating system keeps running the process.                         *)
ProgSpec == ProgInit /\ [][ProgNext]_progVars /\ WF_progVars(MainNext)

-----------------------------------------------------------------------------
(* memsim.c: the simulation is global "so we can destroy the swap file on  *)
(* a fatal error".  However the process ends, after whatever failure or    *)
(* handled signal, the swap file is gone, unless the signal came before    *)
(* main had the simulation: then the handler has no way to the file.       *)
SwapFileRemoved ==
  Ended /\ "swapfile" \in held => pc = "killed" /\ simulation = "null"

(* When main returns it has given back all it acquired, however far the    *)
(* creation got, and the leak check of kmalloc is right: only a memory     *)
(* manager that could not be completed is left behind, and descriptor 0 is *)
(* closed only if no simulation was made.                                  *)
ReturnReleasesAll ==
  pc = "returned" =>
    /\ held = {}
    /\ IF phase = "failed" THEN heap \subseteq {MM, Table(<<>>)[1]}
       ELSE heap = {} /\ CSC369_MallocIsLeakFree(km, 0, 0)
    /\ simulation = "dangling" => stdin

(* The handler goes through freed memory only for a signal from outside:   *)
(* none of memsim's own faults comes after the swap was destroyed.         *)
HandlerSafe ==
  pc = "handler" /\ ~external /\ simulation # "null" => SwapValid

(* Every run ends: the loop over the trace, creation and destruction all   *)
(* terminate, and handling a fault does not lead to another one for ever.  *)
ProgramEnds == <>Ended
=============================================================================
