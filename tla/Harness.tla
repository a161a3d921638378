------------------------------ MODULE Harness ------------------------------
(***************************************************************************)
(* The measuring program (measurements/performance.py with parallel.py):   *)
(* it stages the machine, runs every engine on every benchmark in a pool   *)
(* of worker processes pinned to cores, writes the table and restores the  *)
(* machine.  A Ctrl-C interrupts the main process and the workers; a       *)
(* failing run or a missing file raises.  The pool is Python's             *)
(* ProcessPoolExecutor, whose workers are forks: they share nothing with   *)
(* the main process but inherit its handler and what it saved.             *)
(* What is written to a file stays in its buffer until it is closed, also  *)
(* when an interrupt ends the with block.                                  *)
(***************************************************************************)
EXTENDS Integers, Sequences

CONSTANTS
    CoreCount,      \* len(cores)
    TaskCount,      \* one task for each engine and benchmark
    MaxInterrupts,  \* bound on the interrupts
    NULL

ASSUME HarnessAssumption ==
    /\ {CoreCount, TaskCount} \subseteq Nat \ {0}
    /\ MaxInterrupts \in Nat
    /\ NULL \notin Nat

VARIABLES
    stage,          \* what the main process does next
    settings,       \* the machine's settings
    saved,          \* the settings whose original value is saved
    handler,        \* what SIGINT runs in the main process
    how,            \* how the program ends, or NULL
    task,           \* the state of every task
    on,             \* what a worker runs: a task, 0, or NULL without a worker
    pending,        \* the workers that have a SIGINT to handle
    results,        \* the tasks whose results list() has taken, in order
    tainted,        \* tasks measured, in part, on a machine not staged
    published,      \* whether the table is written
    buffer,         \* what the main process has written to a file not closed
    late,           \* settings staged on the way out: only a property asks
    interrupts      \* interrupts so far

mainVars  == <<stage, saved, handler, how, results, published, buffer, late>>
poolVars  == <<task, on, pending>>
vars == <<mainVars, poolVars, settings, tainted, interrupts>>

Task    == 1 .. TaskCount
Setting == {"aslr", "governor"}

\* A mutated form of Workers: one more than there are cores.
WorkersPlusOne == 1 .. CoreCount + 1

Workers == 1 .. CoreCount

\* itertools.cycle over the cores, when the tasks are made.
CoreOf(t) == (t - 1) % CoreCount

\* A mutated form of After: setup installs the handler last.
AfterLate(s) ==
    CASE s = "check"            -> "save aslr"
      [] s = "save aslr"        -> "stage aslr"
      [] s = "stage aslr"       -> "close aslr"
      [] s = "close aslr"       -> "save governor"
      [] s = "save governor"    -> "stage governor"
      [] s = "stage governor"   -> "close governor"
      [] s = "close governor"   -> "install"
      [] s = "install"          -> "ready"
      [] s = "restore aslr"     -> "restore governor"
      [] s = "restore governor" -> "restore handler"
      [] s = "restore handler"  -> "leaving"

\* The order of the statements of setup, and of those of cleanup, which ends
\* with exit.
After(s) ==
    CASE s = "check"            -> "install"
      [] s = "install"          -> "save aslr"
      [] s = "save aslr"        -> "stage aslr"
      [] s = "stage aslr"       -> "close aslr"
      [] s = "close aslr"       -> "save governor"
      [] s = "save governor"    -> "stage governor"
      [] s = "stage governor"   -> "close governor"
      [] s = "close governor"   -> "ready"
      [] s = "restore aslr"     -> "restore governor"
      [] s = "restore governor" -> "restore handler"
      [] s = "restore handler"  -> "leaving"

SetupStages == {"check", "install", "save aslr", "stage aslr", "close aslr",
                "save governor", "stage governor", "close governor", "ready"}

\* Leaving is the way out after exit or an exception.
Stage == SetupStages \cup
         {"measuring", "processing", "close table", "restore aslr",
          "restore governor", "restore handler", "leaving", "exited"}

RunningTasks == {t \in Task : task[t] = "running"}
Staged == \A s \in Setting : settings[s] = "staged"

TypeOK ==
    /\ stage \in Stage
    /\ settings \in [Setting -> {"original", "staged"}]
    /\ saved \subseteq Setting
    /\ handler \in {"default", "cleanup"}
    /\ how \in {"completed", "interrupted", "failed", NULL}
    /\ task \in [Task -> {"waiting", "running", "done", "failed", "stopped"}]
    /\ on \in [Workers -> Task \cup {0, NULL}]
    /\ RunningTasks = {t \in Task : \E w \in Workers : on[w] = t}
    /\ pending \subseteq Workers
    /\ results \in Seq(Task) /\ Len(results) <= TaskCount
    /\ tainted \subseteq Task
    /\ published \in BOOLEAN
    /\ buffer \in Setting \cup {"table", "empty"}
    /\ late \subseteq Setting
    /\ interrupts \in 0 .. MaxInterrupts

Init ==
    /\ stage = "check"
    /\ settings = [s \in Setting |-> "original"]
    /\ saved = {}
    /\ handler = "default"
    /\ how = NULL
    /\ task = [t \in Task |-> "waiting"]
    /\ on = [w \in Workers |-> NULL]
    /\ pending = {}
    /\ results = <<>>
    /\ tainted = {}
    /\ published = FALSE
    /\ buffer = "empty"
    /\ late = {}
    /\ interrupts = 0

\* An exception unwinds the main process.  When closing a file raises, what
\* was written to it is lost.
Raise == stage' = "leaving" /\ how' = "failed" /\ buffer' = "empty"

\* Closing the file, which writes what is in its buffer.
Close ==
    /\ buffer' = "empty"
    /\ settings' = [s \in Setting |-> IF s = buffer THEN "staged"
                                      ELSE settings[s]]
    /\ published' = (published \/ buffer = "table")

------------------------------------------------------------------------------
\* setup.  It ends the program if it does not run as root, or when a file of
\* the settings cannot be opened.

CheckRoot ==
    /\ stage = "check" /\ stage' = After(stage)
    /\ UNCHANGED <<settings, saved, handler, how, results, published, buffer,
                   late, poolVars, tainted, interrupts>>

InstallHandler ==
    /\ stage = "install" /\ stage' = After(stage)
    /\ handler' = "cleanup"
    /\ UNCHANGED <<settings, saved, how, results, published, buffer, late,
                   poolVars, tainted, interrupts>>

Save(s) ==
    /\ saved' = saved \cup {s} /\ stage' = After(stage)
    /\ UNCHANGED <<settings, handler, how, results, published, buffer, late,
                   poolVars, tainted, interrupts>>

\* The new value is written, and is the machine's when the file is closed.
StageSetting(s) ==
    /\ buffer' = s /\ stage' = After(stage)
    /\ UNCHANGED <<settings, saved, handler, how, results, published, late,
                   poolVars, tainted, interrupts>>

SaveAslr      == stage = "save aslr"      /\ Save("aslr")
StageAslr     == stage = "stage aslr"     /\ StageSetting("aslr")
SaveGovernor  == stage = "save governor"  /\ Save("governor")
StageGovernor == stage = "stage governor" /\ StageSetting("governor")

\* A mutated form of CloseSetting: the file is left open.
CloseSettingNever ==
    /\ stage \in {"close aslr", "close governor"} /\ stage' = After(stage)
    /\ UNCHANGED <<settings, saved, handler, how, results, published, buffer,
                   late, poolVars, tainted, interrupts>>

CloseSetting ==
    /\ stage \in {"close aslr", "close governor"} /\ stage' = After(stage)
    /\ Close
    /\ UNCHANGED <<saved, handler, how, results, late, poolVars, tainted,
                   interrupts>>

SetupRaises ==
    /\ stage \in {"check", "save aslr", "stage aslr", "close aslr",
                  "save governor", "stage governor", "close governor"}
    /\ Raise
    /\ UNCHANGED <<settings, saved, handler, results, published, late, poolVars,
                   tainted, interrupts>>

------------------------------------------------------------------------------
\* parallel_execute.  map submits every task, in order, which starts all
\* workers; list takes the results in order.

StartPool ==
    /\ stage = "ready" /\ stage' = "measuring"
    /\ on' = [w \in Workers |-> 0]
    /\ UNCHANGED <<settings, saved, handler, how, results, published, buffer,
                   late, task, pending, tainted, interrupts>>

\* The task at the head of the pool's queue.
IsNext(t) == task[t] = "waiting" /\ \A u \in 1 .. t - 1 : task[u] # "waiting"

\* A worker takes the first task left.
Take(w) ==
    /\ on[w] = 0 /\ w \notin pending
    /\ \E t \in Task :
         /\ IsNext(t)
         /\ task' = [task EXCEPT ![t] = "running"]
         /\ on' = [on EXCEPT ![w] = t]
         /\ tainted' = IF Staged THEN tainted ELSE tainted \cup {t}
    /\ UNCHANGED <<mainVars, settings, pending, interrupts>>

\* A mutated form of Finish: the worker is not free again.
FinishBusy(w) ==
    /\ on[w] \in Task /\ w \notin pending
    /\ \E outcome \in {"done", "failed"} :
         task' = [task EXCEPT ![on[w]] = outcome]
    /\ UNCHANGED <<mainVars, settings, on, pending, tainted, interrupts>>

\* A mutated form of Finish: a failed run is tried again.
FinishRetry(w) ==
    /\ on[w] \in Task /\ w \notin pending
    /\ \E outcome \in {"done", "waiting"} :
         task' = [task EXCEPT ![on[w]] = outcome]
    /\ on' = [on EXCEPT ![w] = 0]
    /\ UNCHANGED <<mainVars, settings, pending, tainted, interrupts>>

\* profile returns, or its exit(-1) is the task's result.
Finish(w) ==
    /\ on[w] \in Task /\ w \notin pending
    /\ \E outcome \in {"done", "failed"} :
         task' = [task EXCEPT ![on[w]] = outcome]
    /\ on' = [on EXCEPT ![w] = 0]
    /\ UNCHANGED <<mainVars, settings, pending, tainted, interrupts>>

Collect ==
    /\ stage = "measuring" /\ Len(results) < TaskCount
    /\ task[Len(results) + 1] = "done"
    /\ results' = Append(results, Len(results) + 1)
    /\ UNCHANGED <<settings, stage, saved, handler, how, published, buffer,
                   late, poolVars, tainted, interrupts>>

\* The exception a task ended with is raised again here.
CollectRaises ==
    /\ stage = "measuring" /\ Len(results) < TaskCount
    /\ task[Len(results) + 1] \in {"failed", "stopped"}
    /\ Raise
    /\ UNCHANGED <<settings, saved, handler, results, published, late, poolVars,
                   tainted, interrupts>>

EndPool ==
    /\ stage = "measuring" /\ Len(results) = TaskCount
    /\ stage' = "processing"
    /\ on' = [w \in Workers |-> NULL]
    /\ UNCHANGED <<settings, saved, handler, how, results, published, buffer,
                   late, task, pending, tainted, interrupts>>

------------------------------------------------------------------------------
\* process_performance, which raises when a counter is missing from a result.
\* The header alone, without its rows, is no table.

WriteTable ==
    /\ stage = "processing" /\ stage' = "close table"
    /\ buffer' = "table"
    /\ UNCHANGED <<settings, saved, handler, how, results, published, late,
                   poolVars, tainted, interrupts>>

Publish ==
    /\ stage = "close table" /\ stage' = "restore aslr"
    /\ Close /\ how' = "completed"
    /\ UNCHANGED <<saved, handler, results, late, poolVars, tainted, interrupts>>

ProcessRaises ==
    /\ stage \in {"processing", "close table"}
    /\ Raise
    /\ UNCHANGED <<settings, saved, handler, results, published, late, poolVars,
                   tainted, interrupts>>

------------------------------------------------------------------------------
\* cleanup.  Writing an original value back is one step: an interrupt before
\* the file is closed runs cleanup again, which closes a file with the same
\* value before this one is.

\* The saved settings in S get their original values back.
PutBack(S) ==
    /\ settings' = [s \in Setting |-> IF s \in S \cap saved THEN "original"
                                      ELSE settings[s]]
    /\ tainted' = IF S \cap saved = {} THEN tainted
                  ELSE tainted \cup RunningTasks

Restore(s) ==
    /\ PutBack({s}) /\ stage' = After(stage)
    /\ UNCHANGED <<saved, handler, how, results, published, buffer, late,
                   poolVars, interrupts>>

RestoreAslr     == stage = "restore aslr"     /\ Restore("aslr")
RestoreGovernor == stage = "restore governor" /\ Restore("governor")

\* ... and exit(0).
RestoreHandler ==
    /\ stage = "restore handler" /\ stage' = After(stage)
    /\ handler' = "default"
    /\ UNCHANGED <<settings, saved, how, results, published, buffer, late,
                   poolVars, tainted, interrupts>>

\* The way out of exit or an exception.  A with block that an interrupt has
\* left closes its file now, after cleanup, or that raises.  The pool's exit
\* waits for the runs under way; tasks in its queue may still be started, the
\* others are cancelled.
Exit ==
    /\ stage = "leaving" /\ stage' = "exited"
    /\ RunningTasks = {} /\ pending = {}
    /\ on' = [w \in Workers |-> NULL]
    /\ \/ Close /\ late' = late \cup (Setting \cap {buffer}) /\ UNCHANGED how
       \/ /\ buffer # "empty" /\ buffer' = "empty" /\ how' = "failed"
          /\ UNCHANGED <<settings, published, late>>
    /\ UNCHANGED <<saved, handler, results, task, pending, tainted, interrupts>>

------------------------------------------------------------------------------
\* Ctrl-C reaches the process group.  The main process runs its handler before
\* its next statement: cleanup from its beginning, or Python's, which raises.
\* A file it has open is left to Exit.

Interrupt ==
    /\ stage # "exited" /\ interrupts < MaxInterrupts
    /\ interrupts' = interrupts + 1
    /\ stage' = IF handler = "cleanup" THEN "restore aslr" ELSE "leaving"
    /\ how' = "interrupted"
    /\ pending' = {w \in Workers : on[w] # NULL}
    /\ UNCHANGED <<settings, saved, handler, results, published, buffer, late,
                   task, on, tainted>>

\* The same handler in a worker.  Its exit(0) is caught as the task's result,
\* or ends a worker that has no task.
WorkerInterrupted(w) ==
    /\ w \in pending
    /\ pending' = pending \ {w}
    /\ PutBack(Setting)
    /\ IF on[w] \in Task
       THEN /\ task' = [task EXCEPT ![on[w]] = "stopped"]
            /\ on' = [on EXCEPT ![w] = 0]
       ELSE on' = [on EXCEPT ![w] = NULL] /\ UNCHANGED task
    /\ UNCHANGED <<mainVars, interrupts>>

------------------------------------------------------------------------------
Main == \/ CheckRoot \/ InstallHandler \/ SaveAslr \/ StageAslr
        \/ SaveGovernor \/ StageGovernor \/ CloseSetting \/ SetupRaises
        \/ StartPool \/ Collect \/ CollectRaises \/ EndPool
        \/ WriteTable \/ Publish \/ ProcessRaises
        \/ RestoreAslr \/ RestoreGovernor \/ RestoreHandler \/ Exit

Pool == \E w \in Workers : Take(w) \/ Finish(w) \/ WorkerInterrupted(w)

Next == Main \/ Pool \/ Interrupt

Terminated == stage = "exited" /\ UNCHANGED vars

Spec == Init /\ [][Next \/ Terminated]_vars /\ WF_vars(Main \/ Pool)

------------------------------------------------------------------------------
(***************************************************************************)
(* Two measurements share a core only after a later one has overtaken an   *)
(* earlier one: cores are dealt to the tasks in turn when they are made    *)
(* and there are as many workers as cores, so that runs which end in the   *)
(* order they were started never disturb one another (parallel.py).        *)
(***************************************************************************)
SharedOnlyAfterOvertaking ==
    \A i, j \in RunningTasks :
        i < j /\ CoreOf(i) = CoreOf(j) =>
            \E m \in i + 1 .. j - 1 : task[m] \notin {"waiting", "running"}

(***************************************************************************)
(* A table that is written holds the result of every task, in order, and   *)
(* each was measured with both settings staged from its start to its end,  *)
(* wherever interrupts struck (performance.py).                            *)
(***************************************************************************)
PublishedSound ==
    published => /\ results = [t \in Task |-> t]
                 /\ \A t \in Task : task[t] = "done"
                 /\ tainted = {}

(***************************************************************************)
(* A program that completes, or is interrupted at any statement of setup,  *)
(* of the measurements or of cleanup itself, leaves the machine as it      *)
(* found it, with one exception: of a setting that was written but not     *)
(* closed when Ctrl-C struck, the staged value is written last, after      *)
(* cleanup.  It is the only such setting and nothing was measured (setup   *)
(* and cleanup in performance.py).  A program that fails promises nothing. *)
(***************************************************************************)
SettingsRestored ==
    stage = "exited" /\ how \in {"completed", "interrupted"} =>
        /\ \A s \in Setting : settings[s] = "staged" <=> s \in late
        /\ late # {} => /\ how = "interrupted"
                        /\ \E s \in Setting : late = {s}
                        /\ \A t \in Task : task[t] = "waiting"

(***************************************************************************)
(* The program ends: a failing run, an exception or an interrupt leaves    *)
(* nobody waiting for a result that does not come (parallel.py).           *)
(***************************************************************************)
Finishes == <>(stage = "exited")
============================================================================
