--------------------------- MODULE HarnessProofs ---------------------------
(***************************************************************************)
(* What the measuring program leaves behind, and what it may publish, for  *)
(* any number of cores, tasks and interrupts.                              *)
(***************************************************************************)
EXTENDS Harness, FiniteSetTheorems, TLAPS

AllOriginal == \A s \in Setting : settings[s] = "original"

\* What each statement of setup and cleanup can rely on.
SettingsInv ==
    /\ \A s \in Setting : settings[s] = "staged" => s \in saved
    /\ handler = "default" /\ stage # "exited" =>
         AllOriginal /\ stage \in {"check", "install", "leaving"}
    /\ stage \in {"stage aslr", "close aslr"} => "aslr" \in saved
    /\ stage \in {"stage governor", "close governor"} => "governor" \in saved
    /\ stage \in {"save governor", "stage governor", "close governor", "ready"} =>
         settings["aslr"] = "staged"
    /\ stage = "ready" => settings["governor"] = "staged"
    /\ stage \in {"measuring", "processing", "close table"} => Staged
    /\ stage \in {"restore governor", "restore handler"} =>
         settings["aslr"] = "original"
    /\ stage = "restore handler" => settings["governor"] = "original"
    /\ stage = "leaving" /\ how \in {"completed", "interrupted"} => AllOriginal
    /\ stage = "exited" /\ how \in {"completed", "interrupted"} =>
         \A s \in Setting : settings[s] = "staged" <=> s \in late

\* A task has one worker, the tasks were taken in order, and the results are
\* those of the first tasks.
PoolInv ==
    /\ \A w, v \in Workers : on[w] \in Task /\ on[w] = on[v] => w = v
    /\ \A i, j \in Task : i < j /\ task[j] # "waiting" => task[i] # "waiting"
    /\ \A i \in 1 .. Len(results) : results[i] = i /\ task[i] = "done"

\* There is no pool before it is started, and no signal before it has ended
\* unless the main process has left the measurements too.
PhaseInv ==
    /\ stage \in SetupStages =>
         /\ \A t \in Task : task[t] = "waiting"
         /\ \A w \in Workers : on[w] = NULL
         /\ results = <<>>
    /\ stage \in SetupStages \cup {"measuring", "processing", "close table"} =>
         pending = {} /\ tainted = {} /\ ~published
    /\ stage \in {"processing", "close table"} => Len(results) = TaskCount
    /\ published \/ buffer = "table" => Len(results) = TaskCount /\ tainted = {}

NoPool ==
    /\ \A t \in Task : task[t] = "waiting"
    /\ \A w \in Workers : on[w] = NULL
    /\ pending = {}

\* What is in the buffer at a statement, and that a setting left in it is left
\* by an interrupt of setup, before there is a pool.
BufferInv ==
    /\ stage = "close aslr" => buffer = "aslr"
    /\ stage = "close governor" => buffer = "governor"
    /\ stage = "close table" => buffer = "table"
    /\ stage \in {"check", "install", "save aslr", "stage aslr", "save governor",
                  "stage governor", "ready", "measuring", "processing"} =>
         buffer = "empty"
    /\ buffer \in Setting =>
         NoPool /\ buffer \in saved /\ (stage \in SetupStages \/ how = "interrupted")
    /\ late # {} => /\ stage = "exited" /\ how = "interrupted" /\ NoPool
                    /\ \E s \in Setting : late = {s}

IInv == TypeOK /\ SettingsInv /\ PoolInv /\ PhaseInv /\ BufferInv

(***************************************************************************)
(* The statement after each statement.                                     *)
(***************************************************************************)
LEMMA Order ==
  /\ After("check") = "install"
  /\ After("install") = "save aslr"
  /\ After("save aslr") = "stage aslr"
  /\ After("stage aslr") = "close aslr"
  /\ After("close aslr") = "save governor"
  /\ After("save governor") = "stage governor"
  /\ After("stage governor") = "close governor"
  /\ After("close governor") = "ready"
  /\ After("restore aslr") = "restore governor"
  /\ After("restore governor") = "restore handler"
  /\ After("restore handler") = "leaving"
BY DEF After

(***************************************************************************)
(* Before setup.                                                           *)
(***************************************************************************)
LEMMA InitInv == Init => IInv
<1> SUFFICES ASSUME Init PROVE IInv
  OBVIOUS
<1>1. TaskCount \in Nat /\ CoreCount \in Nat /\ MaxInterrupts \in Nat /\ NULL \notin Nat
  BY HarnessAssumption
<1>2. RunningTasks = {} /\ {t \in Task : \E w \in Workers : on[w] = t} = {}
  BY <1>1 DEF Init, RunningTasks, Task
<1>3. TypeOK
  <2>1. results \in Seq(Task) /\ Len(results) <= TaskCount
    BY <1>1 DEF Init
  <2>2. /\ settings \in [Setting -> {"original", "staged"}]
        /\ task \in [Task -> {"waiting", "running", "done", "failed", "stopped"}]
        /\ on \in [Workers -> Task \cup {0, NULL}]
    BY DEF Init
  <2>3. stage \in Stage
    BY DEF Init, Stage, SetupStages
  <2>4. interrupts \in 0 .. MaxInterrupts /\ buffer = "empty" /\ late = {}
    BY <1>1 DEF Init
  <2> QED
    BY <1>1, <1>2, <2>1, <2>2, <2>3, <2>4, Zenon DEF Init, TypeOK
<1>4. SettingsInv
  BY DEF Init, SettingsInv, AllOriginal, Setting
<1>5. PoolInv /\ PhaseInv
  BY <1>1 DEF Init, PoolInv, PhaseInv, Task
<1>6. BufferInv
  BY DEF Init, BufferInv, Setting
<1> QED
  BY <1>3, <1>4, <1>5, <1>6 DEF IInv

(***************************************************************************)
(* The pool's part of the invariant is about the pool and the results.     *)
(***************************************************************************)
LEMMA PoolKept ==
  ASSUME PoolInv, UNCHANGED <<task, on, results>>
  PROVE  PoolInv'
BY DEF PoolInv

(***************************************************************************)
(* A step of the main process that leaves the pool and the results alone   *)
(* keeps the types if its own assignments do.                              *)
(***************************************************************************)
LEMMA MainTyped ==
  ASSUME TypeOK, UNCHANGED <<task, on, results, interrupts>>,
         stage' \in Stage, settings' \in [Setting -> {"original", "staged"}],
         saved' \subseteq Setting, handler' \in {"default", "cleanup"},
         how' \in {"completed", "interrupted", "failed", NULL},
         pending' \subseteq Workers, tainted' \subseteq Task,
         published' \in BOOLEAN, buffer' \in Setting \cup {"table", "empty"},
         late' \subseteq Setting
  PROVE  TypeOK'
BY DEF TypeOK, RunningTasks

(***************************************************************************)
(* setup.                                                                  *)
(***************************************************************************)
LEMMA SetupInv ==
  ASSUME IInv, CheckRoot \/ InstallHandler \/ SaveAslr \/ StageAslr
                 \/ SaveGovernor \/ StageGovernor
  PROVE  IInv'
<1> USE Order DEF Setting
<1>1. UNCHANGED <<task, on, results, pending, tainted, published, how, settings,
                  late, interrupts>>
  BY DEF CheckRoot, InstallHandler, SaveAslr, StageAslr, SaveGovernor, StageGovernor,
         Save, StageSetting, poolVars
<1>2. stage \in SetupStages /\ stage' \in SetupStages
  <2>1. /\ stage \in {"check", "install", "save aslr", "stage aslr", "save governor",
                      "stage governor"}
        /\ stage' = After(stage)
    BY DEF CheckRoot, InstallHandler, SaveAslr, StageAslr, SaveGovernor, StageGovernor,
           Save, StageSetting
  <2> QED
    BY <2>1 DEF SetupStages
<1>3. /\ buffer' \in Setting \cup {"table", "empty"}
      /\ saved' \subseteq Setting /\ handler' \in {"default", "cleanup"}
  <2>1. /\ buffer \in Setting \cup {"table", "empty"}
        /\ saved \subseteq Setting /\ handler \in {"default", "cleanup"}
    BY DEF IInv, TypeOK
  <2>2. CASE CheckRoot \/ InstallHandler
    BY <2>1, <2>2 DEF CheckRoot, InstallHandler
  <2>3. CASE SaveAslr \/ SaveGovernor
    BY <2>1, <2>3 DEF SaveAslr, SaveGovernor, Save
  <2>4. CASE StageAslr \/ StageGovernor
    BY <2>1, <2>4 DEF StageAslr, StageGovernor, StageSetting
  <2> QED
    BY <2>2, <2>3, <2>4
<1>4. TypeOK'
  BY <1>1, <1>2, <1>3, MainTyped DEF IInv, TypeOK, Stage
<1>5. PoolInv'
  BY <1>1, PoolKept DEF IInv
<1>6. NoPool' /\ late' = {}
  BY <1>1, <1>2 DEF IInv, PhaseInv, BufferInv, NoPool, SetupStages
<1>7. SettingsInv' /\ BufferInv' /\ buffer' # "table"
  <2>1. CASE CheckRoot
    BY <1>6, <2>1 DEF IInv, SettingsInv, BufferInv, AllOriginal, CheckRoot
  <2>2. CASE InstallHandler
    BY <1>6, <2>2 DEF IInv, SettingsInv, BufferInv, AllOriginal, InstallHandler
  <2>3. CASE SaveAslr \/ SaveGovernor
    BY <1>6, <2>3
    DEF IInv, SettingsInv, BufferInv, AllOriginal, SaveAslr, SaveGovernor, Save
  <2>4. CASE StageAslr
    BY <1>2, <1>6, <2>4
    DEF IInv, SettingsInv, BufferInv, AllOriginal, StageAslr, StageSetting
  <2>5. CASE StageGovernor
    BY <1>2, <1>6, <2>5
    DEF IInv, SettingsInv, BufferInv, AllOriginal, StageGovernor, StageSetting
  <2> QED
    BY <2>1, <2>2, <2>3, <2>4, <2>5
<1>8. PhaseInv'
  BY <1>1, <1>2, <1>7 DEF IInv, PhaseInv, SetupStages
<1> QED
  BY <1>4, <1>5, <1>7, <1>8 DEF IInv

(***************************************************************************)
(* A file that is closed stages the setting that was written to it.        *)
(***************************************************************************)
LEMMA CloseSettingInv ==
  ASSUME IInv, CloseSetting
  PROVE  IInv'
<1> USE Order DEF Setting
<1>1. /\ UNCHANGED <<task, on, results, pending, tainted, how, saved, handler, late,
                     interrupts>>
      /\ buffer' = "empty"
      /\ settings' = [s \in Setting |-> IF s = buffer THEN "staged" ELSE settings[s]]
      /\ published' = (published \/ buffer = "table")
  BY DEF CloseSetting, Close, poolVars
<1>2. \/ /\ stage = "close aslr" /\ buffer = "aslr" /\ stage' = "save governor"
      \/ /\ stage = "close governor" /\ buffer = "governor" /\ stage' = "ready"
  BY DEF CloseSetting, IInv, BufferInv
<1>3. stage \in SetupStages /\ stage' \in SetupStages /\ published' = published
  BY <1>1, <1>2 DEF SetupStages, IInv, TypeOK
<1>4. settings' \in [Setting -> {"original", "staged"}]
  BY <1>1 DEF IInv, TypeOK
<1>5. TypeOK'
  BY <1>1, <1>3, <1>4, MainTyped DEF IInv, TypeOK, Stage
<1>6. PoolInv'
  BY <1>1, PoolKept DEF IInv
<1>7. PhaseInv'
  <2>1. /\ \A t \in Task : task[t] = "waiting"
        /\ \A w \in Workers : on[w] = NULL
        /\ results = <<>> /\ pending = {} /\ tainted = {} /\ ~published
    BY <1>3 DEF IInv, PhaseInv
  <2>2. buffer' # "table" /\ stage' \notin {"processing", "close table"}
    BY <1>1, <1>2
  <2>3. UNCHANGED <<task, on, results, pending, tainted>>
    BY <1>1
  <2>4. ~published'
    BY <1>3, <2>1, Zenon
  <2>5. /\ \A t \in Task : task'[t] = "waiting"
        /\ \A w \in Workers : on'[w] = NULL
        /\ results' = <<>> /\ pending' = {} /\ tainted' = {}
    BY <2>1, <2>3
  <2> QED
    BY <2>2, <2>4, <2>5, Zenon DEF PhaseInv
<1>8. SettingsInv'
  BY <1>1, <1>2, <1>4 DEF IInv, TypeOK, SettingsInv, AllOriginal
<1>9. BufferInv'
  BY <1>1, <1>2 DEF IInv, BufferInv
<1> QED
  BY <1>5, <1>6, <1>7, <1>8, <1>9 DEF IInv

(***************************************************************************)
(* An exception ends the program as failed, which promises nothing.        *)
(***************************************************************************)
LEMMA RaiseInv ==
  ASSUME IInv, SetupRaises \/ CollectRaises \/ ProcessRaises
  PROVE  IInv'
<1>1. /\ UNCHANGED <<task, on, results, pending, tainted, published, interrupts,
                     settings, saved, handler>>
      /\ stage' = "leaving" /\ how' = "failed" /\ buffer' = "empty"
      /\ late' = late
      /\ stage \in {"check", "save aslr", "stage aslr", "close aslr",
                    "save governor", "stage governor", "close governor",
                    "measuring", "processing", "close table"}
  BY DEF SetupRaises, CollectRaises, ProcessRaises, Raise, poolVars
<1>2. TypeOK'
  BY <1>1, MainTyped DEF IInv, TypeOK, Stage
<1>3. PoolInv'
  BY <1>1, PoolKept DEF IInv
<1>4. PhaseInv'
  BY <1>1 DEF IInv, PhaseInv, SetupStages
<1>5. SettingsInv'
  BY <1>1 DEF IInv, SettingsInv, AllOriginal
<1>6. BufferInv'
  BY <1>1 DEF IInv, BufferInv, Setting
<1> QED
  BY <1>2, <1>3, <1>4, <1>5, <1>6 DEF IInv

(***************************************************************************)
(* The table is written when all results are there, and cleanup begins     *)
(* when its file is closed.                                                *)
(***************************************************************************)
LEMMA PublishInv ==
  ASSUME IInv, WriteTable \/ Publish
  PROVE  IInv'
<1>1. /\ UNCHANGED <<task, on, results, pending, tainted, interrupts, saved,
                     handler, late>>
      /\ \/ /\ stage = "processing" /\ stage' = "close table"
            /\ buffer = "empty" /\ buffer' = "table"
            /\ UNCHANGED <<settings, how, published>>
         \/ /\ stage = "close table" /\ stage' = "restore aslr"
            /\ buffer = "table" /\ buffer' = "empty"
            /\ how' = "completed" /\ published' = TRUE
            /\ settings' = [s \in Setting |-> IF s = buffer THEN "staged"
                                               ELSE settings[s]]
  BY DEF WriteTable, Publish, Close, poolVars, IInv, BufferInv
<1>2. settings' = settings
  BY <1>1 DEF IInv, TypeOK, Setting
<1>3. TypeOK'
  BY <1>1, <1>2, MainTyped DEF IInv, TypeOK, Stage
<1>4. PoolInv'
  BY <1>1, PoolKept DEF IInv
<1>5. PhaseInv'
  <2>1. /\ Len(results) = TaskCount /\ tainted = {} /\ pending = {}
        /\ stage' \notin SetupStages
        /\ stage = "processing" => ~published
    BY <1>1 DEF IInv, PhaseInv, SetupStages
  <2>2. /\ Len(results') = TaskCount /\ tainted' = {} /\ pending' = {}
        /\ stage' \notin SetupStages \cup {"measuring", "processing"}
    BY <1>1, <2>1
  <2>3. CASE stage = "processing"
    <3>1. ~published'
      BY <1>1, <2>1, <2>3, Zenon
    <3> QED
      BY <2>2, <3>1, Zenon DEF PhaseInv
  <2>4. CASE stage = "close table"
    <3>1. stage' = "restore aslr"
      BY <1>1, <2>4
    <3> QED
      BY <2>2, <3>1, Zenon DEF PhaseInv
  <2> QED
    BY <1>1, <2>3, <2>4
<1>6. SettingsInv'
  BY <1>1, <1>2 DEF IInv, SettingsInv, AllOriginal, Staged
<1>7. BufferInv'
  BY <1>1 DEF IInv, BufferInv, Setting
<1> QED
  BY <1>3, <1>4, <1>5, <1>6, <1>7 DEF IInv

(***************************************************************************)
(* When all results are there every task is done, so none is running.      *)
(***************************************************************************)
LEMMA AllDone ==
  ASSUME IInv, Len(results) = TaskCount
  PROVE  RunningTasks = {} /\ \A t \in Task : task[t] = "done"
BY DEF IInv, PoolInv, RunningTasks, Task

(***************************************************************************)
(* What is put back was saved, and staged settings are saved ones.         *)
(***************************************************************************)
LEMMA PutBackFacts ==
  ASSUME IInv, NEW S \in SUBSET Setting, PutBack(S)
  PROVE  /\ settings' \in [Setting -> {"original", "staged"}]
         /\ \A s \in Setting : settings'[s] \in {settings[s], "original"}
         /\ \A s \in S : settings'[s] = "original"
         /\ tainted' \subseteq Task
         /\ Len(results) = TaskCount => tainted' = tainted
<1>1. settings \in [Setting -> {"original", "staged"}] /\ tainted \subseteq Task
  BY DEF IInv, TypeOK
<1>2. \A s \in Setting : settings[s] = "staged" => s \in saved
  BY DEF IInv, SettingsInv
<1>3. Len(results) = TaskCount => RunningTasks = {}
  BY AllDone
<1> QED
  BY <1>1, <1>2, <1>3 DEF PutBack, RunningTasks

(***************************************************************************)
(* cleanup.                                                                *)
(***************************************************************************)
LEMMA CleanupInv ==
  ASSUME IInv, RestoreAslr \/ RestoreGovernor \/ RestoreHandler
  PROVE  IInv'
<1> USE Order DEF Setting
<1>1. UNCHANGED <<task, on, results, pending, published, how, interrupts, saved,
                  buffer, late>>
  BY DEF RestoreAslr, RestoreGovernor, RestoreHandler, Restore, poolVars
<1>2. stage \in {"restore aslr", "restore governor", "restore handler"}
      /\ stage' \in {"restore governor", "restore handler", "leaving"}
  BY DEF RestoreAslr, RestoreGovernor, RestoreHandler, Restore
<1>3. /\ settings' \in [Setting -> {"original", "staged"}]
      /\ tainted' \subseteq Task
      /\ Len(results) = TaskCount => tainted' = tainted
      /\ handler' \in {"default", "cleanup"}
  BY PutBackFacts DEF IInv, TypeOK, RestoreAslr, RestoreGovernor, RestoreHandler, Restore
<1>4. TypeOK'
  BY <1>1, <1>2, <1>3, MainTyped DEF IInv, TypeOK, Stage
<1>5. PoolInv'
  BY <1>1, PoolKept DEF IInv
<1>6. PhaseInv'
  BY <1>1, <1>2, <1>3 DEF IInv, PhaseInv, SetupStages
<1>7. SettingsInv'
  <2>1. CASE RestoreAslr
    <3>1. /\ \A s \in Setting : settings'[s] \in {settings[s], "original"}
          /\ settings'["aslr"] = "original"
      BY <2>1, PutBackFacts DEF RestoreAslr, Restore
    <3> QED
      BY <2>1, <3>1 DEF IInv, SettingsInv, AllOriginal, RestoreAslr, Restore
  <2>2. CASE RestoreGovernor
    <3>1. /\ \A s \in Setting : settings'[s] \in {settings[s], "original"}
          /\ settings'["governor"] = "original"
      BY <2>2, PutBackFacts DEF RestoreGovernor, Restore
    <3> QED
      BY <2>2, <3>1 DEF IInv, SettingsInv, AllOriginal, RestoreGovernor, Restore
  <2>3. CASE RestoreHandler
    BY <2>3 DEF IInv, SettingsInv, AllOriginal, RestoreHandler
  <2> QED
    BY <2>1, <2>2, <2>3
<1>8. BufferInv'
  BY <1>1, <1>2 DEF IInv, BufferInv, NoPool, SetupStages
<1> QED
  BY <1>4, <1>5, <1>6, <1>7, <1>8 DEF IInv

------------------------------------------------------------------------------
(***************************************************************************)
(* Ctrl-C: the main process cleans up, or has nothing to clean up.         *)
(***************************************************************************)
LEMMA InterruptInv ==
  ASSUME IInv, Interrupt
  PROVE  IInv'
<1>1. /\ UNCHANGED <<settings, saved, handler, results, published, buffer, late,
                     task, on, tainted>>
      /\ stage' = IF handler = "cleanup" THEN "restore aslr" ELSE "leaving"
      /\ how' = "interrupted"
      /\ pending' = {w \in Workers : on[w] # NULL} /\ stage # "exited"
      /\ interrupts < MaxInterrupts /\ interrupts' = interrupts + 1
  BY DEF Interrupt
<1>2. interrupts' \in 0 .. MaxInterrupts
  <2>1. interrupts \in 0 .. MaxInterrupts /\ MaxInterrupts \in Nat
    BY HarnessAssumption DEF IInv, TypeOK
  <2>2. interrupts < MaxInterrupts /\ interrupts' = interrupts + 1
    BY DEF Interrupt
  <2> QED
    BY <2>1, <2>2
<1>3. stage' \in Stage
  BY <1>1 DEF Stage
<1>4. TypeOK'
  <2>1. RunningTasks' = {t \in Task : \E w \in Workers : on'[w] = t}
    BY <1>1 DEF IInv, TypeOK, RunningTasks
  <2> QED
    BY <1>1, <1>2, <1>3, <2>1 DEF IInv, TypeOK
<1>5. PoolInv'
  BY <1>1, PoolKept DEF IInv
<1>6. PhaseInv'
  BY <1>1 DEF IInv, PhaseInv, SetupStages
<1>7. SettingsInv'
  BY <1>1 DEF IInv, TypeOK, SettingsInv, AllOriginal
<1>8. NoPool => NoPool'
  BY <1>1 DEF NoPool
<1>9. BufferInv'
  BY <1>1, <1>8 DEF IInv, BufferInv
<1> QED
  BY <1>4, <1>5, <1>6, <1>7, <1>9 DEF IInv

(***************************************************************************)
(* The pool starts with idle workers and ends without any.                 *)
(***************************************************************************)
LEMMA PoolEndsInv ==
  ASSUME IInv, StartPool \/ EndPool \/ Exit
  PROVE  PoolInv' /\ on' \in [Workers -> Task \cup {0, NULL}]
         /\ RunningTasks' = {t \in Task : \E w \in Workers : on'[w] = t}
<1>1. /\ UNCHANGED <<results, task>>
      /\ \/ on' = [w \in Workers |-> 0]
         \/ on' = [w \in Workers |-> NULL]
  BY DEF StartPool, EndPool, Exit
<1>2. RunningTasks = {}
  <2>1. CASE StartPool
    BY <2>1 DEF StartPool, IInv, PhaseInv, SetupStages, RunningTasks
  <2>2. CASE EndPool
    BY <2>2, AllDone DEF EndPool
  <2>3. CASE Exit
    BY <2>3 DEF Exit
  <2> QED
    BY <2>1, <2>2, <2>3
<1>3. 0 \notin Task /\ NULL \notin Task
  BY HarnessAssumption DEF Task
<1>4. \A w \in Workers : on'[w] \notin Task /\ on'[w] \in {0, NULL}
  BY <1>1, <1>3
<1>5. on' \in [Workers -> Task \cup {0, NULL}]
  BY <1>1
<1>6. RunningTasks' = {} /\ {t \in Task : \E w \in Workers : on'[w] = t} = {}
  BY <1>1, <1>2, <1>4 DEF RunningTasks
<1>7. PoolInv'
  BY <1>1, <1>4 DEF IInv, PoolInv
<1> QED
  BY <1>5, <1>6, <1>7

(***************************************************************************)
(* The measurements begin and end with the machine staged.                 *)
(***************************************************************************)
LEMMA MeasuringInv ==
  ASSUME IInv, StartPool \/ EndPool
  PROVE  IInv'
<1>1. /\ UNCHANGED <<settings, saved, handler, how, results, published, buffer,
                     late, task, pending, tainted, interrupts>>
      /\ \/ stage = "ready" /\ stage' = "measuring"
         \/ stage = "measuring" /\ stage' = "processing" /\ Len(results) = TaskCount
  BY DEF StartPool, EndPool
<1>2. stage' \in Stage
  BY <1>1 DEF Stage
<1>3. TypeOK'
  BY <1>1, <1>2, PoolEndsInv DEF IInv, TypeOK
<1>4. PhaseInv'
  BY <1>1 DEF IInv, PhaseInv, SetupStages
<1>5. SettingsInv'
  BY <1>1 DEF IInv, SettingsInv, AllOriginal, Staged, Setting
<1>6. BufferInv'
  BY <1>1 DEF IInv, BufferInv, Setting
<1> QED
  BY <1>3, <1>4, <1>5, <1>6, PoolEndsInv DEF IInv

(***************************************************************************)
(* A file still open is closed on the way out: the setting in its buffer   *)
(* is staged and the other one is as it was found.                         *)
(***************************************************************************)
LEMMA ExitInv ==
  ASSUME IInv, Exit
  PROVE  IInv'
<1>1. /\ UNCHANGED <<saved, handler, results, task, pending, tainted, interrupts>>
      /\ stage = "leaving" /\ stage' = "exited"
      /\ on' = [w \in Workers |-> NULL] /\ buffer' = "empty"
      /\ pending = {} /\ late = {}
  BY DEF Exit, Close, IInv, BufferInv
<1>2. NoPool => NoPool'
  BY <1>1 DEF NoPool
<1>3. CASE Close /\ late' = late \cup (Setting \cap {buffer}) /\ UNCHANGED how
  <2>1. /\ settings' = [s \in Setting |-> IF s = buffer THEN "staged"
                                           ELSE settings[s]]
        /\ published' = (published \/ buffer = "table")
        /\ late' = Setting \cap {buffer} /\ how' = how
    BY <1>1, <1>3 DEF Close
  <2>2. /\ settings' \in [Setting -> {"original", "staged"}]
        /\ \A s \in Setting : settings'[s] = IF s = buffer THEN "staged"
                                              ELSE settings[s]
    BY <2>1 DEF IInv, TypeOK
  <2>3. TypeOK'
    BY <1>1, <2>1, <2>2, PoolEndsInv DEF IInv, TypeOK, Stage
  <2>4. PhaseInv'
    BY <1>1, <2>1 DEF IInv, PhaseInv, SetupStages
  <2>5. SettingsInv'
    BY <1>1, <2>1, <2>2 DEF IInv, SettingsInv, BufferInv, AllOriginal
  <2>6. BufferInv'
    <3>1. ASSUME late' # {} PROVE buffer \in Setting /\ late' = {buffer}
      BY <2>1, <3>1
    <3>2. stage \notin SetupStages /\ "empty" \notin Setting
      BY <1>1 DEF SetupStages, Setting
    <3> QED
      BY <1>1, <1>2, <2>1, <3>1, <3>2 DEF IInv, BufferInv
  <2> QED
    BY <2>3, <2>4, <2>5, <2>6, PoolEndsInv DEF IInv
<1>4. CASE how' = "failed" /\ UNCHANGED <<settings, published, late>>
  <2>1. TypeOK'
    BY <1>1, <1>4, PoolEndsInv DEF IInv, TypeOK, Stage
  <2>2. PhaseInv' /\ SettingsInv'
    BY <1>1, <1>4 DEF IInv, PhaseInv, SetupStages, SettingsInv
  <2>3. BufferInv'
    BY <1>1, <1>4 DEF BufferInv, Setting
  <2> QED
    BY <2>1, <2>2, <2>3, PoolEndsInv DEF IInv
<1> QED
  BY <1>3, <1>4 DEF Exit

(***************************************************************************)
(* The results are taken in order, each from a task that is done.          *)
(***************************************************************************)
LEMMA CollectInv ==
  ASSUME IInv, Collect
  PROVE  IInv'
<1> DEFINE n == Len(results)
<1>1. /\ UNCHANGED <<settings, stage, saved, handler, how, published, buffer, late,
                     task, on, pending, tainted, interrupts>>
      /\ stage = "measuring" /\ n < TaskCount /\ task[n + 1] = "done"
      /\ results' = Append(results, n + 1)
  BY DEF Collect, poolVars
<1>2. results \in Seq(Task) /\ n \in Nat /\ TaskCount \in Nat
  BY HarnessAssumption DEF IInv, TypeOK
<1>3. n + 1 \in Task
  BY <1>1, <1>2 DEF Task
<1>4. /\ results' \in Seq(Task) /\ Len(results') = n + 1
      /\ results'[n + 1] = n + 1
      /\ \A i \in 1 .. n : results'[i] = results[i]
  BY <1>1, <1>2, <1>3
<1>5. TypeOK'
  BY <1>1, <1>2, <1>4 DEF IInv, TypeOK, RunningTasks
<1>6. \A i \in 1 .. n + 1 : results'[i] = i /\ task[i] = "done"
  <2>1. \A i \in 1 .. n + 1 : i \in 1 .. n \/ i = n + 1
    BY <1>2
  <2> QED
    BY <1>1, <1>4, <2>1 DEF IInv, PoolInv
<1>7. PoolInv'
  BY <1>1, <1>4, <1>6 DEF IInv, PoolInv
<1>8. PhaseInv'
  BY <1>1 DEF IInv, PhaseInv, BufferInv, SetupStages
<1>9. SettingsInv' /\ BufferInv'
  BY <1>1 DEF IInv, SettingsInv, AllOriginal, Staged, BufferInv, NoPool
<1> QED
  BY <1>5, <1>7, <1>8, <1>9 DEF IInv

------------------------------------------------------------------------------
\* What TypeOK says of the pool.
PoolTyped ==
    /\ task \in [Task -> {"waiting", "running", "done", "failed", "stopped"}]
    /\ on \in [Workers -> Task \cup {0, NULL}]
    /\ RunningTasks = {t \in Task : \E w \in Workers : on[w] = t}

(***************************************************************************)
(* A worker that takes the task at the head of the queue is its only one,  *)
(* and no task before it is left.                                          *)
(***************************************************************************)
LEMMA TakenInv ==
  ASSUME IInv, NEW w \in Workers, NEW t \in Task, on[w] = 0, IsNext(t),
         task' = [task EXCEPT ![t] = "running"], on' = [on EXCEPT ![w] = t],
         results' = results
  PROVE  PoolTyped' /\ PoolInv'
<1>1. PoolTyped /\ PoolInv /\ 0 \notin Task /\ TaskCount \in Nat
  BY HarnessAssumption DEF IInv, TypeOK, PoolTyped, Task
<1>2. task[t] = "waiting" /\ \A u \in 1 .. t - 1 : task[u] # "waiting"
  BY DEF IsNext
<1>3. /\ task' \in [Task -> {"waiting", "running", "done", "failed", "stopped"}]
      /\ on' \in [Workers -> Task \cup {0, NULL}]
      /\ on'[w] = t /\ \A v \in Workers : v # w => on'[v] = on[v]
      /\ task'[t] = "running" /\ \A u \in Task : u # t => task'[u] = task[u]
  BY <1>1 DEF PoolTyped
<1>4. \A u \in Task : task[u] = "running" <=> \E v \in Workers : on[v] = u
  BY <1>1 DEF PoolTyped, RunningTasks
<1>5. \A u \in Task : task'[u] = "running" <=> \E v \in Workers : on'[v] = u
  <2> SUFFICES ASSUME NEW u \in Task
               PROVE  task'[u] = "running" <=> \E v \in Workers : on'[v] = u
    OBVIOUS
  <2>1. CASE u = t
    BY <1>3, <2>1
  <2>2. CASE u # t
    BY <1>1, <1>3, <1>4, <2>2
  <2> QED
    BY <2>1, <2>2
<1>6. PoolTyped'
  BY <1>3, <1>5 DEF PoolTyped, RunningTasks
<1>7. \A v, x \in Workers : on'[v] \in Task /\ on'[v] = on'[x] => v = x
  BY <1>1, <1>2, <1>3, <1>4 DEF PoolInv
<1>8. ASSUME NEW i \in Task, NEW j \in Task, i < j, task'[j] # "waiting"
      PROVE  task'[i] # "waiting"
  <2>1. CASE j = t
    <3>1. i \in 1 .. t - 1
      BY <1>1, <1>8, <2>1 DEF Task
    <3> QED
      BY <1>2, <1>3, <3>1
  <2>2. CASE j # t
    BY <1>1, <1>3, <1>8, <2>2 DEF PoolInv
  <2> QED
    BY <2>1, <2>2
<1>9. \A i \in 1 .. Len(results') : results'[i] = i /\ task'[i] = "done"
  <2>1. Len(results) \in Nat /\ Len(results) <= TaskCount
    BY DEF IInv, TypeOK
  <2>2. \A i \in 1 .. Len(results) : i \in Task
    BY <1>1, <2>1 DEF Task
  <2> QED
    BY <1>1, <1>2, <1>3, <2>2 DEF PoolInv
<1>10. PoolInv'
  BY <1>7, <1>8, <1>9 DEF PoolInv
<1> QED
  BY <1>6, <1>10

(***************************************************************************)
(* A task that ends frees its worker and runs nowhere else.                *)
(***************************************************************************)
LEMMA FreedInv ==
  ASSUME IInv, NEW w \in Workers, on[w] \in Task,
         NEW outcome \in {"done", "failed", "stopped"},
         task' = [task EXCEPT ![on[w]] = outcome], on' = [on EXCEPT ![w] = 0],
         results' = results
  PROVE  PoolTyped' /\ PoolInv'
<1> DEFINE t == on[w]
<1>1. PoolTyped /\ PoolInv /\ 0 \notin Task /\ TaskCount \in Nat /\ t \in Task
  BY HarnessAssumption DEF IInv, TypeOK, PoolTyped, Task
<1>2. \A u \in Task : task[u] = "running" <=> \E v \in Workers : on[v] = u
  BY <1>1 DEF PoolTyped, RunningTasks
<1>3. /\ task' \in [Task -> {"waiting", "running", "done", "failed", "stopped"}]
      /\ on' \in [Workers -> Task \cup {0, NULL}]
      /\ on'[w] = 0 /\ \A v \in Workers : v # w => on'[v] = on[v]
      /\ task'[t] = outcome /\ \A u \in Task : u # t => task'[u] = task[u]
  BY <1>1 DEF PoolTyped
<1>4. task[t] = "running"
  BY <1>1, <1>2
<1>5. \A v \in Workers : on[v] = t => v = w
  BY <1>1 DEF PoolInv
<1> HIDE DEF t
<1>6. \A u \in Task : task'[u] = "running" <=> \E v \in Workers : on'[v] = u
  <2> SUFFICES ASSUME NEW u \in Task
               PROVE  task'[u] = "running" <=> \E v \in Workers : on'[v] = u
    OBVIOUS
  <2>1. CASE u = t
    BY <1>1, <1>3, <1>5, <2>1
  <2>2. CASE u # t
    BY <1>1, <1>2, <1>3, <2>2 DEF t
  <2> QED
    BY <2>1, <2>2
<1>7. PoolTyped'
  BY <1>3, <1>6 DEF PoolTyped, RunningTasks
<1>8. \A v, x \in Workers : on'[v] \in Task /\ on'[v] = on'[x] => v = x
  BY <1>1, <1>3 DEF PoolInv
<1>9. \A i, j \in Task : i < j /\ task'[j] # "waiting" => task'[i] # "waiting"
  BY <1>1, <1>3, <1>4 DEF PoolInv
<1>10. \A i \in 1 .. Len(results') : results'[i] = i /\ task'[i] = "done"
  <2>1. Len(results) \in Nat /\ Len(results) <= TaskCount
    BY DEF IInv, TypeOK
  <2>2. \A i \in 1 .. Len(results) : i \in Task
    BY <1>1, <2>1 DEF Task
  <2> QED
    BY <1>1, <1>3, <1>4, <2>2 DEF PoolInv
<1>11. PoolInv'
  BY <1>8, <1>9, <1>10 DEF PoolInv
<1> QED
  BY <1>7, <1>11

(***************************************************************************)
(* A step of a worker that touches no setting.                             *)
(***************************************************************************)
LEMMA PoolStepInv ==
  ASSUME IInv, NEW w \in Workers, Take(w) \/ Finish(w)
  PROVE  IInv'
<1>1. UNCHANGED <<mainVars, settings, pending, interrupts>>
  BY DEF Take, Finish
<1>2. PoolTyped' /\ PoolInv'
  <2>1. CASE Take(w)
    BY <2>1, TakenInv DEF Take, mainVars
  <2>2. CASE Finish(w)
    BY <2>2, FreedInv DEF Finish, mainVars
  <2> QED
    BY <2>1, <2>2
<1>3. stage \notin SetupStages
  <2>1. on[w] # NULL
    BY HarnessAssumption DEF Take, Finish, Task
  <2> QED
    BY <2>1 DEF IInv, PhaseInv
<1>4. tainted' \subseteq Task
  BY DEF Take, Finish, IInv, TypeOK
<1>5. Staged \/ Len(results) = TaskCount => tainted' = tainted
  <2>1. ASSUME Take(w), Len(results) = TaskCount PROVE FALSE
    <3>1. \A t \in Task : task[t] = "done"
      BY <2>1, AllDone
    <3> QED
      BY <2>1, <3>1 DEF Take, IsNext
  <2> QED
    BY <2>1 DEF Take, Finish
<1>6. TypeOK'
  BY <1>1, <1>2, <1>4 DEF IInv, TypeOK, PoolTyped, mainVars
<1>7. PhaseInv'
  BY <1>1, <1>3, <1>5 DEF IInv, PhaseInv, SettingsInv, mainVars
<1>8. SettingsInv'
  BY <1>1 DEF IInv, SettingsInv, AllOriginal, Staged, mainVars
<1>9. ~NoPool
  BY HarnessAssumption DEF Take, Finish, NoPool, Task
<1>10. BufferInv'
  BY <1>1, <1>9 DEF IInv, BufferInv, mainVars
<1> QED
  BY <1>2, <1>6, <1>7, <1>8, <1>10 DEF IInv

(***************************************************************************)
(* A worker's handler puts everything back, when the main process is on    *)
(* its way out already.                                                    *)
(***************************************************************************)
LEMMA WorkerInterruptedInv ==
  ASSUME IInv, NEW w \in Workers, WorkerInterrupted(w)
  PROVE  IInv'
<1>1. UNCHANGED <<mainVars, interrupts>> /\ pending' \subseteq Workers
  BY DEF WorkerInterrupted, IInv, TypeOK
<1>2. PoolTyped' /\ PoolInv'
  <2>1. CASE on[w] \in Task
    BY <2>1, FreedInv DEF WorkerInterrupted, mainVars
  <2>2. CASE on[w] \notin Task
    <3>1. on' = [on EXCEPT ![w] = NULL] /\ task' = task /\ results' = results
      BY <2>2 DEF WorkerInterrupted, mainVars
    <3>2. NULL \notin Task
      BY HarnessAssumption DEF Task
    <3>3. PoolTyped /\ PoolInv
      BY DEF IInv, TypeOK, PoolTyped
    <3>4. on' \in [Workers -> Task \cup {0, NULL}] /\ on'[w] = NULL
          /\ \A v \in Workers : v # w => on'[v] = on[v]
      BY <3>1, <3>3 DEF PoolTyped
    <3>5. {u \in Task : \E v \in Workers : on'[v] = u}
            = {u \in Task : \E v \in Workers : on[v] = u}
      BY <2>2, <3>2, <3>4
    <3>6. PoolTyped'
      BY <3>1, <3>3, <3>4, <3>5 DEF PoolTyped, RunningTasks
    <3>7. PoolInv'
      BY <3>1, <3>2, <3>3, <3>4 DEF PoolInv
    <3> QED
      BY <3>6, <3>7
  <2> QED
    BY <2>1, <2>2
<1>3. stage \notin SetupStages \cup {"measuring", "processing", "close table"}
  BY DEF WorkerInterrupted, IInv, PhaseInv
<1>4. /\ settings' \in [Setting -> {"original", "staged"}]
      /\ \A s \in Setting : settings'[s] = "original"
      /\ tainted' \subseteq Task
      /\ Len(results) = TaskCount => tainted' = tainted
  BY PutBackFacts DEF WorkerInterrupted
<1>5. TypeOK'
  BY <1>1, <1>2, <1>4 DEF IInv, TypeOK, PoolTyped, mainVars
<1>6. PhaseInv'
  BY <1>1, <1>3, <1>4 DEF IInv, PhaseInv, mainVars
<1>7. buffer \notin Setting /\ late = {}
  BY DEF WorkerInterrupted, IInv, BufferInv, NoPool
<1>8. SettingsInv'
  BY <1>1, <1>3, <1>4, <1>7
  DEF IInv, SettingsInv, AllOriginal, Staged, mainVars, SetupStages, Setting
<1>9. BufferInv'
  BY <1>1, <1>7 DEF IInv, BufferInv, mainVars
<1> QED
  BY <1>2, <1>5, <1>6, <1>8, <1>9 DEF IInv

(***************************************************************************)
(* Every step of the main process, of the pool and of Ctrl-C.              *)
(***************************************************************************)
LEMMA NextInv == IInv /\ [Next \/ Terminated]_vars => IInv'
<1> SUFFICES ASSUME IInv, [Next \/ Terminated]_vars PROVE IInv'
  OBVIOUS
<1>1. CASE Main
  BY <1>1, SetupInv, CloseSettingInv, RaiseInv, MeasuringInv, CollectInv,
     PublishInv, CleanupInv, ExitInv DEF Main
<1>2. CASE Pool
  BY <1>2, PoolStepInv, WorkerInterruptedInv DEF Pool
<1>3. CASE Interrupt
  BY <1>3, InterruptInv
<1>4. CASE UNCHANGED vars
  <2>1. UNCHANGED <<task, on, results, interrupts, stage, settings, saved, handler,
                    how, pending, tainted, published, buffer, late>>
    BY <1>4 DEF vars, mainVars, poolVars
  <2>2. TypeOK' /\ PoolInv'
    BY <2>1, MainTyped, PoolKept DEF IInv, TypeOK
  <2>3. PhaseInv'
    BY <2>1 DEF IInv, PhaseInv
  <2>4. SettingsInv' /\ BufferInv'
    BY <2>1 DEF IInv, SettingsInv, AllOriginal, Staged, BufferInv, NoPool
  <2> QED
    BY <2>2, <2>3, <2>4 DEF IInv
<1> QED
  BY <1>1, <1>2, <1>3, <1>4 DEF Next, Terminated

------------------------------------------------------------------------------
(***************************************************************************)
(* The invariant holds in every state of the program, the pool and the     *)
(* machine's settings.                                                     *)
(***************************************************************************)
THEOREM Invariance == Spec => []IInv
BY InitInv, NextInv, PTL DEF Spec

(***************************************************************************)
(* Every state is typed, and the running tasks are those that have a       *)
(* worker (parallel.py).                                                   *)
(***************************************************************************)
THEOREM TypeCorrect == Spec => []TypeOK
<1>1. IInv => TypeOK
  BY DEF IInv
<1> QED
  BY <1>1, Invariance, PTL

(***************************************************************************)
(* However often Ctrl-C strikes, at whatever statement, a program that     *)
(* ends by it or by itself has restored the machine, but for the one       *)
(* setting that setup had written and not closed (setup, cleanup).         *)
(***************************************************************************)
THEOREM MachineRestored == Spec => []SettingsRestored
<1>1. IInv => SettingsRestored
  BY DEF IInv, SettingsInv, BufferInv, NoPool, SettingsRestored
<1> QED
  BY <1>1, Invariance, PTL

(***************************************************************************)
(* A table that is written is complete, in order and measured on a staged  *)
(* machine (process_performance).                                          *)
(***************************************************************************)
THEOREM TablesSound == Spec => []PublishedSound
<1>1. IInv => PublishedSound
  <2> SUFFICES ASSUME IInv, published PROVE PublishedSound
    BY DEF PublishedSound
  <2>1. Len(results) = TaskCount /\ tainted = {}
    BY DEF IInv, PhaseInv
  <2>2. \A t \in Task : task[t] = "done"
    BY <2>1, AllDone
  <2>3. results \in Seq(Task) /\ \A t \in Task : results[t] = t
    BY <2>1 DEF IInv, TypeOK, PoolInv, Task
  <2>4. DOMAIN results = Task
    BY <2>1, <2>3 DEF Task
  <2>5. results = [t \in Task |-> results[t]]
    BY <2>3, <2>4
  <2> QED
    BY <2>1, <2>2, <2>3, <2>5 DEF PublishedSound
<1> QED
  BY <1>1, Invariance, PTL

(***************************************************************************)
(* Tasks of one core are as many apart as there are cores.                 *)
(***************************************************************************)
LEMMA CoresApart ==
  ASSUME NEW i \in Task, NEW j \in Task, i < j, CoreOf(i) = CoreOf(j)
  PROVE  j - i >= CoreCount
<1>1. CoreCount \in Nat /\ CoreCount > 0 /\ i \in Nat /\ j \in Nat /\ i > 0
  BY HarnessAssumption DEF Task
<1> DEFINE p == (i - 1) \div CoreCount
           q == (j - 1) \div CoreCount
<1>2. /\ p \in Int /\ q \in Int
      /\ i - 1 = CoreCount * p + CoreOf(i)
      /\ j - 1 = CoreCount * q + CoreOf(j)
      /\ CoreOf(i) \in Int
  BY <1>1 DEF CoreOf
<1> HIDE DEF p, q
<1>3. j - i = CoreCount * q - CoreCount * p
  BY <1>1, <1>2
<1>4. CoreCount * q - CoreCount * p = CoreCount * (q - p)
  BY <1>1, <1>2
<1>5. q - p > 0
  <2> SUFFICES ASSUME q - p <= 0 PROVE FALSE
    BY <1>2
  <2>1. CoreCount * (q - p) <= 0
    BY <1>1, <1>2
  <2> QED
    BY <1>1, <1>3, <1>4, <2>1
<1>6. CoreCount * (q - p) >= CoreCount
  BY <1>1, <1>2, <1>5
<1> QED
  BY <1>3, <1>4, <1>6

(***************************************************************************)
(* Two measurements share a core only after one between them has ended:    *)
(* otherwise all from the first to the second would be running, more than  *)
(* there are workers (parallel_execute).                                   *)
(***************************************************************************)
THEOREM SharingNeedsOvertaking == Spec => []SharedOnlyAfterOvertaking
<1>1. IInv => SharedOnlyAfterOvertaking
  <2> SUFFICES ASSUME IInv, NEW i \in RunningTasks, NEW j \in RunningTasks, i < j,
                      CoreOf(i) = CoreOf(j),
                      \A m \in i + 1 .. j - 1 : task[m] \in {"waiting", "running"}
               PROVE  FALSE
    BY DEF SharedOnlyAfterOvertaking
  <2>1. /\ i \in Task /\ j \in Task /\ task[i] = "running" /\ task[j] = "running"
        /\ i \in Nat /\ j \in Nat /\ TaskCount \in Nat /\ CoreCount \in Nat
    BY HarnessAssumption DEF RunningTasks, Task
  <2>2. j - i >= CoreCount
    BY <2>1, CoresApart
  <2>3. ASSUME NEW m \in i .. j PROVE m \in Task /\ task[m] = "running"
    <3>1. m \in Task
      BY <2>1 DEF Task
    <3>2. CASE m = i \/ m = j
      BY <2>1, <3>1, <3>2
    <3>3. CASE m # i /\ m # j
      <4>1. m \in i + 1 .. j - 1 /\ m < j
        BY <2>1, <3>3
      <4>2. task[m] # "waiting"
        BY <2>1, <3>1, <4>1 DEF IInv, PoolInv
      <4> QED
        BY <3>1, <4>1, <4>2
    <3> QED
      BY <3>2, <3>3
  <2>4. \A m \in i .. j : \E w \in Workers : on[w] = m
    BY <2>3 DEF IInv, TypeOK, RunningTasks
  <2> DEFINE f == [m \in i .. j |-> CHOOSE w \in Workers : on[w] = m]
  <2>5. \A m \in i .. j : f[m] \in Workers /\ on[f[m]] = m
    BY <2>4
  <2>6. f \in [i .. j -> Workers]
    BY <2>5
  <2> HIDE DEF f
  <2>7. IsFiniteSet(Workers) /\ Cardinality(Workers) = CoreCount
    <3>1. CoreCount \in Int /\ 1 \in Int /\ CoreCount >= 1
      BY HarnessAssumption
    <3>2. /\ IsFiniteSet(1 .. CoreCount)
          /\ Cardinality(1 .. CoreCount) = IF 1 > CoreCount THEN 0 ELSE CoreCount - 1 + 1
      BY <3>1, FS_Interval, Zenon
    <3> QED
      BY <3>1, <3>2 DEF Workers
  <2>8. IsFiniteSet(i .. j) /\ Cardinality(i .. j) = j - i + 1
    BY <2>1, FS_Interval
  <2>9. Cardinality(Workers) < Cardinality(i .. j)
    BY <2>1, <2>2, <2>7, <2>8
  <2>10. \E x, y \in i .. j : x # y /\ f[x] = f[y]
    <3> DEFINE S == i .. j
    <3>1. f \in [S -> Workers] /\ IsFiniteSet(S) /\ Cardinality(Workers) < Cardinality(S)
      BY <2>6, <2>8, <2>9
    <3> HIDE DEF S
    <3>2. \E x, y \in S : x # y /\ f[x] = f[y]
      BY <2>7, <3>1, FS_PigeonHole
    <3> QED
      BY <3>2 DEF S
  <2> QED
    BY <2>5, <2>10
<1> QED
  BY <1>1, Invariance, PTL

------------------------------------------------------------------------------
\* What liveness rests on: every step goes on, and somebody can always take
\* one.  With the fairness of Spec they give Finishes, which TLC checks.

\* The statements of the main process in their order.
Place(s) ==
    CASE s = "check"            -> 0
      [] s = "install"          -> 1
      [] s = "save aslr"        -> 2
      [] s = "stage aslr"       -> 3
      [] s = "close aslr"       -> 4
      [] s = "save governor"    -> 5
      [] s = "stage governor"   -> 6
      [] s = "close governor"   -> 7
      [] s = "ready"            -> 8
      [] s = "measuring"        -> 9
      [] s = "processing"       -> 10
      [] s = "close table"      -> 11
      [] s = "restore aslr"     -> 12
      [] s = "restore governor" -> 13
      [] s = "restore handler"  -> 14
      [] s = "leaving"          -> 15
      [] s = "exited"           -> 16

\* A task waits, runs and has ended.
Age(state) == CASE state = "waiting" -> 0
                [] state = "running" -> 1
                [] OTHER             -> 2

(***************************************************************************)
(* But for Ctrl-C, which strikes finitely often, a step takes nothing      *)
(* back: the main process does not return to a statement, no task is run   *)
(* again, no result is taken back and no signal arrives.  And each step    *)
(* gets something done, of which there is a bounded amount: the program    *)
(* cannot go on for ever.                                                  *)
(***************************************************************************)
Progress ==
    [][\/ interrupts' = interrupts + 1
       \/ /\ interrupts' = interrupts
          /\ Place(stage') >= Place(stage)
          /\ \A t \in Task : Age(task'[t]) >= Age(task[t])
          /\ Len(results') >= Len(results)
          /\ pending' \subseteq pending
          /\ \/ Place(stage') > Place(stage)
             \/ \E t \in Task : Age(task'[t]) > Age(task[t])
             \/ Len(results') > Len(results)
             \/ pending' # pending]_vars

(***************************************************************************)
(* The statements are in this order.                                       *)
(***************************************************************************)
LEMMA Places ==
  /\ \A s \in Stage : Place(s) \in Nat
  /\ \A s \in {"check", "install", "save aslr", "stage aslr", "close aslr",
               "save governor", "stage governor", "close governor",
               "restore aslr", "restore governor", "restore handler"} :
       Place(After(s)) > Place(s)
  /\ \A s \in {"check", "save aslr", "stage aslr", "close aslr", "save governor",
               "stage governor", "close governor", "measuring", "processing",
               "close table"} :
       Place("leaving") > Place(s)
  /\ Place("measuring") > Place("ready")
  /\ Place("processing") > Place("measuring")
  /\ Place("close table") > Place("processing")
  /\ Place("restore aslr") > Place("close table")
  /\ Place("exited") > Place("leaving")
<1>1. /\ Place("check") = 0 /\ Place("install") = 1 /\ Place("save aslr") = 2
      /\ Place("stage aslr") = 3 /\ Place("close aslr") = 4
      /\ Place("save governor") = 5 /\ Place("stage governor") = 6
      /\ Place("close governor") = 7 /\ Place("ready") = 8
      /\ Place("measuring") = 9 /\ Place("processing") = 10
      /\ Place("close table") = 11 /\ Place("restore aslr") = 12
      /\ Place("restore governor") = 13 /\ Place("restore handler") = 14
      /\ Place("leaving") = 15 /\ Place("exited") = 16
  BY DEF Place
<1>2. \A i \in 0 .. 16 : i \in Nat
  OBVIOUS
<1>3. /\ 0 \in Nat /\ 1 \in Nat /\ 2 \in Nat /\ 3 \in Nat /\ 4 \in Nat
      /\ 5 \in Nat /\ 6 \in Nat /\ 7 \in Nat /\ 8 \in Nat /\ 9 \in Nat
      /\ 10 \in Nat /\ 11 \in Nat /\ 12 \in Nat /\ 13 \in Nat /\ 14 \in Nat
      /\ 15 \in Nat /\ 16 \in Nat
  BY <1>2
<1>4. /\ 1 > 0 /\ 2 > 1 /\ 3 > 2 /\ 4 > 3 /\ 5 > 4 /\ 6 > 5 /\ 7 > 6 /\ 8 > 7
      /\ 9 > 8 /\ 10 > 9 /\ 11 > 10 /\ 12 > 11 /\ 13 > 12 /\ 14 > 13
      /\ 15 > 14 /\ 16 > 15 /\ 15 > 0 /\ 15 > 2 /\ 15 > 3 /\ 15 > 4 /\ 15 > 5
      /\ 15 > 6 /\ 15 > 7 /\ 15 > 9 /\ 15 > 10 /\ 15 > 11
  OBVIOUS
<1>5. \A s \in Stage : Place(s) \in Nat
  <2>1. \A s \in SetupStages : Place(s) \in Nat
    BY <1>1, <1>3, Zenon DEF SetupStages
  <2>2. \A s \in {"measuring", "processing", "close table", "restore aslr",
                  "restore governor", "restore handler", "leaving", "exited"} :
          Place(s) \in Nat
    BY <1>1, <1>3, Zenon
  <2> QED
    BY <2>1, <2>2, Zenon DEF Stage
<1>6. /\ Place(After("check")) > Place("check")
      /\ Place(After("install")) > Place("install")
      /\ Place(After("save aslr")) > Place("save aslr")
      /\ Place(After("stage aslr")) > Place("stage aslr")
      /\ Place(After("close aslr")) > Place("close aslr")
      /\ Place(After("save governor")) > Place("save governor")
      /\ Place(After("stage governor")) > Place("stage governor")
      /\ Place(After("close governor")) > Place("close governor")
  BY <1>1, <1>4, Order, Zenon
<1>7. /\ Place(After("restore aslr")) > Place("restore aslr")
      /\ Place(After("restore governor")) > Place("restore governor")
      /\ Place(After("restore handler")) > Place("restore handler")
  BY <1>1, <1>4, Order, Zenon
<1>8. \A s \in {"check", "install", "save aslr", "stage aslr", "close aslr",
               "save governor", "stage governor", "close governor",
               "restore aslr", "restore governor", "restore handler"} :
        Place(After(s)) > Place(s)
  BY <1>6, <1>7, Zenon
<1>9. \A s \in {"check", "save aslr", "stage aslr", "close aslr", "save governor",
               "stage governor", "close governor", "measuring", "processing",
               "close table"} :
        Place("leaving") > Place(s)
  <2>1. /\ Place("leaving") > Place("check")
        /\ Place("leaving") > Place("save aslr")
        /\ Place("leaving") > Place("stage aslr")
        /\ Place("leaving") > Place("close aslr")
        /\ Place("leaving") > Place("save governor")
    BY <1>1, <1>4, Zenon
  <2>2. /\ Place("leaving") > Place("stage governor")
        /\ Place("leaving") > Place("close governor")
        /\ Place("leaving") > Place("measuring")
        /\ Place("leaving") > Place("processing")
        /\ Place("leaving") > Place("close table")
    BY <1>1, <1>4, Zenon
  <2> QED
    BY <2>1, <2>2, Zenon
<1>10. /\ Place("measuring") > Place("ready")
       /\ Place("processing") > Place("measuring")
       /\ Place("close table") > Place("processing")
       /\ Place("restore aslr") > Place("close table")
       /\ Place("exited") > Place("leaving")
  BY <1>1, <1>4, Zenon
<1> QED
  BY <1>5, <1>8, <1>9, <1>10, Zenon

(***************************************************************************)
(* So are the states of a task.                                            *)
(***************************************************************************)
LEMMA Ages ==
  /\ \A s : Age(s) \in 0 .. 2
  /\ Age("waiting") = 0 /\ Age("running") = 1
  /\ \A s \in {"done", "failed", "stopped"} : Age(s) = 2
BY DEF Age

(***************************************************************************)
(* A step of the main process: the next statement, or one more result.     *)
(***************************************************************************)
LEMMA MainAdvances ==
  ASSUME IInv, Main
  PROVE  /\ UNCHANGED <<task, pending, interrupts>>
         /\ \/ Place(stage') > Place(stage) /\ results' = results
            \/ stage' = stage /\ Len(results') = Len(results) + 1
         /\ Place(stage) \in Nat /\ Place(stage') \in Nat
         /\ Len(results) \in Nat
<1>1. Place(stage) \in Nat /\ Place(stage') \in Nat
  <2>1. IInv'
    BY NextInv DEF Next
  <2> QED
    BY <2>1, Places, Zenon DEF IInv, TypeOK
<1>2. results \in Seq(Task) /\ Len(results) \in Nat
  BY DEF IInv, TypeOK
<1>3. CASE Collect
  <2>1. /\ stage' = stage /\ results' = Append(results, Len(results) + 1)
        /\ UNCHANGED <<task, pending, interrupts>>
    BY <1>3 DEF Collect, poolVars
  <2>2. Len(results') = Len(results) + 1
    BY <1>2, <2>1
  <2> QED
    BY <1>1, <1>2, <2>1, <2>2
<1>4. CASE \/ CheckRoot \/ InstallHandler \/ SaveAslr \/ StageAslr
           \/ SaveGovernor \/ StageGovernor \/ CloseSetting
  <2>1. /\ stage \in {"check", "install", "save aslr", "stage aslr", "close aslr",
                      "save governor", "stage governor", "close governor"}
        /\ stage' = After(stage)
        /\ UNCHANGED <<task, pending, interrupts, results>>
    BY <1>4, Zenon DEF CheckRoot, InstallHandler, SaveAslr, StageAslr,
       SaveGovernor, StageGovernor, CloseSetting, Save, StageSetting, poolVars
  <2>2. Place(stage') > Place(stage)
    BY <2>1, Places, Zenon
  <2> QED
    BY <1>1, <1>2, <2>1, <2>2, Zenon
<1>5. CASE SetupRaises \/ CollectRaises \/ ProcessRaises
  <2>1. /\ stage \in {"check", "save aslr", "stage aslr", "close aslr",
                      "save governor", "stage governor", "close governor",
                      "measuring", "processing", "close table"}
        /\ stage' = "leaving"
        /\ UNCHANGED <<task, pending, interrupts, results>>
    BY <1>5, Zenon
    DEF SetupRaises, CollectRaises, ProcessRaises, Raise, poolVars
  <2>2. Place(stage') > Place(stage)
    BY <2>1, Places, Zenon
  <2> QED
    BY <1>1, <1>2, <2>1, <2>2, Zenon
<1>6. CASE StartPool \/ EndPool \/ WriteTable \/ Publish \/ Exit
  <2>1. /\ \/ stage = "ready" /\ stage' = "measuring"
           \/ stage = "measuring" /\ stage' = "processing"
           \/ stage = "processing" /\ stage' = "close table"
           \/ stage = "close table" /\ stage' = "restore aslr"
           \/ stage = "leaving" /\ stage' = "exited"
        /\ UNCHANGED <<task, pending, interrupts, results>>
    BY <1>6, Zenon DEF StartPool, EndPool, WriteTable, Publish, Exit, poolVars
  <2>2. Place(stage') > Place(stage)
    BY <2>1, Places, Zenon
  <2> QED
    BY <1>1, <1>2, <2>1, <2>2, Zenon
<1>7. CASE RestoreAslr \/ RestoreGovernor \/ RestoreHandler
  <2>1. /\ stage \in {"restore aslr", "restore governor", "restore handler"}
        /\ stage' = After(stage)
        /\ UNCHANGED <<task, pending, interrupts, results>>
    BY <1>7, Zenon
    DEF RestoreAslr, RestoreGovernor, RestoreHandler, Restore, poolVars
  <2>2. Place(stage') > Place(stage)
    BY <2>1, Places, Zenon
  <2> QED
    BY <1>1, <1>2, <2>1, <2>2, Zenon
<1> QED
  BY <1>3, <1>4, <1>5, <1>6, <1>7, Zenon DEF Main

(***************************************************************************)
(* A worker that takes a task, ends one, or handles its signal.            *)
(***************************************************************************)
LEMMA WorkerAdvances ==
  ASSUME IInv, NEW w \in Workers, Take(w) \/ Finish(w) \/ WorkerInterrupted(w)
  PROVE  /\ UNCHANGED <<stage, results, interrupts>>
         /\ \A t \in Task : Age(task'[t]) >= Age(task[t])
         /\ pending' \subseteq pending
         /\ (\E t \in Task : Age(task'[t]) > Age(task[t])) \/ pending' # pending
<1>1. task \in [Task -> {"waiting", "running", "done", "failed", "stopped"}]
  BY DEF IInv, TypeOK
<1>2. \A v \in Workers : on[v] \in Task => task[on[v]] = "running"
  BY DEF IInv, TypeOK, RunningTasks
<1>3. ASSUME NEW t \in Task, NEW s, task' = [task EXCEPT ![t] = s],
             Age(s) > Age(task[t])
      PROVE  /\ \A u \in Task : Age(task'[u]) >= Age(task[u])
             /\ \E u \in Task : Age(task'[u]) > Age(task[u])
  <2>1. task'[t] = s /\ \A u \in Task : u # t => task'[u] = task[u]
    BY <1>1, <1>3
  <2>2. \A x : Age(x) \in Nat /\ Age(x) >= Age(x)
    BY Ages
  <2>3. Age(task'[t]) > Age(task[t]) /\ Age(task'[t]) >= Age(task[t])
    <3> DEFINE young == Age(task[t])
               old   == Age(s)
    <3>1. young \in Nat /\ old \in Nat /\ old > young
      BY <1>3, <2>2
    <3> HIDE DEF young, old
    <3>2. old >= young
      BY <3>1
    <3> QED
      BY <2>1, <3>1, <3>2, Zenon DEF young, old
  <2>4. \A u \in Task : u # t => Age(task'[u]) >= Age(task[u])
    BY <2>1, <2>2, Zenon
  <2> QED
    BY <2>3, <2>4, Zenon
<1>4. CASE Take(w)
  <2>1. PICK t \in Task : IsNext(t) /\ task' = [task EXCEPT ![t] = "running"]
    BY <1>4 DEF Take
  <2>2. Age("running") > Age(task[t])
    BY <2>1, Ages DEF IsNext
  <2> QED
    BY <1>3, <1>4, <2>1, <2>2 DEF Take, mainVars
<1>5. CASE Finish(w)
  <2>1. PICK outcome \in {"done", "failed"} :
          task' = [task EXCEPT ![on[w]] = outcome]
    BY <1>5 DEF Finish
  <2>2. on[w] \in Task /\ Age(outcome) > Age(task[on[w]])
    BY <1>2, <1>5, Ages DEF Finish
  <2> QED
    BY <1>3, <1>5, <2>1, <2>2 DEF Finish, mainVars
<1>6. CASE WorkerInterrupted(w)
  <2>1. /\ UNCHANGED <<stage, results, interrupts>>
        /\ pending' = pending \ {w} /\ w \in pending
    BY <1>6 DEF WorkerInterrupted, mainVars
  <2>2. \A t \in Task : Age(task'[t]) >= Age(task[t])
    <3>1. CASE on[w] \in Task
      <4>1. task' = [task EXCEPT ![on[w]] = "stopped"]
        BY <1>6, <3>1 DEF WorkerInterrupted
      <4>2. Age("stopped") > Age(task[on[w]])
        BY <1>2, <3>1, Ages
      <4> QED
        BY <1>3, <3>1, <4>1, <4>2
    <3>2. CASE on[w] \notin Task
      <4>1. task' = task
        BY <1>6, <3>2 DEF WorkerInterrupted
      <4>2. \A t \in Task : Age(task[t]) \in Nat
        BY Ages
      <4> QED
        BY <4>1, <4>2
    <3> QED
      BY <3>1, <3>2
  <2> QED
    BY <2>1, <2>2
<1> QED
  BY <1>4, <1>5, <1>6

(***************************************************************************)
(* The main program, its pool and cleanup only go forward                  *)
(* (performance.py, parallel.py; the safety half of Finishes).             *)
(***************************************************************************)
THEOREM OnlyForward == Spec => Progress
<1> DEFINE Kept == /\ interrupts' = interrupts
                   /\ Place(stage') >= Place(stage)
                   /\ \A t \in Task : Age(task'[t]) >= Age(task[t])
                   /\ Len(results') >= Len(results)
                   /\ pending' \subseteq pending
           Done == \/ Place(stage') > Place(stage)
                   \/ \E t \in Task : Age(task'[t]) > Age(task[t])
                   \/ Len(results') > Len(results)
                   \/ pending' # pending
<1>1. IInv /\ [Next \/ Terminated]_vars
        => [interrupts' = interrupts + 1 \/ (Kept /\ Done)]_vars
  <2> SUFFICES ASSUME IInv, Next
               PROVE  interrupts' = interrupts + 1 \/ (Kept /\ Done)
    BY DEF Terminated
  <2>1. CASE Interrupt
    BY <2>1, Zenon DEF Interrupt
  <2>2. CASE Main
    <3>1. \A t \in Task : Age(task[t]) \in Nat
      BY Ages
    <3>2. /\ \A t \in Task : Age(task'[t]) >= Age(task[t])
          /\ interrupts' = interrupts /\ pending' \subseteq pending
      BY <2>2, <3>1, MainAdvances
    <3>3. /\ Place(stage') >= Place(stage) /\ Len(results') >= Len(results)
          /\ Place(stage') > Place(stage) \/ Len(results') > Len(results)
      BY <2>2, MainAdvances
    <3> QED
      BY <3>2, <3>3
  <2>3. CASE Pool
    <3>1. PICK w \in Workers : Take(w) \/ Finish(w) \/ WorkerInterrupted(w)
      BY <2>3 DEF Pool
    <3>2. Place(stage) \in Nat
      BY Places, Zenon DEF IInv, TypeOK
    <3>3. Len(results) \in Nat
      BY DEF IInv, TypeOK
    <3>4. Place(stage) >= Place(stage) /\ Len(results) >= Len(results)
      BY <3>2, <3>3
    <3>5. Place(stage') >= Place(stage) /\ Len(results') >= Len(results)
      BY <3>1, <3>4, WorkerAdvances, Zenon
    <3> QED
      BY <3>1, <3>5, WorkerAdvances, Zenon
  <2> QED
    BY <2>1, <2>2, <2>3 DEF Next
<1> QED
  BY <1>1, Invariance, PTL DEF Spec, Progress

\* The guards of the main process's steps, and of a worker's.
MainCanMove ==
    \/ stage \notin {"measuring", "leaving", "exited"}
    \/ /\ stage = "measuring"
       /\ \/ Len(results) = TaskCount
          \/ task[Len(results) + 1] \in {"done", "failed", "stopped"}
    \/ stage = "leaving" /\ RunningTasks = {} /\ pending = {}

WorkerCanMove(w) ==
    \/ w \in pending
    \/ on[w] \in Task
    \/ on[w] = 0 /\ \E t \in Task : IsNext(t)

(***************************************************************************)
(* Until the program has exited, the main process has a statement to       *)
(* execute or a worker has something to do: list() never waits for a       *)
(* result nobody is going to deliver, and the pool's exit never for a run  *)
(* nobody executes.                                                        *)
(***************************************************************************)
NobodyWaits ==
    stage # "exited" => MainCanMove \/ \E w \in Workers : WorkerCanMove(w)

WorkersThere == stage = "measuring" => \A w \in Workers : on[w] # NULL

(***************************************************************************)
(* While results are taken no worker is lost.                              *)
(***************************************************************************)
LEMMA WorkersStay == Spec => []WorkersThere
<1>1. Init => WorkersThere
  BY DEF Init, WorkersThere
<1>2. IInv /\ WorkersThere /\ [Next \/ Terminated]_vars => WorkersThere'
  <2> SUFFICES ASSUME IInv, WorkersThere, [Next \/ Terminated]_vars,
                      stage' = "measuring", NEW v \in Workers
               PROVE  on'[v] # NULL
    BY DEF WorkersThere
  <2>1. NULL # 0 /\ NULL \notin Task /\ on \in [Workers -> Task \cup {0, NULL}]
    BY HarnessAssumption DEF Task, IInv, TypeOK
  <2>2. CASE Main
    <3>1. StartPool \/ Collect
      BY <2>2, Order, Zenon
      DEF Main, CheckRoot, InstallHandler, SaveAslr, StageAslr, SaveGovernor,
          StageGovernor, CloseSetting, Save, StageSetting, SetupRaises,
          CollectRaises, EndPool, WriteTable, Publish, ProcessRaises,
          RestoreAslr, RestoreGovernor, RestoreHandler, Restore, Exit, Raise
    <3>2. CASE StartPool
      <4>1. on'[v] = 0
        BY <3>2 DEF StartPool
      <4> QED
        BY <2>1, <4>1
    <3>3. CASE Collect
      BY <3>3 DEF Collect, WorkersThere, poolVars
    <3> QED
      BY <3>1, <3>2, <3>3
  <2>3. CASE Pool
    <3>1. PICK w \in Workers : Take(w) \/ Finish(w) \/ WorkerInterrupted(w)
      BY <2>3 DEF Pool
    <3>2. stage = "measuring" /\ pending = {}
      BY <3>1 DEF Take, Finish, WorkerInterrupted, mainVars, IInv, PhaseInv
    <3>3. on[v] # NULL
      BY <3>2 DEF WorkersThere
    <3>4. CASE Take(w)
      <4>1. PICK t \in Task : on' = [on EXCEPT ![w] = t]
        BY <3>4 DEF Take
      <4> QED
        BY <2>1, <3>3, <4>1
    <3>5. CASE Finish(w)
      <4>1. on' = [on EXCEPT ![w] = 0]
        BY <3>5 DEF Finish
      <4> QED
        BY <2>1, <3>3, <4>1
    <3>6. CASE WorkerInterrupted(w)
      BY <3>2, <3>6 DEF WorkerInterrupted
    <3> QED
      BY <3>1, <3>4, <3>5, <3>6
  <2>4. CASE Interrupt
    BY <2>4 DEF Interrupt
  <2>5. CASE UNCHANGED vars
    BY <2>5 DEF vars, mainVars, poolVars, WorkersThere
  <2> QED
    BY <2>2, <2>3, <2>4, <2>5 DEF Next, Terminated
<1> QED
  BY <1>1, <1>2, Invariance, PTL DEF Spec

(***************************************************************************)
(* Neither list() over the results nor the pool's exit (parallel.py)       *)
(* deadlocks, whatever fails and however often Ctrl-C strikes.             *)
(***************************************************************************)
THEOREM NoDeadlock == Spec => []NobodyWaits
<1>1. IInv /\ WorkersThere => NobodyWaits
  <2> SUFFICES ASSUME IInv, WorkersThere, ~MainCanMove, stage # "exited"
               PROVE  \E w \in Workers : WorkerCanMove(w)
    BY DEF NobodyWaits
  <2>1. CASE stage = "measuring"
    <3> DEFINE t == Len(results) + 1
    <3>1. /\ Len(results) \in Nat /\ Len(results) <= TaskCount
          /\ TaskCount \in Nat /\ Len(results) # TaskCount
          /\ task[t] \notin {"done", "failed", "stopped"}
      BY <2>1, HarnessAssumption DEF MainCanMove, IInv, TypeOK
    <3>2. t \in Task
      BY <3>1 DEF Task
    <3>3. \A u \in 1 .. t - 1 : task[u] = "done"
      BY <3>1 DEF IInv, PoolInv
    <3> HIDE DEF t
    <3>4. task[t] \in {"waiting", "running"}
      BY <3>1, <3>2 DEF IInv, TypeOK
    <3>5. CASE task[t] = "running"
      <4>1. \E w \in Workers : on[w] = t
        BY <3>2, <3>5 DEF IInv, TypeOK, RunningTasks
      <4> QED
        BY <3>2, <4>1 DEF WorkerCanMove
    <3>6. CASE task[t] = "waiting"
      <4>1. IsNext(t)
        BY <3>3, <3>6 DEF IsNext
      <4>2. 1 \in Workers
        BY HarnessAssumption DEF Workers
      <4>3. on[1] \in Task \cup {0}
        BY <2>1, <4>2 DEF WorkersThere, IInv, TypeOK
      <4> QED
        BY <3>2, <4>1, <4>2, <4>3 DEF WorkerCanMove
    <3> QED
      BY <3>4, <3>5, <3>6
  <2>2. CASE stage = "leaving"
    <3>1. RunningTasks # {} \/ pending # {}
      BY <2>2 DEF MainCanMove
    <3>2. CASE pending # {}
      BY <3>2 DEF WorkerCanMove, IInv, TypeOK
    <3>3. CASE RunningTasks # {}
      <4>1. \E w \in Workers : on[w] \in Task
        BY <3>3 DEF IInv, TypeOK
      <4> QED
        BY <4>1 DEF WorkerCanMove
    <3> QED
      BY <3>1, <3>2, <3>3
  <2> QED
    BY <2>1, <2>2 DEF MainCanMove
<1> QED
  BY <1>1, Invariance, WorkersStay, PTL
============================================================================
