----------------------------- MODULE TaskThread -----------------------------
(***************************************************************************)
(* The task thread, which runs every GL call of the displays: a caller     *)
(* queues a task that lives on its own stack, and waits on the task's      *)
(* condition variable until the worker has run it.                         *)
(***************************************************************************)
EXTENDS Integers, Sequences, SequencesExt, Functions

CONSTANTS
  Callers,    (* the threads that call task_thread_schedule_blocking       *)
  MaxCalls    (* bound: the calls they make                                *)

VARIABLES
  tasks,      (* tt->tasks, each named by its caller                       *)
  running,    (* tt->running                                               *)
  workerPc,   (* "top", "lock", "wait", "woken", "run", "report", "exited" *)
  job,        (* the task the worker has taken                             *)
  callerPc,   (* caller -> "idle", "queued" (it holds its task's mutex),   *)
              (* "waiting", "woken"                                        *)
  ran,        (* caller -> its task was run                                *)
  destroyPc,  (* "none", "cleared" (running is), "joining", "flushing",    *)
              (* "gone"                                                    *)
  calls,      (* the calls made so far                                     *)
  pastCheck,  (* history: running was cleared after the worker had read it *)
              (* and before the worker took tt->mutex                      *)
  order       (* history: the callers in the order they queued tasks, less *)
              (* one for every task that has been run                      *)

ttVars == <<tasks, running>>
vars == <<ttVars, workerPc, job, callerPc, ran, destroyPc, calls, pastCheck, order>>

-----------------------------------------------------------------------------
(* task_thread_schedule_blocking; not called after task_thread_destroy.    *)

\* The task's mutex is the caller's own until it waits.  Queueing it and the
\* signal to the worker are one step under tt->mutex.
Schedule(c) ==
  /\ callerPc[c] = "idle"
  /\ destroyPc = "none"
  /\ calls < MaxCalls
  /\ tasks' = Append(tasks, c)
  /\ order' = Append(order, c)
  /\ workerPc' = IF workerPc = "wait" THEN "woken" ELSE workerPc
  /\ callerPc' = [callerPc EXCEPT ![c] = "queued"]
  /\ ran' = [ran EXCEPT ![c] = FALSE]
  /\ calls' = calls + 1
  /\ UNCHANGED <<running, job, destroyPc, pastCheck>>

\* pthread_cond_wait releases the task's mutex.  The caller does not check that
\* its task was run: its wait is taken to end only when it is signalled.
Wait(c) ==
  /\ callerPc[c] = "queued"
  /\ callerPc' = [callerPc EXCEPT ![c] = "waiting"]
  /\ UNCHANGED <<ttVars, workerPc, job, ran, destroyPc, calls, pastCheck, order>>

Return(c) ==
  /\ callerPc[c] = "woken"
  /\ callerPc' = [callerPc EXCEPT ![c] = "idle"]
  /\ UNCHANGED <<ttVars, workerPc, job, ran, destroyPc, calls, pastCheck, order>>

-----------------------------------------------------------------------------
(* _thread_run.                                                            *)

\* Mutant of GoesOn: the thread only looks at running when it was woken.
GoesOn_Always == TRUE

\* The loop's condition, read without the mutex.
GoesOn == running

Top ==
  /\ workerPc = "top"
  /\ workerPc' = IF GoesOn THEN "lock" ELSE "exited"
  /\ UNCHANGED <<ttVars, job, callerPc, ran, destroyPc, calls, pastCheck, order>>

\* Mutant of Picked: the task queued last is run first.
Picked_Newest == Len(tasks)

Picked == 1

\* Under tt->mutex: take a task, or wait.
Take ==
  /\ workerPc = "lock"
  /\ IF tasks = <<>>
     THEN /\ workerPc' = "wait"
          /\ UNCHANGED <<tasks, job>>
     ELSE /\ job' = tasks[Picked]
          /\ tasks' = RemoveAt(tasks, Picked)
          /\ workerPc' = "run"
  /\ UNCHANGED <<running, callerPc, ran, destroyPc, calls, pastCheck, order>>

\* A wait may end without a signal.
Spurious ==
  /\ workerPc = "wait"
  /\ workerPc' = "woken"
  /\ UNCHANGED <<ttVars, job, callerPc, ran, destroyPc, calls, pastCheck, order>>

Woken ==
  /\ workerPc = "woken"
  /\ workerPc' = IF running THEN "top" ELSE "exited"
  /\ UNCHANGED <<ttVars, job, callerPc, ran, destroyPc, calls, pastCheck, order>>

Run ==
  /\ workerPc = "run"
  /\ ran' = [ran EXCEPT ![job] = TRUE]
  /\ order' = Tail(order)
  /\ workerPc' = "report"
  /\ UNCHANGED <<ttVars, job, callerPc, destroyPc, calls, pastCheck>>

\* The task's mutex is free once its caller waits.
MayReport(c) == callerPc[c] # "queued"

\* Mutant of Told: whoever waits is woken.
Told_All(c) == [d \in Callers |-> IF callerPc[d] = "waiting" THEN "woken" ELSE callerPc[d]]

\* pthread_cond_signal: nobody is told who is not waiting yet.
Told(c) == [callerPc EXCEPT ![c] = IF @ = "waiting" THEN "woken" ELSE @]

Report ==
  /\ workerPc = "report"
  /\ MayReport(job)
  /\ callerPc' = Told(job)
  /\ workerPc' = "top"
  /\ UNCHANGED <<ttVars, job, ran, destroyPc, calls, pastCheck, order>>

Worker == Top \/ Take \/ Woken \/ Run \/ Report

-----------------------------------------------------------------------------
(* task_thread_destroy.                                                    *)

ClearRunning ==
  /\ destroyPc = "none"
  /\ running' = FALSE
  /\ pastCheck' = (workerPc = "lock")
  /\ destroyPc' = "cleared"
  /\ UNCHANGED <<tasks, workerPc, job, callerPc, ran, calls, order>>

SignalWorker ==
  /\ destroyPc = "cleared"
  /\ workerPc' = IF workerPc = "wait" THEN "woken" ELSE workerPc
  /\ destroyPc' = "joining"
  /\ UNCHANGED <<ttVars, job, callerPc, ran, calls, pastCheck, order>>

Join ==
  /\ destroyPc = "joining"
  /\ workerPc = "exited"
  /\ destroyPc' = "flushing"
  /\ UNCHANGED <<ttVars, workerPc, job, callerPc, ran, calls, pastCheck, order>>

\* Mutant of Flushed: whoever is still queued is forgotten.
Flushed_None(c) == callerPc

\* dump_task
Flushed(c) == Told(c)

\* The callers whose tasks nobody will run are told, one by one.
Flush ==
  /\ destroyPc = "flushing"
  /\ tasks # <<>>
  /\ MayReport(Head(tasks))
  /\ callerPc' = Flushed(Head(tasks))
  /\ tasks' = Tail(tasks)
  /\ UNCHANGED <<running, workerPc, job, ran, destroyPc, calls, pastCheck, order>>

Free ==
  /\ destroyPc = "flushing"
  /\ tasks = <<>>
  /\ destroyPc' = "gone"
  /\ UNCHANGED <<ttVars, workerPc, job, callerPc, ran, calls, pastCheck, order>>

Destroyer == SignalWorker \/ Join \/ Flush \/ Free

-----------------------------------------------------------------------------
Init ==
  /\ tasks = <<>>
  /\ running = TRUE
  /\ workerPc = "top"
  /\ job \in Callers
  /\ callerPc = [c \in Callers |-> "idle"]
  /\ ran = [c \in Callers |-> FALSE]
  /\ destroyPc = "none"
  /\ calls = 0
  /\ pastCheck = FALSE
  /\ order = <<>>

Next ==
  \/ \E c \in Callers : Schedule(c) \/ Wait(c) \/ Return(c)
  \/ Worker
  \/ Spurious
  \/ ClearRunning
  \/ Destroyer

-----------------------------------------------------------------------------
\* A blocking call returns once its task was run, and not before; only those
\* that were still queued when the thread was destroyed are released without.
ReturnsWhenRun ==
  \A c \in Callers : callerPc[c] = "woken" /\ ~ran[c] => destroyPc \in {"flushing", "gone"}

\* Tasks are run in the order they were queued.  (The GL context is made by the
\* first one.)
RunInOrder == [][ workerPc = "run" /\ workerPc' = "report" => Head(order) = job ]_vars

\* No caller waits forever, not even when the thread is destroyed, unless the
\* destroyer itself does: no signal comes before its caller waits.
CallsReturn ==
  \A c \in Callers :
    callerPc[c] = "queued" ~> (callerPc[c] = "idle" \/ (destroyPc # "none" /\ pastCheck))

\* task_thread_destroy returns, unless running was cleared just after the worker
\* had found it set: then the signal may be sent before the worker waits for it.
DestroyReturns == (destroyPc = "cleared" /\ ~pastCheck) ~> destroyPc = "gone"
=============================================================================
