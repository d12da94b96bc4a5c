----------------------------- MODULE TaskQueue ------------------------------
(***************************************************************************)
(* The work queue (harness/control/task_loop.py) and the agency tick that  *)
(* drains it (agency.py).  A task is a JSON document replaced atomically   *)
(* after every step; the process may die, and a step may raise, for the    *)
(* daemon that answers it may be gone.                                     *)
(***************************************************************************)
EXTENDS Naturals

CONSTANTS Task,        \* task ids
          MaxSteps,    \* max_steps of run_task
          MaxPosts,    \* bound: goals posted, which orders them by age
          TaskFaults   \* sets of faults, one chosen per behaviour:
                       \* "raise" a step's client call raises
                       \* "crash" the process dies
                       \* "resume" the operator runs a task by hand, by its id

VARIABLES tasks,    \* the documents on disk
          posts,    \* goals posted so far
          runner,   \* the run_task under way: its state in memory
          tick,     \* where run_agency_scheduler stands
          spent,    \* per task: the steps ever taken for it
          goal,     \* per task: is the goal really met, as verify() would see it
          tfaults

tvars == <<tasks, posts, runner, tick, spent, goal, tfaults>>

Status == {"none", "pending", "running", "done", "failed", "exhausted"}
NoTask == [status |-> "none", steps |-> 0, created |-> 0]
NoRunner == [pc |-> "none"]

TaskInit ==
    /\ tasks = [t \in Task |-> NoTask] /\ posts = 0 /\ runner = NoRunner
    /\ tick = "sleep" /\ spent = [t \in Task |-> 0] /\ goal = [t \in Task |-> FALSE]
    /\ tfaults \in TaskFaults

\* post_task(): a fresh document, status pending.
PostTask(t) ==
    /\ tasks[t].status = "none" /\ posts < MaxPosts
    /\ posts' = posts + 1
    /\ tasks' = [tasks EXCEPT ![t] = [status |-> "pending", steps |-> 0, created |-> posts']]
    /\ UNCHANGED <<runner, tick, spent, goal, tfaults>>

\* The scheduler wakes; a daemon that is generating skips the tick.
Wake(busy) ==
    /\ tick = "sleep"
    /\ tick' = IF busy THEN "sleep" ELSE "drain"
    /\ UNCHANGED <<tasks, posts, runner, spent, goal, tfaults>>

PendingTasks == {t \in Task : tasks[t].status = "pending"}

Oldest == CHOOSE t \in PendingTasks : \A u \in PendingTasks : tasks[t].created <= tasks[u].created

\* Faulty: a resumed task starts to count its steps again.
LoadedFresh(t) == [tasks[t] EXCEPT !.status = "running", !.steps = 0]

\* TaskState.load, and the status the run begins with.
Loaded(t) == [tasks[t] EXCEPT !.status = "running"]

\* run_task up to its loop: load, mark running, save.
Start(t, checked) ==
    /\ tasks' = [tasks EXCEPT ![t] = Loaded(t)]
    /\ runner' = [pc |-> "loop", task |-> t, steps |-> Loaded(t).steps, checked |-> checked]

\* advance_pending_task: one task per idle tick, and no verify() is passed.
Advance ==
    /\ tick = "drain" /\ runner = NoRunner
    /\ IF PendingTasks = {} THEN tick' = "rest" /\ UNCHANGED <<tasks, runner>>
                            ELSE tick' = "task" /\ Start(Oldest, FALSE)
    /\ UNCHANGED <<posts, spent, goal, tfaults>>

\* run_task(goal, task_id=..., verify=...), by hand.
Resume(t, checked) ==
    /\ "resume" \in tfaults /\ runner = NoRunner /\ tick = "sleep"
    /\ tasks[t].status \in {"pending", "running", "exhausted"}
    /\ Start(t, checked)
    /\ UNCHANGED <<posts, tick, spent, goal, tfaults>>

Finish(t, status, steps) ==
    /\ tasks' = [tasks EXCEPT ![t].status = status, ![t].steps = steps]
    /\ runner' = NoRunner
    /\ tick' = IF tick = "task" THEN "rest" ELSE tick

Accepted(t) == runner.checked => goal[t]

\* One step of the loop: the model acts and says DONE, BLOCKED or neither.  A
\* DONE that does not verify is written down as one more step.
Step(says) ==
    /\ runner.pc = "loop" /\ runner.steps < MaxSteps
    /\ LET t == runner.task
           n == runner.steps + 1
       IN  CASE says = "done" /\ Accepted(t) -> Finish(t, "done", n)
             [] says = "blocked" -> Finish(t, "failed", n)
             [] OTHER -> /\ tasks' = [tasks EXCEPT ![t].steps = n]
                         /\ runner' = [runner EXCEPT !.steps = n]
                         /\ tick' = tick
    /\ spent' = [spent EXCEPT ![runner.task] = @ + 1]
    /\ UNCHANGED <<posts, goal, tfaults>>

\* Somewhere in a step a tool of hers meets the goal, or undoes it.
Act ==
    /\ runner.pc = "loop"
    /\ goal' = [goal EXCEPT ![runner.task] = ~@]
    /\ UNCHANGED <<tasks, posts, runner, tick, spent, tfaults>>

\* The budget, in steps or seconds, is spent.
Exhaust ==
    /\ runner.pc = "loop" /\ Finish(runner.task, "exhausted", runner.steps)
    /\ UNCHANGED <<posts, spent, goal, tfaults>>

\* run_with_tools raises: the tick logs it and goes on.
StepRaises ==
    /\ "raise" \in tfaults /\ runner.pc = "loop"
    /\ runner' = NoRunner
    /\ tick' = IF tick = "task" THEN "rest" ELSE tick
    /\ UNCHANGED <<tasks, posts, spent, goal, tfaults>>

\* The rest of a tick: hygiene, receipts and a maintenance round, each guarded.
Rest ==
    /\ tick = "rest" /\ tick' = "sleep"
    /\ UNCHANGED <<tasks, posts, runner, spent, goal, tfaults>>

ProcessDies ==
    /\ "crash" \in tfaults /\ runner # NoRunner
    /\ runner' = NoRunner /\ tick' = "sleep"
    /\ UNCHANGED <<tasks, posts, spent, goal, tfaults>>

TaskNext ==
    \/ \E t \in Task : PostTask(t) \/ \E checked \in BOOLEAN : Resume(t, checked)
    \/ \E busy \in BOOLEAN : Wake(busy)
    \/ Advance \/ Act \/ Exhaust \/ StepRaises \/ Rest \/ ProcessDies
    \/ \E says \in {"done", "blocked", "on"} : Step(says)

\* The scheduler's thread runs on; the model comes to an end or the budget does.
TaskSpec ==
    /\ TaskInit /\ [][TaskNext]_tvars
    /\ SF_tvars(Wake(FALSE)) /\ WF_tvars(Advance) /\ WF_tvars(Rest) /\ WF_tvars(Exhaust)

-----------------------------------------------------------------------------
\* A task's steps never pass the budget, over every resumption of it, and the
\* disk is never more than the step under way behind the runner.
BudgetHolds ==
    /\ \A t \in Task : spent[t] <= MaxSteps
    /\ runner # NoRunner => tasks[runner.task].steps = runner.steps

\* Verify before accept: a run that was given a verify() writes its task down as
\* done only in a state where the goal was met, whatever the model claimed.
DoneIsDone == [][\A t \in Task :
    (tasks'[t].status = "done" /\ tasks[t].status # "done" /\ runner.checked) => goal[t]]_tvars

\* No task is overtaken: one that was posted later is not taken up first.
InOrder == [][\A t, u \in Task :
    (/\ tick = "drain" /\ tasks[t].status = "pending" /\ tasks[u].status = "pending"
     /\ tasks[t].created < tasks[u].created)
       => tasks'[u].status = "pending" \/ tasks'[t].status # "pending"]_tvars

\* A posted goal comes to an honest end.
Ends == tfaults = {} => \A t \in Task :
    tasks[t].status = "pending" ~> tasks[t].status \in {"done", "failed", "exhausted"}
=============================================================================
