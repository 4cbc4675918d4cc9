------------------------------ MODULE Routines ------------------------------
(***************************************************************************)
(* Routines: RoutineRunner with its two maps of tokio tasks (routine/      *)
(* mod.rs), the REST handlers that create, replace, delete, trigger and    *)
(* cancel routines (rest/handlers/routines.rs), the tree they are saved in *)
(* and their revival at start-up (main.rs).                                *)
(*                                                                         *)
(* Every operation on a map or on the tree is atomic, and no function      *)
(* makes two of them atomic together: handlers and cron loops run on a     *)
(* multi-threaded runtime and interleave between any two.  An agent is a   *)
(* handler or a cron loop; its todo list is the operations it has left.    *)
(*                                                                         *)
(* abort() drops a task that waits; one that is being polled goes on to    *)
(* its next await.  A cron loop is polled while it triggers, a run while   *)
(* it goes from one step to the next.  What a step does to devices is the  *)
(* registry's; here a run takes Steps steps one by one.                    *)
(***************************************************************************)
EXTENDS Naturals, Sequences, FiniteSets

CONSTANTS
  Clients,     \* REST handlers at work at one time
  Routines,    \* routine ids (uuids, never given out twice)
  Bodies,      \* contents of a routine
  ValidBodies, \* those with a schedule that parses
  EndingBodies, \* those of them whose schedule comes to an end
  NoBody,      \* not saved
  CronIds,     \* tasks of cron loops, reused when over
  RunIds,      \* tasks of executions, reused when over
  NoTask,
  Over,        \* a task that has ended
  NoJob,
  Steps        \* steps of a routine

Agents == Clients \cup CronIds
Tasks == CronIds \cup RunIds \cup {NoTask}
CronTask == [id : Routines, body : ValidBodies, aborted : BOOLEAN]
Run == [id : Routines, at : 0..Steps, polled : BOOLEAN, aborted : BOOLEAN]
Job == [id : Routines, body : Bodies \cup {NoBody}, task : Tasks]
Ops == {"save", "spawnCron", "insertCron", "stop", "cancel", "erase",
        "spawn", "insert"}

ASSUME RoutinesAssumption ==
  /\ EndingBodies \subseteq ValidBodies /\ ValidBodies \subseteq Bodies
  /\ NoBody \notin Bodies
  /\ Clients \cap CronIds = {} /\ CronIds \cap RunIds = {}
  /\ NoTask \notin CronIds \cup RunIds
  /\ Over \notin CronTask \cup Run /\ NoJob \notin Job
  /\ Steps \in Nat

VARIABLES
  saved,     \* the tree: routine id -> body
  used,      \* ids given out
  cronTasks, \* RoutineRunner::cron_tasks
  running,   \* RoutineRunner::running
  cron,      \* cron[c]: the cron loop task c, or Over
  run,       \* run[k]: the execution task k, or Over
  todo,      \* todo[x]: the operations agent x has left
  job,       \* job[x]: what agent x works on
  mixed,     \* history: routines two handlers worked on at once
  raced      \* history: routines triggered in the middle of another trigger
vars == <<saved, used, cronTasks, running, cron, run, todo, job, mixed, raced>>
cronVars == <<cronTasks, cron>>
runVars == <<running, run>>
history == <<used, mixed, raced>>

(* Every variable keeps its type.                                          *)
TypeOK ==
  /\ saved \in [Routines -> Bodies \cup {NoBody}] /\ used \subseteq Routines
  /\ cronTasks \in [Routines -> CronIds \cup {NoTask}]
  /\ running \in [Routines -> RunIds \cup {NoTask}]
  /\ cron \in [CronIds -> CronTask \cup {Over}]
  /\ run \in [RunIds -> Run \cup {Over}]
  /\ todo \in [Agents -> Seq(Ops)]
  /\ job \in [Agents -> Job \cup {NoJob}]
  /\ mixed \subseteq Routines /\ raced \subseteq Routines

Init ==
  /\ saved = [r \in Routines |-> NoBody] /\ used = {}
  /\ cronTasks = [r \in Routines |-> NoTask] /\ running = [r \in Routines |-> NoTask]
  /\ cron = [c \in CronIds |-> Over] /\ run = [k \in RunIds |-> Over]
  /\ todo = [x \in Agents |-> <<>>] /\ job = [x \in Agents |-> NoJob]
  /\ mixed = {} /\ raced = {}

Busy(x) == todo[x] # <<>>

(* Task ids nobody has a handle of.                                        *)
FreeCrons == {c \in CronIds : cron[c] = Over /\ ~Busy(c)
                /\ \A r \in Routines : cronTasks[r] # c
                /\ \A x \in Clients : Busy(x) => job[x].task # c}
FreeRuns == {k \in RunIds : run[k] = Over
                /\ \A r \in Routines : running[r] # k
                /\ \A x \in Agents : Busy(x) => job[x].task # k}

(* JoinHandle::abort.  A cron loop that sleeps and a run that waits end.   *)
AbortCron(c) ==
  cron' = IF c = NoTask \/ cron[c] = Over THEN cron
          ELSE IF Busy(c) THEN [cron EXCEPT ![c].aborted = TRUE]
          ELSE [cron EXCEPT ![c] = Over]

AbortRun(k) ==
  run' = IF k = NoTask \/ run[k] = Over THEN run
         ELSE IF run[k].polled THEN [run EXCEPT ![k].aborted = TRUE]
         ELSE [run EXCEPT ![k] = Over]

-----------------------------------------------------------------------------
(* The operations of an agent, in the order of its todo list.              *)

(* Agent x does the first operation of its list; rest is what it has left. *)
(* A cron loop that was aborted meanwhile ends with its last operation.    *)
Does(x, op) == Busy(x) /\ Head(todo[x]) = op
Left(x, rest) ==
  /\ todo' = [todo EXCEPT ![x] = rest]
  /\ job' = IF rest = <<>> THEN [job EXCEPT ![x] = NoJob] ELSE job
  /\ UNCHANGED history
WithTask(x, t) ==
  /\ todo' = [todo EXCEPT ![x] = Tail(@)]
  /\ job' = [job EXCEPT ![x].task = t]
  /\ UNCHANGED history

(* db::save_routine; start_cron then refuses a schedule that does not      *)
(* parse, with the routine saved.                                          *)
Save(x) ==
  /\ Does(x, "save")
  /\ saved' = [saved EXCEPT ![job[x].id] = job[x].body]
  /\ Left(x, IF job[x].body \in ValidBodies THEN Tail(todo[x]) ELSE <<>>)
  /\ UNCHANGED <<cronVars, runVars>>

(* start_cron spawns the loop, then puts its handle into the map and       *)
(* aborts the loop that was there.                                         *)
SpawnCron(x) ==
  /\ Does(x, "spawnCron")
  /\ \E c \in FreeCrons :
       /\ cron' = [cron EXCEPT ![c] =
            [id |-> job[x].id, body |-> job[x].body, aborted |-> FALSE]]
       /\ WithTask(x, c)
  /\ UNCHANGED <<saved, cronTasks, runVars>>

(* Mutant of InsertCron: the old handle is dropped, its loop goes on.      *)
InsertCronOnly(x) ==
  /\ Does(x, "insertCron")
  /\ cronTasks' = [cronTasks EXCEPT ![job[x].id] = job[x].task]
  /\ Left(x, Tail(todo[x]))
  /\ UNCHANGED <<saved, cron, runVars>>

InsertCron(x) ==
  /\ Does(x, "insertCron")
  /\ cronTasks' = [cronTasks EXCEPT ![job[x].id] = job[x].task]
  /\ AbortCron(cronTasks[job[x].id])
  /\ Left(x, Tail(todo[x]))
  /\ UNCHANGED <<saved, runVars>>

(* stop_cron                                                               *)
Stop(x) ==
  /\ Does(x, "stop")
  /\ cronTasks' = [cronTasks EXCEPT ![job[x].id] = NoTask]
  /\ AbortCron(cronTasks[job[x].id])
  /\ Left(x, Tail(todo[x]))
  /\ UNCHANGED <<saved, runVars>>

(* Mutant of Cancel: the handle is removed and not aborted.                *)
CancelOnly(x) ==
  /\ Does(x, "cancel")
  /\ running' = [running EXCEPT ![job[x].id] = NoTask]
  /\ Left(x, Tail(todo[x]))
  /\ UNCHANGED <<saved, run, cronVars>>

(* cancel, and the first half of trigger.                                  *)
Cancel(x) ==
  /\ Does(x, "cancel")
  /\ running' = [running EXCEPT ![job[x].id] = NoTask]
  /\ AbortRun(running[job[x].id])
  /\ Left(x, Tail(todo[x]))
  /\ UNCHANGED <<saved, cronVars>>

(* db::remove_routine                                                      *)
Erase(x) ==
  /\ Does(x, "erase")
  /\ saved' = [saved EXCEPT ![job[x].id] = NoBody]
  /\ Left(x, Tail(todo[x]))
  /\ UNCHANGED <<cronVars, runVars>>

(* trigger spawns the new execution ...                                    *)
Spawn(x) ==
  /\ Does(x, "spawn")
  /\ \E k \in FreeRuns :
       /\ run' = [run EXCEPT ![k] = [id |-> job[x].id, at |-> 0, polled |-> FALSE,
                                     aborted |-> FALSE]]
       /\ WithTask(x, k)
  /\ UNCHANGED <<saved, running, cronVars>>

(* ... and puts its handle into the map; the handle of an execution that   *)
(* got there meanwhile is dropped, which detaches that execution.          *)
Insert(x) ==
  /\ Does(x, "insert")
  /\ running' = [running EXCEPT ![job[x].id] = job[x].task]
  /\ cron' = IF x \in CronIds /\ cron[x].aborted THEN [cron EXCEPT ![x] = Over] ELSE cron
  /\ Left(x, Tail(todo[x]))
  /\ UNCHANGED <<saved, cronTasks, run>>

-----------------------------------------------------------------------------
(* Requests, cron ticks and executions.                                    *)

AtWorkOn(r, set) == \E x \in set : Busy(x) /\ job[x].id = r

(* A handler takes up a request for routine r.                             *)
Begin(x, r, body, program) ==
  /\ ~Busy(x)
  /\ todo' = [todo EXCEPT ![x] = program]
  /\ job' = [job EXCEPT ![x] = [id |-> r, body |-> body, task |-> NoTask]]
  /\ mixed' = IF AtWorkOn(r, Clients) THEN mixed \cup {r} ELSE mixed
  /\ UNCHANGED <<saved, cronVars, runVars>>

TriggerProgram == <<"cancel", "spawn", "insert">>

Triggering(r) ==
  \E x \in Agents : Busy(x) /\ job[x].id = r /\ todo[x][Len(todo[x])] = "insert"
Triggered(r) == raced' = IF Triggering(r) THEN raced \cup {r} ELSE raced

Create(x, r, body) ==
  /\ r \notin used /\ used' = used \cup {r}
  /\ Begin(x, r, body, <<"save", "spawnCron", "insertCron">>)
  /\ UNCHANGED raced

(* Mutant of Put: nothing stops the loop when the new body has no schedule *)
(* (start_cron would stop it otherwise).                                   *)
PutKeeps(x, r, body) ==
  /\ saved[r] # NoBody
  /\ Begin(x, r, body, <<"save", "spawnCron", "insertCron">>)
  /\ UNCHANGED <<used, raced>>

Put(x, r, body) ==
  /\ saved[r] # NoBody
  /\ Begin(x, r, body, <<"stop", "save", "spawnCron", "insertCron">>)
  /\ UNCHANGED <<used, raced>>

(* Any id will do.                                                         *)
Delete(x, r) ==
  /\ r \in used
  /\ Begin(x, r, NoBody, <<"stop", "cancel", "erase">>)
  /\ UNCHANGED <<used, raced>>

TriggerRoutine(x, r) ==
  /\ saved[r] # NoBody
  /\ Begin(x, r, NoBody, TriggerProgram)
  /\ Triggered(r)
  /\ UNCHANGED used

CancelRoutine(x, r) ==
  /\ r \in used
  /\ Begin(x, r, NoBody, <<"cancel">>)
  /\ UNCHANGED <<used, raced>>

(* The sleep of a cron loop is over: it triggers the routine it was        *)
(* started with.                                                           *)
Tick(c) ==
  /\ cron[c] # Over /\ ~Busy(c)
  /\ todo' = [todo EXCEPT ![c] = TriggerProgram]
  /\ job' = [job EXCEPT ![c] = [id |-> cron[c].id, body |-> NoBody, task |-> NoTask]]
  /\ Triggered(cron[c].id)
  /\ UNCHANGED <<saved, used, cronVars, runVars, mixed>>

(* upcoming has no next time: the loop ends and its handle stays.          *)
Exhaust(c) ==
  /\ cron[c] # Over /\ ~Busy(c) /\ cron[c].body \in EndingBodies
  /\ cron' = [cron EXCEPT ![c] = Over]
  /\ UNCHANGED <<saved, used, cronTasks, runVars, todo, job, mixed, raced>>

(* execute_routine: what the execution waits for has come.                 *)
Wake(k) ==
  /\ run[k] # Over /\ ~run[k].polled
  /\ run' = [run EXCEPT ![k].polled = TRUE]
  /\ UNCHANGED <<saved, used, cronVars, running, todo, job, mixed, raced>>

(* Mutant of Step: one step past the last.                                 *)
StepPast(k) ==
  /\ run[k] # Over /\ run[k].polled
  /\ run' = [run EXCEPT ![k].at = @ + 1]
  /\ UNCHANGED <<saved, used, cronVars, running, todo, job, mixed, raced>>

(* The next step, which waits or is done at once.                          *)
Step(k) ==
  /\ run[k] # Over /\ run[k].polled /\ run[k].at < Steps
  /\ \E waits \in BOOLEAN :
       run' = [run EXCEPT ![k] = IF waits /\ run[k].aborted THEN Over
                                 ELSE [run[k] EXCEPT !.at = @ + 1, !.polled = ~waits]]
  /\ UNCHANGED <<saved, used, cronVars, running, todo, job, mixed, raced>>

Finish(k) ==
  /\ run[k] # Over /\ run[k].polled /\ run[k].at = Steps
  /\ run' = [run EXCEPT ![k] = Over]
  /\ UNCHANGED <<saved, used, cronVars, running, todo, job, mixed, raced>>

(* synaptex-core stops and starts: main starts the cron loops of the       *)
(* routines that are saved, before it serves requests.                     *)
Restart ==
  /\ running' = [r \in Routines |-> NoTask] /\ run' = [k \in RunIds |-> Over]
  /\ todo' = [x \in Agents |-> <<>>] /\ job' = [x \in Agents |-> NoJob]
  /\ \E f \in [Routines -> CronIds \cup {NoTask}] :
       /\ \A r \in Routines : f[r] # NoTask <=> saved[r] \in ValidBodies
       /\ \A r, s \in Routines : f[r] = f[s] /\ r # s => f[r] = NoTask
       /\ cronTasks' = f
       /\ cron' = [c \in CronIds |->
            IF \E r \in Routines : f[r] = c
            THEN LET r == CHOOSE r \in Routines : f[r] = c
                 IN [id |-> r, body |-> saved[r], aborted |-> FALSE]
            ELSE Over]
  /\ UNCHANGED <<saved, used, mixed, raced>>

Operate(x) == \/ Save(x) \/ SpawnCron(x) \/ InsertCron(x) \/ Stop(x)
              \/ Cancel(x) \/ Erase(x) \/ Spawn(x) \/ Insert(x)

Next ==
  \/ \E x \in Clients, r \in Routines :
       \/ \E b \in Bodies : Create(x, r, b) \/ Put(x, r, b)
       \/ Delete(x, r) \/ TriggerRoutine(x, r) \/ CancelRoutine(x, r)
  \/ \E x \in Agents : Operate(x)
  \/ \E c \in CronIds : Tick(c) \/ Exhaust(c)
  \/ \E k \in RunIds : Wake(k) \/ Step(k) \/ Finish(k)
  \/ Restart

Spec == Init /\ [][Next]_vars

(* Tasks that can go on do; the steps of a routine end.                    *)
Fairness ==
  /\ \A x \in Agents : WF_vars(Operate(x))
  /\ \A k \in RunIds : WF_vars(Wake(k) \/ Step(k) \/ Finish(k))

FairSpec == Spec /\ Fairness

-----------------------------------------------------------------------------
(* Properties.                                                             *)

LiveCrons(r) == {c \in CronIds : cron[c] # Over /\ cron[c].id = r /\ ~cron[c].aborted}
LiveRuns(r) == {k \in RunIds : run[k] # Over /\ run[k].id = r /\ ~run[k].aborted}

(* However handlers interleave, no cron loop is lost: each that has not    *)
(* been aborted is in the map or about to be put there, so that the next   *)
(* stop_cron or start_cron ends it.                                        *)
NoLostCron ==
  \A r \in Routines : \A c \in LiveCrons(r) :
    \/ cronTasks[r] = c
    \/ \E x \in Clients : Busy(x) /\ job[x].id = r /\ job[x].task = c

(* When no two handlers ever worked on a routine at once, it has a cron    *)
(* loop between requests if and only if its saved schedule parses, and the *)
(* loop has the saved body: also after a restart in the middle of a        *)
(* request.  A schedule that comes to an end may have done so.             *)
HasItsLoop(r) ==
  \E c \in CronIds : /\ LiveCrons(r) = {c} /\ cronTasks[r] = c
                     /\ cron[c].body = saved[r]
CronFollowsSaved ==
  \A r \in Routines \ mixed : ~AtWorkOn(r, Clients) =>
    \/ saved[r] \in ValidBodies /\ HasItsLoop(r)
    \/ saved[r] \notin ValidBodies \ EndingBodies /\ LiveCrons(r) = {}

(* When a routine was never triggered in the middle of another trigger,    *)
(* it has one execution at most that is not aborted, and cancel finds it:  *)
(* whatever deletes, cancels and puts do meanwhile.                        *)
OneRun ==
  \A r \in Routines \ raced : \A k \in LiveRuns(r) :
    /\ LiveRuns(r) = {k}
    /\ \/ running[r] = k
       \/ \E x \in Agents : Busy(x) /\ job[x].id = r /\ job[x].task = k

(* What trigger's comment promises without that condition: it cancels any  *)
(* in-flight run.                                                          *)
OneRunAlways == \A r \in Routines : Cardinality(LiveRuns(r)) <= 1

(* A deleted routine that no two handlers worked on at once goes quiet: a  *)
(* loop that was triggering when it was aborted may still start one run,   *)
(* which ends.                                                             *)
Gone(r) == r \in used /\ saved[r] = NoBody /\ ~AtWorkOn(r, Clients)
Quiet(r) == \A k \in RunIds : run[k] = Over \/ run[k].id # r
DeletedGoesQuiet ==
  \A r \in Routines : [](r \notin mixed) => (Gone(r) ~> [](Gone(r) => Quiet(r)))

(* Without waiting: once the delete is answered nothing of it runs.        *)
DeletedIsQuiet == \A r \in Routines \ mixed : Gone(r) => LiveRuns(r) = {}

(* A request that is refused changes nothing saved.                        *)
RefusedIsNotSaved ==
  [][\A x \in Clients : Busy(x) /\ ~Busy(x)' /\ job[x].body \in Bodies \ ValidBodies
       => saved' = saved]_vars
=============================================================================
