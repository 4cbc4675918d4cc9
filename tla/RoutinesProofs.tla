---------------------------- MODULE RoutinesProofs ----------------------------
(***************************************************************************)
(* Theorems about Routines, for any handlers, routines, bodies and tasks.  *)
(*                                                                         *)
(* An agent is in the middle of one of eleven lists, and holds a task it   *)
(* spawned exactly while the last operation of the list, which puts that   *)
(* task into a map, is left (Programs).  What the maps and the holders     *)
(* have is disjoint (Handles).  Per routine, Follows says how far the one  *)
(* handler that works on it has brought its loop, and Runs how far the     *)
(* one trigger has brought its execution.                                  *)
(***************************************************************************)
EXTENDS Routines, TLAPS

-----------------------------------------------------------------------------
(* The lists agents work off.                                              *)

PutList == <<"stop", "save", "spawnCron", "insertCron">>
SaveList == <<"save", "spawnCron", "insertCron">>
StartList == <<"spawnCron", "insertCron">>
HoldList == <<"insertCron">>
DeleteList == <<"stop", "cancel", "erase">>
EndList == <<"cancel", "erase">>
EraseList == <<"erase">>
SpawnList == <<"spawn", "insert">>
InsertList == <<"insert">>
CancelList == <<"cancel">>

TriggerLists == {TriggerProgram, SpawnList, InsertList}
ClientLists == TriggerLists \cup
  {PutList, SaveList, StartList, HoldList, DeleteList, EndList, EraseList, CancelList}

(* The lists begin as the operations expect and end in one another.        *)
LEMMA Heads ==
  /\ Head(PutList) = "stop" /\ Head(DeleteList) = "stop" /\ Head(SaveList) = "save"
  /\ Head(StartList) = "spawnCron" /\ Head(HoldList) = "insertCron"
  /\ Head(EndList) = "cancel" /\ Head(TriggerProgram) = "cancel"
  /\ Head(CancelList) = "cancel" /\ Head(EraseList) = "erase"
  /\ Head(SpawnList) = "spawn" /\ Head(InsertList) = "insert"
  BY DEF PutList, SaveList, StartList, HoldList, DeleteList, EndList, EraseList,
         TriggerProgram, SpawnList, InsertList, CancelList

LEMMA Lengths ==
  /\ Len(PutList) = 4 /\ Len(DeleteList) = 3 /\ Len(SaveList) = 3
  /\ Len(StartList) = 2 /\ Len(HoldList) = 1
  /\ Len(EndList) = 2 /\ Len(TriggerProgram) = 3
  /\ Len(CancelList) = 1 /\ Len(EraseList) = 1
  /\ Len(SpawnList) = 2 /\ Len(InsertList) = 1 /\ Len(<<>>) = 0
  BY DEF PutList, SaveList, StartList, HoldList, DeleteList, EndList, EraseList,
         TriggerProgram, SpawnList, InsertList, CancelList

LEMMA Tails ==
  /\ Tail(PutList) = SaveList /\ Tail(DeleteList) = EndList /\ Tail(SaveList) = StartList
  /\ Tail(StartList) = HoldList /\ Tail(HoldList) = <<>>
  /\ Tail(EndList) = EraseList /\ Tail(TriggerProgram) = SpawnList
  /\ Tail(CancelList) = <<>> /\ Tail(EraseList) = <<>>
  /\ Tail(SpawnList) = InsertList /\ Tail(InsertList) = <<>>
  BY DEF PutList, SaveList, StartList, HoldList, DeleteList, EndList, EraseList,
         TriggerProgram, SpawnList, InsertList, CancelList

LEMMA ListsAreSeqs == ClientLists \cup {<<>>} \subseteq Seq(Ops)
  BY DEF ClientLists, TriggerLists, Ops, PutList, SaveList, StartList, HoldList, DeleteList,
         EndList, EraseList, TriggerProgram, SpawnList, InsertList, CancelList

(* The last operation tells the lists of a trigger from the others.        *)
LEMMA Lasts ==
  ASSUME NEW t \in ClientLists
  PROVE  t # <<>> /\ (t[Len(t)] = "insert" <=> t \in TriggerLists)
  BY DEF ClientLists, TriggerLists, PutList, SaveList, StartList, HoldList, DeleteList,
         EndList, EraseList, TriggerProgram, SpawnList, InsertList, CancelList

(* What the next operation says of the list.                               *)
LEMMA NextOperation ==
  ASSUME NEW t \in ClientLists
  PROVE  /\ Head(t) = "save" => t = SaveList
         /\ Head(t) = "spawnCron" => t = StartList
         /\ Head(t) = "insertCron" => t = HoldList
         /\ Head(t) = "stop" => t \in {PutList, DeleteList}
         /\ Head(t) = "cancel" => t \in {EndList, CancelList, TriggerProgram}
         /\ Head(t) = "erase" => t = EraseList
         /\ Head(t) = "spawn" => t = SpawnList
         /\ Head(t) = "insert" => t = InsertList
  BY Heads DEF ClientLists, TriggerLists

(* No two lists are the same.                                              *)
LEMMA ListsDiffer ==
  /\ ClientLists \cap {<<>>} = {}
  /\ \A t \in ClientLists :
       /\ t = HoldList => t \notin TriggerLists /\ t # InsertList
       /\ t \in TriggerLists => t \notin {PutList, SaveList, StartList, DeleteList, EndList, EraseList, CancelList}
  BY Heads, Lengths DEF ClientLists, TriggerLists

-----------------------------------------------------------------------------
(* The inductive invariant.                                                *)

HoldsCron(x) == todo[x] = HoldList
HoldsRun(x) == todo[x] = InsertList

(* What agent x works on fits its list.                                    *)
Fits(x) ==
  /\ Busy(x) => job[x] \in Job
  /\ HoldsCron(x) => job[x].task \in CronIds
  /\ HoldsRun(x) => job[x].task \in RunIds
  /\ Busy(x) /\ ~HoldsCron(x) /\ ~HoldsRun(x) => job[x].task = NoTask
  /\ todo[x] \in {StartList, HoldList} => job[x].body \in ValidBodies

Programs ==
  /\ \A x \in Clients : todo[x] \in ClientLists \cup {<<>>}
  /\ \A c \in CronIds : todo[c] \in TriggerLists \cup {<<>>} /\ (Busy(c) => cron[c] # Over)
  /\ \A x \in Agents : Fits(x)

(* A handle is in one place; a loop yet to be put into the map is as it    *)
(* was spawned, or has come to its end.                                    *)
HandedOn(x) ==
  /\ \A r \in Routines : cronTasks[r] # job[x].task
  /\ \A y \in Clients : HoldsCron(y) /\ job[y].task = job[x].task => x = y
  /\ IF cron[job[x].task] = Over THEN job[x].body \in EndingBodies
     ELSE cron[job[x].task] = [id |-> job[x].id, body |-> job[x].body, aborted |-> FALSE]

Handles ==
  /\ \A r \in Routines : \A c \in CronIds : cronTasks[r] = c /\ cron[c] # Over => cron[c].id = r
  /\ \A r, s \in Routines : cronTasks[r] = cronTasks[s] /\ cronTasks[r] # NoTask => r = s
  /\ \A x \in Clients : HoldsCron(x) => HandedOn(x)

(* Whatever is saved, looped or worked on has been given its id.           *)
Given ==
  /\ \A r \in Routines : saved[r] # NoBody => r \in used
  /\ \A c \in CronIds : cron[c] # Over => cron[c].id \in used
  /\ \A x \in Clients : Busy(x) => job[x].id \in used

InSync(r) ==
  \/ saved[r] \in ValidBodies /\ HasItsLoop(r)
  \/ saved[r] \notin ValidBodies \ EndingBodies /\ LiveCrons(r) = {}

(* How far the one handler of r has come: before it stops the loop, and if *)
(* it never does, loop and tree agree; after that there is none but the    *)
(* one it starts.                                                          *)
Progress(x, r) ==
  /\ todo[x] \in {PutList, DeleteList, CancelList} \cup TriggerLists => InSync(r)
  /\ todo[x] \in {SaveList, StartList, EndList, EraseList} => LiveCrons(r) = {}
  /\ todo[x] \in {StartList, HoldList} => saved[r] = job[x].body
  /\ HoldsCron(x) => LiveCrons(r) \subseteq {job[x].task}

WorksOn(x, r) == Busy(x) /\ job[x].id = r

OneHandler(r) ==
  /\ \A x, y \in Clients : WorksOn(x, r) /\ WorksOn(y, r) => x = y
  /\ \A x \in Clients : WorksOn(x, r) => Progress(x, r)
  /\ (\A x \in Clients : ~WorksOn(x, r)) => InSync(r)

Follows == \A r \in Routines \ mixed : OneHandler(r)

(* How far the one trigger of r has come: when it spawns, what ran before  *)
(* is aborted.                                                             *)
Triggers(x, r) == todo[x] \in TriggerLists /\ job[x].id = r

OneTrigger(r) ==
  /\ \A x, y \in Agents : Triggers(x, r) /\ Triggers(y, r) => x = y
  /\ \A x \in Agents : job[x].id = r =>
       /\ todo[x] = SpawnList => LiveRuns(r) = {}
       /\ HoldsRun(x) => LiveRuns(r) \subseteq {job[x].task}
  /\ \A k \in LiveRuns(r) :
       \/ running[r] = k
       \/ \E x \in Agents : HoldsRun(x) /\ job[x].id = r /\ job[x].task = k

Runs == \A r \in Routines \ raced : OneTrigger(r)

IInv == TypeOK /\ Programs /\ Handles /\ Given /\ Follows /\ Runs /\ NoLostCron

(* The invariant implies the properties that the runs check.               *)
LEMMA FollowsSuffices == IInv => CronFollowsSaved
  BY DEF IInv, Follows, OneHandler, InSync, WorksOn, CronFollowsSaved, AtWorkOn

LEMMA RunsSuffices == IInv => OneRun
<1> SUFFICES ASSUME IInv, NEW r \in Routines \ raced, NEW k \in LiveRuns(r)
             PROVE  /\ LiveRuns(r) = {k}
                    /\ \/ running[r] = k
                       \/ \E x \in Agents : Busy(x) /\ job[x].id = r /\ job[x].task = k
  BY DEF OneRun
<1>1. \A x \in Agents : HoldsRun(x) => Busy(x) /\ todo[x] \in TriggerLists
  BY ListsDiffer DEF HoldsRun, Busy, TriggerLists, ClientLists
<1>2. \A j \in LiveRuns(r) :
         \/ running[r] = j
         \/ \E x \in Agents : HoldsRun(x) /\ job[x].id = r /\ job[x].task = j
  BY DEF IInv, Runs, OneTrigger
<1>3. ASSUME NEW j \in LiveRuns(r) PROVE j = k
  <2>1. CASE \E x \in Agents : HoldsRun(x) /\ job[x].id = r
    BY <2>1 DEF IInv, Runs, OneTrigger
  <2>2. CASE ~ \E x \in Agents : HoldsRun(x) /\ job[x].id = r
    BY <1>2, <2>2
  <2> QED
    BY <2>1, <2>2
<1> QED
  BY <1>1, <1>2, <1>3

LEMMA ListsAreNotEmpty == HoldList # <<>> /\ InsertList # <<>>
  BY Lengths

LEMMA InitIInv == Init => IInv
<1> SUFFICES ASSUME Init PROVE IInv
  OBVIOUS
<1> USE DEF Init
<1>1. TypeOK
  BY ListsAreSeqs DEF TypeOK
<1>2. \A x \in Agents : ~Busy(x) /\ ~HoldsCron(x) /\ ~HoldsRun(x)
  <2> SUFFICES ASSUME NEW x \in Agents PROVE ~Busy(x) /\ ~HoldsCron(x) /\ ~HoldsRun(x)
    OBVIOUS
  <2>1. todo[x] = <<>>
    BY Zenon
  <2>2. HoldList # <<>> /\ InsertList # <<>>
    BY ListsAreNotEmpty
  <2> QED
    BY <2>1, <2>2 DEF Busy, HoldsCron, HoldsRun
<1>3. Programs /\ Handles /\ Given
  BY <1>2, ListsDiffer DEF Programs, Fits, Handles, HandedOn, Given, Agents, ClientLists
<1>4. \A r \in Routines : LiveCrons(r) = {} /\ LiveRuns(r) = {}
  BY DEF LiveCrons, LiveRuns
<1>5. Follows /\ NoLostCron
  BY <1>2, <1>4, RoutinesAssumption DEF Follows, OneHandler, WorksOn, InSync, Agents, NoLostCron
<1>6. Runs
  BY <1>2, <1>4, ListsDiffer DEF Runs, OneTrigger, Triggers, TriggerLists, ClientLists
<1> QED
  BY <1>1, <1>3, <1>5, <1>6 DEF IInv

-----------------------------------------------------------------------------
(* Operations.                                                             *)

(* The list of an agent that is about to do op, and what it works on.      *)
LEMMA AtWork ==
  ASSUME IInv, NEW x \in Agents, Busy(x)
  PROVE  /\ todo[x] \in ClientLists /\ job[x] \in Job
         /\ todo[x] \notin TriggerLists => x \in Clients
         /\ x \in CronIds => x \notin Clients /\ cron[x] # Over
  BY RoutinesAssumption DEF IInv, Programs, Fits, Agents, Busy, ClientLists

(* The step of agent x changes nothing of the others.                      *)
OthersStay(x) == \A y \in Agents \ {x} : todo'[y] = todo[y] /\ job'[y] = job[y]

LEMMA ProgramsKeep ==
  ASSUME Programs, NEW x \in Agents, OthersStay(x), Fits(x)',
         x \in Clients => todo'[x] \in ClientLists \cup {<<>>},
         x \in CronIds => todo'[x] \in TriggerLists \cup {<<>>},
         \A c \in CronIds : cron'[c] = Over => cron[c] = Over \/ ~Busy(c)',
         x \in CronIds => cron'[x] # Over \/ ~Busy(x)'
  PROVE  Programs'
<1>1. \A y \in Clients : todo'[y] \in ClientLists \cup {<<>>}
  BY DEF Programs, OthersStay, Agents
<1>2. \A c \in CronIds : todo'[c] \in TriggerLists \cup {<<>>} /\ (Busy(c)' => cron'[c] # Over)
  BY DEF Programs, OthersStay, Agents, Busy
<1>3. ASSUME NEW y \in Agents PROVE Fits(y)'
  BY DEF Programs, OthersStay, Fits, Busy, HoldsCron, HoldsRun
<1> QED
  BY <1>1, <1>2, <1>3 DEF Programs

(* The map of loops is as it was, and a loop that ends had been aborted.   *)
LoopsStay ==
  /\ cronTasks' = cronTasks
  /\ \A c \in CronIds :
       \/ cron'[c] = cron[c]
       \/ cron'[c] = Over /\ cron[c] # Over /\ cron[c].aborted

LEMMA SameLoopsStay == cronTasks' = cronTasks /\ cron' = cron => LoopsStay
  BY DEF LoopsStay

LEMMA LiveLoopsStay ==
  ASSUME LoopsStay, NEW r \in Routines
  PROVE  LiveCrons(r)' = LiveCrons(r) /\ \A c \in LiveCrons(r) : cron'[c] = cron[c]
  BY DEF LoopsStay, LiveCrons

LEMMA HandlesKeep ==
  ASSUME IInv, NEW x \in Agents, OthersStay(x), LoopsStay, ~HoldsCron(x), ~HoldsCron(x)'
  PROVE  Handles' /\ NoLostCron'
<1>1. \A y \in Clients : HoldsCron(y)' => HoldsCron(y) /\ job'[y] = job[y]
  BY DEF OthersStay, HoldsCron, Agents
<1>2. Handles'
  <2>1. ASSUME NEW y \in Clients, HoldsCron(y)' PROVE HandedOn(y)'
    <3>1. HoldsCron(y) /\ job'[y] = job[y] /\ HandedOn(y) /\ job[y].task \in CronIds
      BY <1>1, <2>1 DEF IInv, Handles, Programs, Fits, Agents
    <3>2. cron[job[y].task] = Over \/ cron[job[y].task].aborted = FALSE
      BY <3>1 DEF HandedOn
    <3>3. cron'[job[y].task] = cron[job[y].task]
      BY <3>1, <3>2 DEF LoopsStay
    <3> QED
      BY <1>1, <3>1, <3>3 DEF HandedOn, LoopsStay
  <2> QED
    BY <2>1 DEF IInv, Handles, LoopsStay
<1>3. ASSUME NEW r \in Routines, NEW c \in LiveCrons(r), cronTasks[r] # c
      PROVE  \E y \in Clients : Busy(y)' /\ job'[y].id = r /\ job'[y].task = c
  <2>1. PICK y \in Clients : Busy(y) /\ job[y].id = r /\ job[y].task = c
    BY <1>3 DEF IInv, NoLostCron
  <2>2. y # x
    BY <2>1, RoutinesAssumption DEF IInv, Programs, Fits, LiveCrons, Agents
  <2> QED
    BY <2>1, <2>2 DEF OthersStay, Agents, Busy
<1>4. \A r \in Routines : LiveCrons(r)' = LiveCrons(r) /\ cronTasks'[r] = cronTasks[r]
  BY LiveLoopsStay DEF LoopsStay
<1> QED
  BY <1>2, <1>3, <1>4 DEF NoLostCron

(* Executions and their map as they are, and x triggers neither before nor *)
(* after.                                                                  *)
LEMMA RunsKeep ==
  ASSUME Runs, NEW x \in Agents, OthersStay(x), UNCHANGED <<runVars, raced>>,
         todo[x] \notin TriggerLists, todo'[x] \notin TriggerLists
  PROVE  Runs'
<1> SUFFICES ASSUME NEW r \in Routines \ raced PROVE OneTrigger(r)'
  BY DEF runVars, Runs
<1>1. LiveRuns(r)' = LiveRuns(r) /\ running' = running
  BY DEF LiveRuns, runVars
<1>2. SpawnList \in TriggerLists /\ InsertList \in TriggerLists
  BY DEF TriggerLists
<1>3. \A y \in Agents : HoldsRun(y) <=> HoldsRun(y)'
  BY <1>2 DEF OthersStay, HoldsRun
<1> QED
  BY <1>1, <1>2, <1>3 DEF Runs, OneTrigger, Triggers, OthersStay, HoldsRun

(* Handlers on other routines than x works on, before or after, see        *)
(* nothing of what changes.                                                *)
LEMMA FollowsKeep ==
  ASSUME Follows, NEW x \in Agents, OthersStay(x), NEW r \in Routines \ mixed,
         ~WorksOn(x, r) \/ x \notin Clients, ~WorksOn(x, r)' \/ x \notin Clients,
         LiveCrons(r)' = LiveCrons(r), cronTasks'[r] = cronTasks[r],
         \A c \in LiveCrons(r) : cron'[c] = cron[c],
         saved'[r] = saved[r]
  PROVE  OneHandler(r)'
<1>1. \A y \in Clients : WorksOn(y, r)' = WorksOn(y, r)
  BY DEF OthersStay, WorksOn, Busy, Agents
<1>2. HasItsLoop(r) => HasItsLoop(r)'
  BY DEF HasItsLoop
<1>3. InSync(r) => InSync(r)'
  BY <1>2 DEF InSync
<1>4. ASSUME NEW y \in Clients, WorksOn(y, r)' PROVE Progress(y, r)'
  <2>1. todo'[y] = todo[y] /\ job'[y] = job[y] /\ Progress(y, r)
    BY <1>1, <1>4 DEF OthersStay, Follows, OneHandler, Agents
  <2> QED
    BY <1>3, <2>1 DEF Progress, HoldsCron
<1> QED
  BY <1>1, <1>3, <1>4 DEF Follows, OneHandler

(* A handler that works on routine id has it to itself and touches nothing *)
(* of other routines.                                                      *)
LEMMA FollowsAtWork ==
  ASSUME Follows, NEW x \in Clients, OthersStay(x), mixed' = mixed,
         NEW id \in Routines, WorksOn(x, id), Busy(x)' => job'[x].id = id,
         \A r \in Routines \ {id} :
           /\ LiveCrons(r)' = LiveCrons(r) /\ cronTasks'[r] = cronTasks[r]
           /\ saved'[r] = saved[r]
           /\ \A c \in LiveCrons(r) : cron'[c] = cron[c],
         id \notin mixed /\ Progress(x, id) =>
           /\ Busy(x)' => Progress(x, id)'
           /\ ~Busy(x)' => InSync(id)'
  PROVE  Follows'
<1>1. ASSUME NEW r \in Routines \ mixed, r # id PROVE OneHandler(r)'
  <2>1. ~WorksOn(x, r) /\ ~WorksOn(x, r)' /\ x \in Agents
    BY <1>1 DEF WorksOn, Busy, Agents
  <2> QED
    BY <1>1, <2>1, FollowsKeep
<1>2. ASSUME id \notin mixed PROVE OneHandler(id)'
  <2>1. \A y \in Clients : WorksOn(y, id)' => y = x
    BY <1>2 DEF Follows, OneHandler, WorksOn, Busy, OthersStay, Agents
  <2>2. Progress(x, id)
    BY <1>2 DEF Follows, OneHandler
  <2>3. WorksOn(x, id)' <=> Busy(x)'
    BY DEF WorksOn
  <2> QED
    BY <1>2, <2>1, <2>2, <2>3 DEF OneHandler
<1> QED
  BY <1>1, <1>2 DEF Follows

(* An agent that is busy with executions is nobody's progress.             *)
LEMMA FollowsAside ==
  ASSUME Follows, NEW x \in Agents, OthersStay(x), LoopsStay, saved' = saved, mixed' = mixed,
         NEW id \in Routines, WorksOn(x, id), Busy(x)' => job'[x].id = id,
         \/ /\ todo[x] \in TriggerLists \cup {CancelList}
            /\ Busy(x)' => todo'[x] \in TriggerLists
         \/ todo[x] = EndList /\ todo'[x] = EraseList
  PROVE  Follows'
<1>1. \A r \in Routines : /\ LiveCrons(r)' = LiveCrons(r) /\ cronTasks'[r] = cronTasks[r]
                          /\ \A c \in LiveCrons(r) : cron'[c] = cron[c]
  BY LiveLoopsStay DEF LoopsStay
<1>2. InSync(id) => InSync(id)'
  BY <1>1 DEF InSync, HasItsLoop
<1>3. CASE x \in Clients
  <2>1. ASSUME Progress(x, id) PROVE (Busy(x)' => Progress(x, id)') /\ (~Busy(x)' => InSync(id)')
    <3>1. CASE todo[x] \in TriggerLists \cup {CancelList} /\ (Busy(x)' => todo'[x] \in TriggerLists)
      <4>1. InSync(id)'
        BY <1>2, <2>1, <3>1 DEF Progress
      <4> QED
        BY <3>1, <4>1, Heads, Lengths DEF Progress, TriggerLists, HoldsCron
    <3>2. CASE todo[x] = EndList /\ todo'[x] = EraseList
      <4>1. LiveCrons(id)' = {}
        BY <1>1, <2>1, <3>2 DEF Progress
      <4>2. Busy(x)'
        BY <3>2, ListsDiffer DEF Busy, ClientLists
      <4> QED
        BY <3>2, <4>1, <4>2, Heads, Lengths DEF Progress, TriggerLists, HoldsCron
    <3> QED
      BY <3>1, <3>2
  <2> QED
    BY <1>1, <1>3, <2>1, FollowsAtWork
<1>4. CASE x \notin Clients
  BY <1>1, <1>4, FollowsKeep DEF Follows
<1> QED
  BY <1>3, <1>4

(* A body that is saved without a schedule leaves its routine without a    *)
(* loop; one with a schedule is about to get its loop.                     *)
LEMMA SaveKeeps ==
  ASSUME IInv, NEW x \in Agents, Save(x)
  PROVE  IInv'
<1> USE DEF IInv
<1> SUFFICES ASSUME NEW id, NEW body, id = job[x].id, body = job[x].body
             PROVE  IInv'
  OBVIOUS
<1>1. todo[x] = SaveList /\ job[x] \in Job /\ x \in Clients /\ Busy(x)
  BY AtWork, NextOperation, ListsDiffer DEF Save, Does, ClientLists
<1>2. /\ id \in Routines /\ body \in Bodies \cup {NoBody}
      /\ saved' = [saved EXCEPT ![id] = body]
      /\ UNCHANGED <<used, cronTasks, running, cron, run, mixed, raced>>
      /\ OthersStay(x)
  BY <1>1 DEF Save, Left, cronVars, runVars, history, Job, TypeOK, OthersStay
<1>3. \/ body \in ValidBodies /\ todo'[x] = StartList /\ job'[x] = job[x]
      \/ body \notin ValidBodies /\ todo'[x] = <<>> /\ job'[x] = NoJob
  BY <1>1, Tails, ListsDiffer DEF Save, Left, TypeOK, ClientLists
<1>4. job[x].task = NoTask
  BY <1>1, Heads DEF Programs, Fits, HoldsCron, HoldsRun
<1>5. TypeOK'
  BY <1>1, <1>2, <1>3, ListsAreSeqs DEF Save, Left, TypeOK, ClientLists
<1>6. Programs'
  <2>1. Fits(x)'
    BY <1>1, <1>3, <1>4, Heads, Lengths DEF Fits, HoldsCron, HoldsRun, Busy
  <2> QED
    BY <1>1, <1>2, <1>3, <2>1, AtWork, ProgramsKeep DEF ClientLists
<1>7. Handles' /\ NoLostCron'
  <2>1. LoopsStay
    BY <1>2, SameLoopsStay
  <2>2. ~HoldsCron(x) /\ ~HoldsCron(x)'
    BY <1>1, <1>3, Heads, Lengths DEF HoldsCron
  <2> QED
    BY <1>2, <2>1, <2>2, HandlesKeep
<1>8. Given'
  BY <1>1, <1>2, <1>3 DEF Given, Busy, TypeOK, Agents, OthersStay
<1>9. Follows'
  <2>1. \A r \in Routines : LiveCrons(r)' = LiveCrons(r)
    BY <1>2 DEF LiveCrons
  <2>2. ASSUME Progress(x, id)
        PROVE  (Busy(x)' => Progress(x, id)') /\ (~Busy(x)' => InSync(id)')
    <3>1. LiveCrons(id)' = {} /\ saved'[id] = body
      BY <1>1, <1>2, <2>1, <2>2 DEF Progress, TypeOK
    <3> QED
      BY <1>3, <3>1, Heads, Lengths DEF Busy, Progress, TriggerLists, HoldsCron, InSync
  <2> QED
    BY <1>1, <1>2, <1>3, <2>1, <2>2, FollowsAtWork DEF WorksOn, Busy, TypeOK
<1>10. Runs'
  BY <1>1, <1>2, <1>3, Heads, Lengths, RunsKeep DEF runVars, TriggerLists
<1> QED
  BY <1>5, <1>6, <1>7, <1>8, <1>9, <1>10

(* A new loop runs the body it was spawned with and is in nobody else's    *)
(* hands.                                                                  *)
LEMMA SpawnCronKeeps ==
  ASSUME IInv, NEW x \in Agents, SpawnCron(x)
  PROVE  IInv'
<1> USE DEF IInv
<1> SUFFICES ASSUME NEW id, NEW body, NEW loop, id = job[x].id, body = job[x].body,
                    loop = [id |-> id, body |-> body, aborted |-> FALSE]
             PROVE  IInv'
  OBVIOUS
<1>1. todo[x] = StartList /\ job[x] \in Job /\ x \in Clients /\ Busy(x)
  BY AtWork, NextOperation, ListsDiffer DEF SpawnCron, Does, ClientLists
<1>2. id \in Routines /\ body \in ValidBodies /\ loop \in CronTask
      /\ job[x].task = NoTask /\ loop.id = id /\ loop.body = body /\ ~loop.aborted
  BY <1>1, Heads DEF Programs, Fits, HoldsCron, HoldsRun, Job, CronTask
<1>3. PICK c \in FreeCrons : cron' = [cron EXCEPT ![c] = loop] /\ WithTask(x, c)
  BY DEF SpawnCron
<1>4. /\ c \in CronIds /\ cron[c] = Over /\ ~Busy(c) /\ c # x
      /\ \A r \in Routines : cronTasks[r] # c
      /\ \A y \in Clients : Busy(y) => job[y].task # c
      /\ loop # Over
  BY <1>1, <1>2, RoutinesAssumption DEF FreeCrons
<1>5. /\ UNCHANGED <<saved, used, cronTasks, running, run, mixed, raced>>
      /\ OthersStay(x) /\ todo'[x] = HoldList
      /\ job'[x] = [job[x] EXCEPT !.task = c]
      /\ job'[x].id = id /\ job'[x].body = body /\ job'[x].task = c /\ job'[x] \in Job
  <2>1. /\ UNCHANGED <<saved, used, cronTasks, running, run, mixed, raced>>
        /\ todo' = [todo EXCEPT ![x] = Tail(@)] /\ job' = [job EXCEPT ![x].task = c]
    BY <1>3 DEF SpawnCron, WithTask, runVars, history
  <2>2. OthersStay(x) /\ todo'[x] = HoldList /\ job'[x] = [job[x] EXCEPT !.task = c]
    BY <1>1, <2>1, Tails DEF TypeOK, OthersStay
  <2>3. /\ job'[x].id = id /\ job'[x].body = body /\ job'[x].task = c
        /\ job'[x] \in Job
    BY <1>1, <1>4, <2>2 DEF Job, Tasks
  <2> QED
    BY <2>1, <2>2, <2>3
<1>6. cron'[c] = loop /\ \A d \in CronIds \ {c} : cron'[d] = cron[d]
  BY <1>3, <1>4 DEF TypeOK
<1>7. TypeOK'
  BY <1>1, <1>2, <1>3, <1>5, ListsAreSeqs, Tails DEF WithTask, TypeOK, ClientLists
<1>8. Programs'
  <2>1. Fits(x)'
    BY <1>2, <1>4, <1>5, Heads DEF Fits, HoldsCron, HoldsRun, Busy
  <2> QED
    BY <1>1, <1>4, <1>5, <1>6, <2>1, AtWork, ProgramsKeep DEF ClientLists
<1>9. Handles'
  <2>1. \A y \in Clients \ {x} : HoldsCron(y)' =>
          HoldsCron(y) /\ job'[y] = job[y] /\ job[y].task \in CronIds \ {c}
    <3>1. HoldList # <<>>
      BY ListsDiffer DEF ClientLists
    <3> QED
      BY <1>4, <1>5, <3>1 DEF HoldsCron, OthersStay, Agents, Busy, Programs, Fits
  <2>2. \A y \in Clients \ {x} : HoldsCron(y)' => cron'[job'[y].task] = cron[job[y].task]
    BY <1>6, <2>1
  <2>3. \A r \in Routines : \A d \in CronIds : cronTasks'[r] = d /\ cron'[d] # Over => cron'[d].id = r
    BY <1>4, <1>5, <1>6 DEF Handles, HandedOn
  <2>4. ASSUME NEW y \in Clients, HoldsCron(y)' PROVE HandedOn(y)'
    <3>1. CASE y = x
      BY <1>4, <1>5, <1>6, <2>1, <3>1 DEF HandedOn
    <3>2. CASE y # x
      <4>1. HoldsCron(y) /\ job'[y] = job[y] /\ job[y].task # c /\ cron'[job'[y].task] = cron[job[y].task]
        BY <2>1, <2>2, <2>4, <3>2
      <4>2. ASSUME NEW z \in Clients, HoldsCron(z)', job'[z].task = job[y].task PROVE y = z
        <5>1. HandedOn(y)
          BY <4>1 DEF Handles
        <5>2. CASE z = x
          BY <1>5, <4>1, <4>2, <5>2
        <5>3. CASE z # x
          <6>1. HoldsCron(z) /\ job'[z] = job[z]
            BY <2>1, <4>2, <5>3
          <6> QED
            BY <4>2, <5>1, <6>1 DEF HandedOn
        <5> QED
          BY <5>2, <5>3
      <4> QED
        BY <1>5, <4>1, <4>2 DEF Handles, HandedOn
    <3> QED
      BY <3>1, <3>2
  <2> QED
    BY <1>5, <2>3, <2>4 DEF Handles, HandedOn
<1>10. Given'
  <2>1. id \in used
    BY <1>1 DEF Given
  <2>2. \A d \in CronIds : cron'[d] # Over => cron'[d].id \in used
    BY <1>2, <1>6, <2>1 DEF Given
  <2>3. \A y \in Clients : Busy(y)' => job'[y].id \in used
    BY <1>5, <2>1 DEF Given, Busy, OthersStay, Agents
  <2> QED
    BY <1>5, <2>2, <2>3 DEF Given
<1>11. Follows'
  <2>1. LiveCrons(id)' = LiveCrons(id) \cup {c}
    BY <1>4, <1>6 DEF LiveCrons
  <2>2. \A r \in Routines \ {id} : LiveCrons(r)' = LiveCrons(r)
    BY <1>4, <1>6 DEF LiveCrons
  <2>3. \A r \in Routines : \A d \in LiveCrons(r) : cron'[d] = cron[d]
    BY <1>4, <1>6 DEF LiveCrons
  <2>4. Progress(x, id) => Progress(x, id)' /\ Busy(x)'
    BY <1>1, <1>5, <2>1, Heads, Lengths DEF Progress, HoldsCron, TriggerLists, Busy
  <2> QED
    BY <1>1, <1>2, <1>5, <2>2, <2>3, <2>4, FollowsAtWork DEF WorksOn, TypeOK
<1>12. Runs'
  BY <1>1, <1>5, Heads, Lengths, RunsKeep DEF runVars, TriggerLists, SpawnCron
<1>13. NoLostCron'
  <2> SUFFICES ASSUME NEW r \in Routines, NEW d \in LiveCrons(r)', cronTasks[r] # d
               PROVE  \E y \in Clients : Busy(y)' /\ job'[y].id = r /\ job'[y].task = d
    BY <1>5 DEF NoLostCron
  <2>1. CASE d = c
    <3>1. HoldList # <<>> /\ loop.id = r
      BY <1>6, <2>1, ListsDiffer DEF LiveCrons, ClientLists
    <3> QED
      BY <1>1, <1>2, <1>5, <2>1, <3>1 DEF Busy
  <2>2. CASE d # c
    <3>1. PICK y \in Clients : Busy(y) /\ job[y].id = r /\ job[y].task = d
      BY <1>6, <2>2 DEF NoLostCron, LiveCrons
    <3>2. y # x
      BY <1>2, <3>1, RoutinesAssumption DEF LiveCrons
    <3> QED
      BY <1>5, <3>1, <3>2 DEF OthersStay, Agents, Busy
  <2> QED
    BY <2>1, <2>2
<1> QED
  BY <1>7, <1>8, <1>9, <1>10, <1>11, <1>12, <1>13

(* Aborting a loop takes it from the live ones, at once or marked.         *)
LEMMA AbortCronEffect ==
  ASSUME TypeOK, NEW o \in CronIds \cup {NoTask}, AbortCron(o)
  PROVE  /\ cron' \in [CronIds -> CronTask \cup {Over}]
         /\ \A d \in CronIds : d # o => cron'[d] = cron[d]
         /\ \A d \in CronIds : cron'[d] = Over => cron[d] = Over \/ ~Busy(d)
         /\ \A d \in CronIds : cron'[d] # Over => cron[d] # Over /\ cron'[d].id = cron[d].id
         /\ \A r \in Routines : LiveCrons(r)' = LiveCrons(r) \ {o}
<1>1. CASE o = NoTask \/ cron[o] = Over
  <2>1. cron' = cron
    BY <1>1 DEF AbortCron
  <2> QED
    BY <1>1, <2>1, RoutinesAssumption DEF LiveCrons, TypeOK
<1>2. CASE o # NoTask /\ cron[o] # Over /\ Busy(o)
  <2>1. o \in CronIds /\ cron[o] \in CronTask
    BY <1>2 DEF TypeOK
  <2>2. cron' = [cron EXCEPT ![o] = [cron[o] EXCEPT !.aborted = TRUE]]
    BY <1>2 DEF AbortCron
  <2>3. /\ [cron[o] EXCEPT !.aborted = TRUE] \in CronTask
        /\ [cron[o] EXCEPT !.aborted = TRUE].aborted
        /\ [cron[o] EXCEPT !.aborted = TRUE].id = cron[o].id
    BY <2>1 DEF CronTask
  <2>4. /\ cron' \in [CronIds -> CronTask \cup {Over}]
        /\ cron'[o] \in CronTask /\ cron'[o].aborted /\ cron'[o].id = cron[o].id
        /\ \A d \in CronIds : d # o => cron'[d] = cron[d]
    BY <2>1, <2>2, <2>3 DEF TypeOK
  <2> QED
    BY <1>2, <2>1, <2>4, RoutinesAssumption DEF LiveCrons
<1>3. CASE o # NoTask /\ cron[o] # Over /\ ~Busy(o)
  <2>1. cron' = [cron EXCEPT ![o] = Over] /\ o \in CronIds
    BY <1>3 DEF AbortCron
  <2>2. /\ cron' \in [CronIds -> CronTask \cup {Over}]
        /\ cron'[o] = Over /\ \A d \in CronIds : d # o => cron'[d] = cron[d]
    BY <2>1 DEF TypeOK
  <2> QED
    BY <1>3, <2>1, <2>2 DEF LiveCrons
<1> QED
  BY <1>1, <1>2, <1>3

(* The handle that start_cron puts into the map takes the place of the one *)
(* that is aborted, which was of the same routine.                         *)
LEMMA InsertCronKeeps ==
  ASSUME IInv, NEW x \in Agents, InsertCron(x)
  PROVE  IInv'
<1> USE DEF IInv
<1> SUFFICES ASSUME NEW id, NEW body, NEW c, NEW o, id = job[x].id, body = job[x].body,
                    c = job[x].task, o = cronTasks[id]
             PROVE  IInv'
  OBVIOUS
<1>1. todo[x] = HoldList /\ job[x] \in Job /\ x \in Clients /\ Busy(x) /\ HoldsCron(x)
  BY AtWork, NextOperation, ListsDiffer DEF InsertCron, Does, ClientLists, HoldsCron
<1>2. id \in Routines /\ body \in ValidBodies /\ c \in CronIds /\ c # NoTask
      /\ o \in CronIds \cup {NoTask}
  BY <1>1, RoutinesAssumption DEF Programs, Fits, Job, TypeOK
<1>3. /\ \A r \in Routines : cronTasks[r] # c
      /\ o # c
      /\ \A y \in Clients \ {x} : HoldsCron(y) => job[y].task # c
      /\ IF cron[c] = Over THEN body \in EndingBodies
         ELSE cron[c] = [id |-> id, body |-> body, aborted |-> FALSE]
  BY <1>1, <1>2 DEF Handles, HandedOn
<1>4. /\ UNCHANGED <<saved, used, running, run, mixed, raced>>
      /\ OthersStay(x) /\ todo'[x] = <<>> /\ job'[x] = NoJob
  BY <1>1, Tails DEF InsertCron, Left, runVars, history, TypeOK, OthersStay
<1>5. cronTasks'[id] = c /\ \A r \in Routines \ {id} : cronTasks'[r] = cronTasks[r]
  BY <1>2 DEF InsertCron, TypeOK
<1>6. /\ cron' \in [CronIds -> CronTask \cup {Over}]
      /\ \A d \in CronIds : d # o => cron'[d] = cron[d]
      /\ \A d \in CronIds : cron'[d] = Over => cron[d] = Over \/ ~Busy(d)
      /\ \A d \in CronIds : cron'[d] # Over => cron[d] # Over /\ cron'[d].id = cron[d].id
      /\ \A r \in Routines : LiveCrons(r)' = LiveCrons(r) \ {o}
  <2>1. AbortCron(o)
    BY DEF InsertCron
  <2> QED
    BY <1>2, <2>1, AbortCronEffect
<1>7. ~HoldsCron(x)' /\ ~HoldsRun(x)' /\ ~Busy(x)'
  BY <1>4, ListsDiffer DEF HoldsCron, HoldsRun, Busy, ClientLists, TriggerLists
<1>8. \A y \in Clients : HoldsCron(y)' => y # x /\ HoldsCron(y) /\ job'[y] = job[y]
  BY <1>4, <1>7 DEF HoldsCron, OthersStay, Agents
<1>9. \A r \in Routines \ {id} : o \notin LiveCrons(r)
  BY <1>2 DEF LiveCrons, Handles
<1>10. TypeOK'
  <2>1. todo' \in [Agents -> Seq(Ops)] /\ job' \in [Agents -> Job \cup {NoJob}]
    BY <1>1, Tails, ListsAreSeqs DEF InsertCron, Left, TypeOK
  <2>2. cronTasks' \in [Routines -> CronIds \cup {NoTask}]
    BY <1>2 DEF InsertCron, TypeOK
  <2> QED
    BY <1>4, <1>6, <2>1, <2>2 DEF TypeOK
<1>11. Programs'
  <2>1. Fits(x)' /\ todo'[x] \in {<<>>}
    BY <1>4, <1>7, ListsDiffer DEF Fits, ClientLists
  <2>2. \A d \in CronIds : cron'[d] = Over => cron[d] = Over \/ ~Busy(d)'
    BY <1>1, <1>4, <1>6, AtWork DEF OthersStay, Busy, Agents
  <2> QED
    BY <1>1, <1>4, <1>7, <2>1, <2>2, AtWork, ProgramsKeep
<1>12. Handles'
  <2>1. \A r \in Routines : \A d \in CronIds : cronTasks'[r] = d /\ cron'[d] # Over => cron'[d].id = r
    <3>1. cron[c] # Over => cron[c].id = id
      BY <1>3
    <3> QED
      BY <1>5, <1>6, <3>1 DEF Handles, HandedOn
  <2>2. \A r, s \in Routines : cronTasks'[r] = cronTasks'[s] /\ cronTasks'[r] # NoTask => r = s
    BY <1>3, <1>5 DEF Handles, HandedOn
  <2>3. ASSUME NEW y \in Clients, HoldsCron(y)' PROVE HandedOn(y)'
    <3>1. /\ HoldsCron(y) /\ job'[y] = job[y] /\ job[y].task # c
          /\ job[y].task # o /\ job[y].task \in CronIds
      BY <1>1, <1>2, <1>3, <1>8, <2>3, RoutinesAssumption DEF Handles, HandedOn, Programs, Fits, Agents
    <3>2. cron'[job'[y].task] = cron[job[y].task]
      BY <1>6, <3>1
    <3>3. \A z \in Clients : HoldsCron(z)' /\ job'[z].task = job'[y].task => y = z
      BY <1>8, <2>3 DEF Handles, HandedOn
    <3> QED
      BY <1>5, <3>1, <3>2, <3>3 DEF Handles, HandedOn
  <2> QED
    BY <2>1, <2>2, <2>3 DEF Handles, HandedOn
<1>13. Given'
  BY <1>4, <1>6, <1>7 DEF Given, Busy, OthersStay, Agents
<1>14. Follows'
  <2>1. ASSUME Progress(x, id) PROVE InSync(id)'
    <3>1. saved'[id] = body /\ LiveCrons(id)' \subseteq {c}
      <4>1. saved[id] = body /\ LiveCrons(id) \subseteq {c}
        BY <1>1, <2>1 DEF Progress
      <4> QED
        BY <1>2, <1>4, <1>6, <4>1
    <3>2. CASE cron[c] = Over
      <4>1. LiveCrons(id)' = {}
        BY <1>3, <1>6, <3>1, <3>2 DEF LiveCrons
      <4> QED
        BY <1>3, <3>1, <3>2, <4>1 DEF InSync
    <3>3. CASE cron[c] # Over
      <4>1. cron'[c] = [id |-> id, body |-> body, aborted |-> FALSE] /\ cron'[c] # Over
        BY <1>2, <1>3, <1>6, <3>3
      <4>2. LiveCrons(id)' = {c}
        BY <1>2, <3>1, <4>1 DEF LiveCrons
      <4> QED
        BY <1>2, <1>5, <3>1, <4>1, <4>2 DEF InSync, HasItsLoop
    <3> QED
      BY <3>2, <3>3
  <2>2. \A r \in Routines \ {id} : LiveCrons(r)' = LiveCrons(r) /\ saved'[r] = saved[r]
           /\ \A d \in LiveCrons(r) : cron'[d] = cron[d]
    BY <1>4, <1>6, <1>9 DEF LiveCrons
  <2> QED
    BY <1>1, <1>2, <1>4, <1>5, <1>7, <2>1, <2>2, FollowsAtWork DEF WorksOn
<1>15. Runs'
  <2>1. todo[x] \notin TriggerLists /\ todo'[x] \notin TriggerLists
    BY <1>1, <1>4, ListsDiffer DEF ClientLists
  <2> QED
    BY <1>4, <2>1, RunsKeep DEF runVars
<1>16. NoLostCron'
  <2> SUFFICES ASSUME NEW r \in Routines, NEW d \in LiveCrons(r)', cronTasks'[r] # d
               PROVE  \E y \in Clients : Busy(y)' /\ job'[y].id = r /\ job'[y].task = d
    BY DEF NoLostCron
  <2>1. d \in LiveCrons(r) /\ d # o /\ cronTasks[r] # d
    BY <1>5, <1>6
  <2>2. PICK y \in Clients : Busy(y) /\ job[y].id = r /\ job[y].task = d
    BY <2>1 DEF NoLostCron
  <2>3. y # x
    BY <1>5, <2>2
  <2> QED
    BY <1>4, <2>2, <2>3 DEF OthersStay, Agents, Busy
<1> QED
  BY <1>10, <1>11, <1>12, <1>13, <1>14, <1>15, <1>16

(* A handler that stops the loop of its routine leaves it without one.     *)
LEMMA StopKeeps ==
  ASSUME IInv, NEW x \in Agents, Stop(x)
  PROVE  IInv'
<1> USE DEF IInv
<1> SUFFICES ASSUME NEW id, NEW o, id = job[x].id, o = cronTasks[id]
             PROVE  IInv'
  OBVIOUS
<1>1. todo[x] \in {PutList, DeleteList} /\ job[x] \in Job /\ x \in Clients /\ Busy(x)
  BY AtWork, NextOperation, ListsDiffer DEF Stop, Does, ClientLists
<1>2. id \in Routines /\ job[x].task = NoTask /\ o \in CronIds \cup {NoTask}
  BY <1>1, Heads DEF Programs, Fits, HoldsCron, HoldsRun, Job, TypeOK
<1>3. /\ UNCHANGED <<saved, used, running, run, mixed, raced>>
      /\ OthersStay(x) /\ todo'[x] \in {SaveList, EndList} /\ job'[x] = job[x]
  <2>1. {SaveList, EndList} \cap {<<>>} = {}
    BY ListsDiffer DEF ClientLists
  <2> QED
    BY <1>1, <2>1, Tails DEF Stop, Left, runVars, history, TypeOK, OthersStay
<1>4. cronTasks'[id] = NoTask /\ \A r \in Routines \ {id} : cronTasks'[r] = cronTasks[r]
  BY <1>2 DEF Stop, TypeOK
<1>5. /\ cron' \in [CronIds -> CronTask \cup {Over}]
      /\ \A d \in CronIds : d # o => cron'[d] = cron[d]
      /\ \A d \in CronIds : cron'[d] = Over => cron[d] = Over \/ ~Busy(d)
      /\ \A d \in CronIds : cron'[d] # Over => cron[d] # Over /\ cron'[d].id = cron[d].id
      /\ \A r \in Routines : LiveCrons(r)' = LiveCrons(r) \ {o}
  <2>1. AbortCron(o)
    BY DEF Stop
  <2> QED
    BY <1>2, <2>1, AbortCronEffect
<1>6. ~HoldsCron(x) /\ ~HoldsCron(x)' /\ ~HoldsRun(x)' /\ Busy(x)'
  BY <1>1, <1>3, Heads, ListsDiffer DEF HoldsCron, HoldsRun, Busy, ClientLists
<1>7. \A y \in Clients : HoldsCron(y)' => HoldsCron(y) /\ job'[y] = job[y]
  BY <1>3, <1>6 DEF HoldsCron, OthersStay, Agents
<1>8. \A r \in Routines \ {id} : o \notin LiveCrons(r)
  BY <1>2 DEF LiveCrons, Handles
<1>9. TypeOK'
  <2>1. todo' \in [Agents -> Seq(Ops)] /\ job' \in [Agents -> Job \cup {NoJob}]
    BY <1>1, Tails, ListsAreSeqs DEF Stop, Left, TypeOK, ClientLists
  <2>2. cronTasks' \in [Routines -> CronIds \cup {NoTask}]
    BY <1>2 DEF Stop, TypeOK
  <2> QED
    BY <1>3, <1>5, <2>1, <2>2 DEF TypeOK
<1>10. Programs'
  <2>1. Fits(x)' /\ todo'[x] \in ClientLists
    BY <1>1, <1>2, <1>3, <1>6, Heads DEF Fits, ClientLists
  <2>2. \A d \in CronIds : cron'[d] = Over => cron[d] = Over \/ ~Busy(d)'
    BY <1>1, <1>3, <1>5, AtWork DEF OthersStay, Busy, Agents
  <2> QED
    BY <1>1, <1>3, <2>1, <2>2, AtWork, ProgramsKeep
<1>11. Handles'
  <2>1. \A r \in Routines : \A d \in CronIds : cronTasks'[r] = d /\ cron'[d] # Over => cron'[d].id = r
    BY <1>4, <1>5, RoutinesAssumption DEF Handles, HandedOn
  <2>2. \A r, s \in Routines : cronTasks'[r] = cronTasks'[s] /\ cronTasks'[r] # NoTask => r = s
    BY <1>4 DEF Handles, HandedOn
  <2>3. ASSUME NEW y \in Clients, HoldsCron(y)' PROVE HandedOn(y)'
    <3>1. /\ HoldsCron(y) /\ job'[y] = job[y] /\ job[y].task # o
          /\ job[y].task \in CronIds /\ job[y].task # NoTask
      BY <1>2, <1>7, <2>3, RoutinesAssumption DEF Handles, HandedOn, Programs, Fits, Agents
    <3>2. cron'[job'[y].task] = cron[job[y].task]
      BY <1>5, <3>1
    <3>3. \A z \in Clients : HoldsCron(z)' /\ job'[z].task = job'[y].task => y = z
      BY <1>7, <2>3 DEF Handles, HandedOn
    <3> QED
      BY <1>4, <3>1, <3>2, <3>3 DEF Handles, HandedOn
  <2> QED
    BY <2>1, <2>2, <2>3 DEF Handles, HandedOn
<1>12. Given'
  BY <1>1, <1>3, <1>5, <1>6 DEF Given, Busy, OthersStay, Agents
<1>13. Follows'
  <2>1. ASSUME Progress(x, id) PROVE Progress(x, id)'
    <3>1. InSync(id)
      BY <1>1, <2>1 DEF Progress
    <3>2. LiveCrons(id) \subseteq {o}
      BY <3>1 DEF InSync, HasItsLoop
    <3>3. LiveCrons(id)' = {}
      BY <1>2, <1>5, <3>2
    <3>4. todo'[x] \notin {PutList, DeleteList, CancelList} \cup TriggerLists /\ todo'[x] \notin {StartList, HoldList}
      BY <1>3, Heads, Lengths DEF TriggerLists
    <3> QED
      BY <1>6, <3>3, <3>4 DEF Progress
  <2>2. \A r \in Routines \ {id} : LiveCrons(r)' = LiveCrons(r) /\ saved'[r] = saved[r]
           /\ \A d \in LiveCrons(r) : cron'[d] = cron[d]
    BY <1>3, <1>5, <1>8 DEF LiveCrons
  <2> QED
    BY <1>1, <1>2, <1>3, <1>4, <1>6, <2>1, <2>2, FollowsAtWork DEF WorksOn
<1>14. Runs'
  <2>1. todo[x] \notin TriggerLists /\ todo'[x] \notin TriggerLists
    BY <1>1, <1>3, Heads, Lengths DEF TriggerLists
  <2> QED
    BY <1>3, <2>1, RunsKeep DEF runVars
<1>15. NoLostCron'
  <2> SUFFICES ASSUME NEW r \in Routines, NEW d \in LiveCrons(r)', cronTasks'[r] # d
               PROVE  \E y \in Clients : Busy(y)' /\ job'[y].id = r /\ job'[y].task = d
    BY DEF NoLostCron
  <2>1. d \in LiveCrons(r) /\ d # o /\ cronTasks[r] # d /\ d # NoTask
    BY <1>4, <1>5, RoutinesAssumption DEF LiveCrons
  <2>2. PICK y \in Clients : Busy(y) /\ job[y].id = r /\ job[y].task = d
    BY <2>1 DEF NoLostCron
  <2>3. y # x
    BY <1>2, <2>1, <2>2
  <2> QED
    BY <1>3, <2>2, <2>3 DEF OthersStay, Agents, Busy
<1> QED
  BY <1>9, <1>10, <1>11, <1>12, <1>13, <1>14, <1>15

(* A routine is erased after its loop was stopped.                         *)
LEMMA EraseKeeps ==
  ASSUME IInv, NEW x \in Agents, Erase(x)
  PROVE  IInv'
<1> USE DEF IInv
<1> SUFFICES ASSUME NEW id, id = job[x].id PROVE IInv'
  OBVIOUS
<1>1. todo[x] = EraseList /\ job[x] \in Job /\ x \in Clients /\ Busy(x)
  BY AtWork, NextOperation, ListsDiffer DEF Erase, Does, ClientLists
<1>2. /\ id \in Routines
      /\ saved' = [saved EXCEPT ![id] = NoBody]
      /\ UNCHANGED <<used, cronTasks, running, cron, run, mixed, raced>>
      /\ OthersStay(x) /\ todo'[x] = <<>>
  BY <1>1, Tails DEF Erase, Left, cronVars, runVars, history, Job, TypeOK, OthersStay
<1>3. TypeOK'
  BY <1>1, <1>2, ListsAreSeqs, Tails DEF Erase, Left, TypeOK
<1>4. ~HoldsCron(x) /\ ~HoldsCron(x)' /\ ~HoldsRun(x)' /\ ~Busy(x)'
  BY <1>1, <1>2, Heads, ListsDiffer DEF HoldsCron, HoldsRun, Busy, ClientLists, TriggerLists
<1>5. Programs'
  <2>1. Fits(x)'
    BY <1>2, <1>4, ListsDiffer DEF Fits, ClientLists
  <2> QED
    BY <1>1, <1>2, <2>1, AtWork, ProgramsKeep
<1>6. Handles' /\ NoLostCron'
  <2>1. LoopsStay
    BY <1>2, SameLoopsStay
  <2> QED
    BY <1>2, <1>4, <2>1, HandlesKeep
<1>7. Given'
  BY <1>2, <1>4 DEF Given, Busy, TypeOK, Agents, OthersStay
<1>8. Follows'
  <2>1. \A r \in Routines : LiveCrons(r)' = LiveCrons(r)
    BY <1>2 DEF LiveCrons
  <2>2. Progress(x, id) => InSync(id)'
    <3>1. Progress(x, id) => LiveCrons(id)' = {}
      BY <1>1, <1>2, <2>1 DEF Progress
    <3>2. saved'[id] \notin ValidBodies
      BY <1>2, RoutinesAssumption DEF TypeOK
    <3> QED
      BY <3>1, <3>2 DEF InSync
  <2> QED
    BY <1>1, <1>2, <1>4, <2>1, <2>2, FollowsAtWork DEF WorksOn, TypeOK
<1>9. Runs'
  <2>1. todo[x] \notin TriggerLists /\ todo'[x] \notin TriggerLists
    BY <1>1, <1>2, Heads, ListsDiffer DEF TriggerLists, ClientLists
  <2> QED
    BY <1>2, <2>1, RunsKeep DEF runVars
<1> QED
  BY <1>3, <1>5, <1>6, <1>7, <1>8, <1>9

-----------------------------------------------------------------------------
(* Operations on executions.                                               *)

LEMMA AbortRunEffect ==
  ASSUME TypeOK, NEW o \in RunIds \cup {NoTask}, AbortRun(o)
  PROVE  /\ run' \in [RunIds -> Run \cup {Over}]
         /\ \A r \in Routines : LiveRuns(r)' = LiveRuns(r) \ {o}
<1>1. CASE o = NoTask \/ run[o] = Over
  <2>1. run' = run
    BY <1>1 DEF AbortRun
  <2> QED
    BY <1>1, <2>1, RoutinesAssumption DEF LiveRuns, TypeOK
<1>2. CASE o # NoTask /\ run[o] # Over /\ run[o].polled
  <2>1. o \in RunIds /\ run[o] \in Run
    BY <1>2 DEF TypeOK
  <2>2. run' = [run EXCEPT ![o] = [run[o] EXCEPT !.aborted = TRUE]]
    BY <1>2 DEF AbortRun
  <2>3. /\ [run[o] EXCEPT !.aborted = TRUE] \in Run
        /\ [run[o] EXCEPT !.aborted = TRUE].aborted
    BY <2>1 DEF Run
  <2>4. /\ run' \in [RunIds -> Run \cup {Over}] /\ run'[o].aborted
        /\ \A d \in RunIds : d # o => run'[d] = run[d]
    BY <2>1, <2>2, <2>3 DEF TypeOK
  <2> QED
    BY <1>2, <2>1, <2>4 DEF LiveRuns
<1>3. CASE o # NoTask /\ run[o] # Over /\ ~run[o].polled
  <2>1. run' = [run EXCEPT ![o] = Over] /\ o \in RunIds
    BY <1>3 DEF AbortRun
  <2>2. /\ run' \in [RunIds -> Run \cup {Over}]
        /\ run'[o] = Over /\ \A d \in RunIds : d # o => run'[d] = run[d]
    BY <2>1 DEF TypeOK
  <2> QED
    BY <1>3, <2>1, <2>2 DEF LiveRuns
<1> QED
  BY <1>1, <1>2, <1>3

(* Whoever cancels a routine finds its execution, unless the trigger that  *)
(* spawned it has not put it into the map yet; a trigger that cancels      *)
(* while nobody else triggers leaves none.                                 *)
LEMMA CancelKeeps ==
  ASSUME IInv, NEW x \in Agents, Cancel(x)
  PROVE  IInv'
<1> USE DEF IInv
<1> SUFFICES ASSUME NEW id, NEW o, id = job[x].id, o = running[id] PROVE IInv'
  OBVIOUS
<1>1. /\ todo[x] \in {EndList, CancelList, TriggerProgram} /\ todo[x] \in ClientLists
      /\ job[x] \in Job /\ Busy(x)
      /\ x \in CronIds => todo[x] = TriggerProgram /\ x \notin Clients
  <2>1. Busy(x) /\ Head(todo[x]) = "cancel"
    BY DEF Cancel, Does
  <2>2. todo[x] \in {EndList, CancelList, TriggerProgram} /\ todo[x] \in ClientLists
    BY <2>1, AtWork, NextOperation
  <2> QED
    BY <2>1, <2>2, AtWork, ListsDiffer
<1>2. id \in Routines /\ o \in RunIds \cup {NoTask}
  BY <1>1 DEF Job, TypeOK
<1>3. /\ UNCHANGED <<saved, used, cronTasks, cron, mixed, raced>>
      /\ OthersStay(x) /\ todo'[x] = Tail(todo[x])
      /\ job'[x] = IF Tail(todo[x]) = <<>> THEN NoJob ELSE job[x]
  BY <1>1 DEF Cancel, Left, cronVars, history, TypeOK, OthersStay
<1>4. \/ todo[x] = EndList /\ todo'[x] = EraseList /\ job'[x] = job[x]
      \/ todo[x] = CancelList /\ todo'[x] = <<>> /\ job'[x] = NoJob
      \/ todo[x] = TriggerProgram /\ todo'[x] = SpawnList /\ job'[x] = job[x]
  BY <1>1, <1>3, Tails, ListsDiffer DEF ClientLists, TriggerLists
<1>5. running'[id] = NoTask /\ \A r \in Routines \ {id} : running'[r] = running[r]
  BY <1>2 DEF Cancel, TypeOK
<1>6. run' \in [RunIds -> Run \cup {Over}] /\ \A r \in Routines : LiveRuns(r)' = LiveRuns(r) \ {o}
  <2>1. AbortRun(o)
    BY DEF Cancel
  <2> QED
    BY <1>2, <2>1, AbortRunEffect
<1>7. /\ ~HoldsCron(x) /\ ~HoldsCron(x)' /\ ~HoldsRun(x) /\ ~HoldsRun(x)'
      /\ Busy(x)' => job'[x] = job[x]
      /\ todo'[x] \in ClientLists \cup {<<>>} /\ todo'[x] \notin {StartList, HoldList}
  BY <1>4, Heads, Lengths DEF HoldsCron, HoldsRun, Busy, ClientLists, TriggerLists
<1>8. TypeOK'
  <2>1. todo' \in [Agents -> Seq(Ops)] /\ job' \in [Agents -> Job \cup {NoJob}]
    BY <1>1, <1>3, <1>7, ListsAreSeqs DEF Cancel, Left, TypeOK
  <2>2. running' \in [Routines -> RunIds \cup {NoTask}]
    BY <1>2 DEF Cancel, TypeOK
  <2> QED
    BY <1>3, <1>6, <2>1, <2>2 DEF TypeOK
<1>9. Programs'
  <2>1. Fits(x)'
    BY <1>1, <1>7 DEF Fits, Programs
  <2>2. x \in CronIds => todo'[x] \in TriggerLists
    BY <1>1, <1>4, Heads, Lengths, ListsDiffer DEF TriggerLists, ClientLists
  <2> QED
    BY <1>1, <1>3, <1>7, <2>1, <2>2, AtWork, ProgramsKeep
<1>10. LoopsStay
  BY <1>3, SameLoopsStay
<1>11. Handles' /\ NoLostCron'
  BY <1>3, <1>7, <1>10, HandlesKeep
<1>12. Given'
  BY <1>1, <1>3, <1>7 DEF Given, Busy, OthersStay, Agents
<1>13. Follows'
  <2>1. WorksOn(x, id) /\ (Busy(x)' => job'[x].id = id)
    BY <1>1, <1>7 DEF WorksOn
  <2>2. \/ /\ todo[x] \in TriggerLists \cup {CancelList}
           /\ Busy(x)' => todo'[x] \in TriggerLists
        \/ todo[x] = EndList /\ todo'[x] = EraseList
    BY <1>4 DEF TriggerLists, Busy
  <2> QED
    BY <1>2, <1>3, <1>10, <2>1, <2>2, FollowsAside
<1>14. Runs'
  <2> SUFFICES ASSUME NEW r \in Routines \ raced PROVE OneTrigger(r)'
    BY <1>3 DEF Runs
  <2>1. \A y \in Agents : Triggers(y, r)' => Triggers(y, r)
    <3>1. Triggers(x, r)' => Triggers(x, r)
      BY <1>4, Heads, ListsDiffer DEF Triggers, TriggerLists, ClientLists
    <3> QED
      BY <1>3, <3>1 DEF Triggers, OthersStay
  <2>2. \A y \in Agents : HoldsRun(y)' <=> HoldsRun(y)
    BY <1>3, <1>7 DEF OthersStay, HoldsRun
  <2>3. \A y \in Agents : HoldsRun(y) => y # x /\ job'[y] = job[y]
    BY <1>3, <1>7 DEF OthersStay
  <2>4. \A k \in LiveRuns(r)' :
           \/ running'[r] = k
           \/ \E y \in Agents : HoldsRun(y) /\ job[y].id = r /\ job[y].task = k
    BY <1>5, <1>6 DEF Runs, OneTrigger
  <2>5. ASSUME NEW y \in Agents, job'[y].id = r, todo'[y] = SpawnList PROVE LiveRuns(r)' = {}
    <3>1. CASE y = x
      <4>1. todo[x] = TriggerProgram /\ r = id
        BY <1>4, <2>5, <3>1, Heads, ListsDiffer DEF ClientLists, TriggerLists
      <4>2. \A z \in Agents : HoldsRun(z) /\ job[z].id = id => z = x
        BY <4>1 DEF Runs, OneTrigger, Triggers, HoldsRun, TriggerLists
      <4>3. LiveRuns(r)' \cap {NoTask} = {}
        BY RoutinesAssumption DEF LiveRuns
      <4> QED
        BY <1>5, <1>7, <2>4, <4>1, <4>2, <4>3
    <3>2. CASE y # x
      BY <1>3, <1>6, <2>5, <3>2 DEF Runs, OneTrigger, OthersStay
    <3> QED
      BY <3>1, <3>2
  <2>6. ASSUME NEW y \in Agents, job'[y].id = r, HoldsRun(y)' PROVE LiveRuns(r)' \subseteq {job'[y].task}
    BY <1>6, <2>2, <2>3, <2>6 DEF Runs, OneTrigger
  <2> QED
    BY <2>1, <2>2, <2>3, <2>4, <2>5, <2>6 DEF Runs, OneTrigger
<1> QED
  BY <1>8, <1>9, <1>11, <1>12, <1>13, <1>14

(* What a trigger spawns is the one live execution, and the trigger has    *)
(* its handle.                                                             *)
LEMMA SpawnKeeps ==
  ASSUME IInv, NEW x \in Agents, Spawn(x)
  PROVE  IInv'
<1> USE DEF IInv
<1> SUFFICES ASSUME NEW id, id = job[x].id PROVE IInv'
  OBVIOUS
<1>1. todo[x] = SpawnList /\ job[x] \in Job /\ Busy(x) /\ id \in Routines
  BY AtWork, NextOperation DEF Spawn, Does, Job
<1>2. PICK k \in FreeRuns :
        run' = [run EXCEPT ![k] = [id |-> id, at |-> 0, polled |-> FALSE, aborted |-> FALSE]]
        /\ WithTask(x, k)
  BY DEF Spawn
<1>3. UNCHANGED <<saved, used, running, cronTasks, cron, mixed, raced>>
  BY <1>2 DEF Spawn, WithTask, cronVars, history
<1>4. k \in RunIds /\ run[k] = Over /\ [id |-> id, at |-> 0, polled |-> FALSE, aborted |-> FALSE] \in Run
  BY <1>1, <1>2, RoutinesAssumption DEF FreeRuns, Run
<1>5. /\ OthersStay(x) /\ todo'[x] = InsertList
      /\ job'[x] \in Job /\ job'[x].id = id /\ job'[x].task = k
  BY <1>1, <1>2, <1>4, Tails DEF WithTask, Job, TypeOK, OthersStay, Tasks
<1>6. run' \in [RunIds -> Run \cup {Over}] /\ run'[k].id = id /\ ~run'[k].aborted /\ run'[k] # Over
      /\ \A j \in RunIds : j # k => run'[j] = run[j]
  BY <1>2, <1>4, RoutinesAssumption DEF TypeOK
<1>7. TypeOK'
  <2>1. todo' \in [Agents -> Seq(Ops)] /\ job' \in [Agents -> Job \cup {NoJob}]
    BY <1>1, <1>2, <1>5, Tails, ListsAreSeqs DEF WithTask, TypeOK, ClientLists, TriggerLists
  <2> QED
    BY <1>3, <1>6, <2>1 DEF TypeOK
<1>8. /\ ~HoldsCron(x) /\ ~HoldsCron(x)' /\ ~HoldsRun(x) /\ HoldsRun(x)' /\ Busy(x)'
      /\ todo'[x] \in TriggerLists /\ todo[x] \in TriggerLists /\ TriggerLists \subseteq ClientLists
  BY <1>1, <1>5, Heads, ListsDiffer DEF HoldsCron, HoldsRun, Busy, TriggerLists, ClientLists
<1>9. Programs'
  <2>1. Fits(x)'
    BY <1>4, <1>5, <1>8, Heads DEF Fits, HoldsRun, HoldsCron
  <2> QED
    BY <1>1, <1>3, <1>5, <1>8, <2>1, AtWork, ProgramsKeep
<1>10. LoopsStay
  BY <1>3, SameLoopsStay
<1>11. Handles' /\ NoLostCron'
  BY <1>5, <1>8, <1>10, HandlesKeep
<1>12. Given'
  BY <1>1, <1>3, <1>5 DEF Given, Busy, OthersStay, Agents
<1>13. Follows'
  BY <1>1, <1>3, <1>5, <1>8, <1>10, FollowsAside DEF WorksOn
<1>14. Runs'
  <2> SUFFICES ASSUME NEW r \in Routines \ raced PROVE OneTrigger(r)'
    BY <1>3 DEF Runs
  <2>1. \A y \in Agents : Triggers(y, r)' <=> Triggers(y, r)
    BY <1>5, <1>8 DEF Triggers, OthersStay
  <2>2. \A y \in Agents \ {x} : HoldsRun(y)' = HoldsRun(y) /\ job'[y] = job[y] /\ todo'[y] = todo[y]
    BY <1>5 DEF OthersStay, HoldsRun
  <2>3. CASE r = id
    <3>1. LiveRuns(r) = {} /\ \A y \in Agents : Triggers(y, r) => y = x
      BY <1>1, <1>8, <2>3 DEF Runs, OneTrigger, Triggers
    <3>2. LiveRuns(r)' = {k}
      BY <1>4, <1>6, <2>3, <3>1 DEF LiveRuns
    <3>3. ASSUME NEW y \in Agents, job'[y].id = r, todo'[y] = SpawnList \/ HoldsRun(y)' PROVE y = x
      BY <2>1, <3>1, <3>3 DEF Triggers, HoldsRun, TriggerLists
    <3>4. todo'[x] # SpawnList
      BY <1>5, Lengths
    <3>5. \A y, z \in Agents : Triggers(y, r)' /\ Triggers(z, r)' => y = z
      BY <2>1, <3>1
    <3>6. \A y \in Agents : job'[y].id = r =>
            /\ todo'[y] = SpawnList => LiveRuns(r)' = {}
            /\ HoldsRun(y)' => LiveRuns(r)' \subseteq {job'[y].task}
      BY <1>5, <3>2, <3>3, <3>4
    <3>7. \E y \in Agents : HoldsRun(y)' /\ job'[y].id = r /\ job'[y].task = k
      BY <1>5, <1>8, <2>3
    <3> QED
      BY <3>2, <3>5, <3>6, <3>7 DEF OneTrigger
  <2>4. CASE r # id
    <3>1. LiveRuns(r)' = LiveRuns(r)
      BY <1>4, <1>6, <2>4 DEF LiveRuns
    <3>2. \A y \in Agents : HoldsRun(y) => y # x
      BY <1>8
    <3>3. OneTrigger(r)
      BY DEF Runs
    <3> QED
      BY <1>1, <1>3, <1>5, <2>1, <2>2, <2>4, <3>1, <3>2, <3>3 DEF OneTrigger
  <2> QED
    BY <2>3, <2>4
<1> QED
  BY <1>7, <1>9, <1>11, <1>12, <1>13, <1>14

(* The handle gets into the map while the execution is the only live one.  *)
(* A loop that was aborted meanwhile ends with it.                         *)
LEMMA InsertKeeps ==
  ASSUME IInv, NEW x \in Agents, Insert(x)
  PROVE  IInv'
<1> USE DEF IInv
<1> SUFFICES ASSUME NEW id, NEW k, id = job[x].id, k = job[x].task PROVE IInv'
  OBVIOUS
<1>1. todo[x] = InsertList /\ job[x] \in Job /\ Busy(x) /\ id \in Routines /\ HoldsRun(x) /\ k \in RunIds
  BY AtWork, NextOperation DEF Insert, Does, Job, HoldsRun, Programs, Fits
<1>2. UNCHANGED <<saved, used, run, cronTasks, mixed, raced>>
      /\ OthersStay(x) /\ todo'[x] = <<>> /\ job'[x] = NoJob
  BY <1>1, Tails DEF Insert, Left, history, TypeOK, OthersStay
<1>3. running'[id] = k /\ \A r \in Routines \ {id} : running'[r] = running[r]
  BY <1>1 DEF Insert, TypeOK
<1>4. LoopsStay
  <2>1. CASE x \in CronIds /\ cron[x].aborted
    <3>1. cron[x] # Over /\ cron' = [cron EXCEPT ![x] = Over]
      BY <1>1, <2>1, AtWork DEF Insert
    <3> QED
      BY <1>2, <2>1, <3>1 DEF LoopsStay, TypeOK
  <2>2. CASE ~(x \in CronIds /\ cron[x].aborted)
    BY <1>2, <2>2, SameLoopsStay DEF Insert
  <2> QED
    BY <2>1, <2>2
<1>5. TypeOK'
  <2>1. todo' \in [Agents -> Seq(Ops)] /\ job' \in [Agents -> Job \cup {NoJob}]
    BY <1>1, Tails, ListsAreSeqs DEF Insert, Left, TypeOK
  <2>2. running' \in [Routines -> RunIds \cup {NoTask}]
    BY <1>1 DEF Insert, TypeOK
  <2>3. cron' \in [CronIds -> CronTask \cup {Over}]
    BY DEF Insert, TypeOK
  <2> QED
    BY <1>2, <2>1, <2>2, <2>3 DEF TypeOK
<1>6. ~HoldsCron(x) /\ ~HoldsCron(x)' /\ ~HoldsRun(x)' /\ ~Busy(x)'
      /\ todo[x] \in TriggerLists /\ todo'[x] \notin TriggerLists
  BY <1>1, <1>2, Heads, ListsDiffer DEF HoldsCron, HoldsRun, Busy, TriggerLists, ClientLists
<1>7. Programs'
  <2>1. Fits(x)'
    BY <1>2, <1>6, ListsDiffer DEF Fits, ClientLists
  <2>2. \A d \in CronIds : cron'[d] = Over => cron[d] = Over \/ ~Busy(d)'
    BY <1>6 DEF Insert, TypeOK
  <2> QED
    BY <1>2, <1>6, <2>1, <2>2, ProgramsKeep
<1>8. Handles' /\ NoLostCron'
  BY <1>2, <1>4, <1>6, HandlesKeep
<1>9. Given'
  BY <1>2, <1>4, <1>6 DEF Given, Busy, OthersStay, Agents, LoopsStay
<1>10. Follows'
  BY <1>1, <1>2, <1>4, <1>6, FollowsAside DEF WorksOn
<1>11. Runs'
  <2> SUFFICES ASSUME NEW r \in Routines \ raced PROVE OneTrigger(r)'
    BY <1>2 DEF Runs
  <2>1. LiveRuns(r)' = LiveRuns(r)
    BY <1>2 DEF LiveRuns
  <2>2. \A y \in Agents : Triggers(y, r)' => Triggers(y, r) /\ y # x
    BY <1>2, <1>6 DEF Triggers, OthersStay
  <2>3. \A y \in Agents \ {x} : HoldsRun(y)' = HoldsRun(y) /\ job'[y] = job[y] /\ todo'[y] = todo[y]
    BY <1>2 DEF OthersStay, HoldsRun
  <2>4. todo'[x] # SpawnList
    BY <1>6 DEF TriggerLists
  <2>5. OneTrigger(r)
    BY DEF Runs
  <2>6. CASE r = id
    <3>1. LiveRuns(r) \subseteq {k}
      BY <1>1, <2>5, <2>6 DEF OneTrigger
    <3> QED
      BY <1>3, <1>6, <2>1, <2>2, <2>3, <2>4, <2>5, <2>6, <3>1 DEF OneTrigger
  <2>7. CASE r # id
    BY <1>3, <1>6, <2>1, <2>2, <2>3, <2>4, <2>5, <2>7 DEF OneTrigger
  <2> QED
    BY <2>6, <2>7
<1> QED
  BY <1>5, <1>7, <1>8, <1>9, <1>10, <1>11

LEMMA OperateKeeps ==
  ASSUME IInv, NEW x \in Agents, Operate(x)
  PROVE  IInv'
  BY SaveKeeps, SpawnCronKeeps, InsertCronKeeps, StopKeeps, CancelKeeps, EraseKeeps, SpawnKeeps,
     InsertKeeps DEF Operate

-----------------------------------------------------------------------------
(* Requests and ticks.                                                     *)

(* A trigger of a routine that nobody triggers begins alone; its           *)
(* executions are in the map.                                              *)
LEMMA TriggerBegins ==
  ASSUME IInv, NEW x \in Agents, OthersStay(x), UNCHANGED runVars, ~Busy(x),
         NEW r \in Routines, todo'[x] = TriggerProgram, job'[x].id = r, Triggered(r)
  PROVE  Runs'
<1> USE DEF IInv
<1> SUFFICES ASSUME NEW s \in Routines, s \notin raced' PROVE OneTrigger(s)'
  BY DEF Runs
<1>1. s \in Routines \ raced /\ OneTrigger(s)
  BY DEF Triggered, Runs
<1>2. LiveRuns(s)' = LiveRuns(s) /\ running' = running
  BY DEF LiveRuns, runVars
<1>3. todo[x] \notin TriggerLists /\ todo'[x] \notin {SpawnList, InsertList} /\ ~HoldsRun(x) /\ ~HoldsRun(x)'
  <2>1. todo[x] \notin TriggerLists
    BY ListsDiffer DEF TriggerLists, ClientLists, Busy
  <2>2. TriggerProgram \notin {SpawnList, InsertList}
    BY Lengths
  <2> QED
    BY <2>1, <2>2 DEF TriggerLists, HoldsRun
<1>4. \A y \in Agents \ {x} : HoldsRun(y)' = HoldsRun(y) /\ job'[y] = job[y] /\ todo'[y] = todo[y]
                                /\ Triggers(y, s)' = Triggers(y, s)
  BY DEF OthersStay, HoldsRun, Triggers
<1>5. CASE s = r
  <2>1. \A y \in Agents : ~Triggers(y, r)
    <3>1. ~Triggering(r)
      BY <1>5 DEF Triggered
    <3>2. \A y \in Agents : todo[y] \in TriggerLists =>
             /\ todo[y] \in ClientLists /\ Busy(y) /\ todo[y][Len(todo[y])] = "insert"
      BY Lasts DEF ClientLists, Busy
    <3> QED
      BY <3>1, <3>2 DEF Triggering, Triggers
  <2>2. \A y, z \in Agents : Triggers(y, s)' /\ Triggers(z, s)' => y = z
    BY <1>4, <1>5, <2>1
  <2> QED
    BY <1>1, <1>2, <1>3, <1>4, <2>2 DEF OneTrigger
<1>6. CASE s # r
  <2>1. ~Triggers(x, s)'
    BY <1>6 DEF Triggers
  <2>2. \A y, z \in Agents : Triggers(y, s)' /\ Triggers(z, s)' => y = z
    BY <1>1, <1>4, <2>1 DEF OneTrigger
  <2> QED
    BY <1>1, <1>2, <1>3, <1>4, <2>2 DEF OneTrigger
<1> QED
  BY <1>5, <1>6

LEMMA BeginKeeps ==
  ASSUME IInv, NEW x \in Clients, NEW r \in Routines, NEW body \in Bodies \cup {NoBody},
         NEW program \in {PutList, SaveList, DeleteList, CancelList, TriggerProgram},
         Begin(x, r, body, program),
         used \subseteq used', used' \subseteq Routines, r \in used',
         program = SaveList => r \notin used,
         program = TriggerProgram => Triggered(r),
         program # TriggerProgram => raced' = raced
  PROVE  IInv'
<1> USE DEF IInv
<1>1. x \in Agents /\ ~Busy(x) /\ x \notin CronIds /\ mixed \subseteq mixed'
  BY RoutinesAssumption DEF Begin, Agents
<1>2. /\ UNCHANGED <<saved, cronTasks, cron, running, run>>
      /\ OthersStay(x) /\ todo'[x] = program
      /\ job'[x] = [id |-> r, body |-> body, task |-> NoTask]
      /\ job'[x] \in Job /\ job'[x].id = r /\ job'[x].task = NoTask
  BY <1>1 DEF Begin, cronVars, runVars, TypeOK, OthersStay, Job, Tasks
<1>3. program \in ClientLists /\ program \notin {StartList, HoldList, InsertList, SpawnList, EndList, EraseList}
      /\ program # <<>>
  BY Heads, Lengths, ListsDiffer DEF ClientLists, TriggerLists
<1>4. TypeOK'
  <2>1. todo' \in [Agents -> Seq(Ops)] /\ job' \in [Agents -> Job \cup {NoJob}]
    BY <1>2, <1>3, ListsAreSeqs DEF Begin, TypeOK
  <2>2. mixed' \subseteq Routines /\ raced' \subseteq Routines
    BY DEF Begin, Triggered, TypeOK
  <2> QED
    BY <1>2, <2>1, <2>2 DEF TypeOK
<1>5. ~HoldsCron(x) /\ ~HoldsCron(x)' /\ ~HoldsRun(x)' /\ Busy(x)'
  BY <1>1, <1>2, <1>3, ListsDiffer DEF HoldsCron, HoldsRun, Busy, ClientLists
<1>6. Programs'
  <2>1. Fits(x)'
    BY <1>2, <1>3, <1>5 DEF Fits
  <2> QED
    BY <1>1, <1>2, <1>3, <2>1, ProgramsKeep
<1>7. LoopsStay
  BY <1>2, SameLoopsStay
<1>8. Handles' /\ NoLostCron'
  BY <1>1, <1>2, <1>5, <1>7, HandlesKeep
<1>9. Given'
  BY <1>2 DEF Given, Busy, OthersStay, Agents
<1>10. Follows'
  <2> SUFFICES ASSUME NEW s \in Routines, s \notin mixed' PROVE OneHandler(s)'
    BY DEF Follows
  <2>1. s \in Routines \ mixed /\ OneHandler(s)
    BY <1>1 DEF Follows
  <2>2. LiveCrons(s)' = LiveCrons(s) /\ cronTasks'[s] = cronTasks[s] /\ \A c \in LiveCrons(s) : cron'[c] = cron[c]
    BY <1>2 DEF LiveCrons
  <2>3. CASE s # r
    BY <1>1, <1>2, <2>1, <2>2, <2>3, FollowsKeep DEF WorksOn
  <2>4. CASE s = r
    <3>1. \A y \in Clients : ~WorksOn(y, r)
      BY <2>4 DEF Begin, AtWorkOn, WorksOn
    <3>2. InSync(r)
      BY <2>1, <2>4, <3>1 DEF OneHandler
    <3>3. InSync(r)'
      BY <1>2, <2>2, <2>4, <3>2 DEF InSync, HasItsLoop
    <3>4. \A y \in Clients : WorksOn(y, r)' => y = x
      BY <1>2, <3>1 DEF WorksOn, Busy, OthersStay, Agents
    <3>5. Progress(x, r)'
      <4>1. program = SaveList => LiveCrons(r)' = {}
        BY <2>2, <2>4 DEF Given, LiveCrons
      <4> QED
        BY <1>2, <1>3, <1>5, <3>3, <4>1 DEF Progress
    <3>6. WorksOn(x, r)'
      BY <1>2, <1>5 DEF WorksOn
    <3> QED
      BY <2>4, <3>4, <3>5, <3>6 DEF OneHandler
  <2> QED
    BY <2>3, <2>4
<1>11. Runs'
  <2>1. CASE program = TriggerProgram
    BY <1>1, <1>2, <2>1, TriggerBegins DEF runVars
  <2>2. CASE program # TriggerProgram
    <3>1. todo[x] \notin TriggerLists /\ todo'[x] \notin TriggerLists
      BY <1>1, <1>2, <1>3, <2>2, ListsDiffer DEF TriggerLists, ClientLists, Busy
    <3> QED
      BY <1>1, <1>2, <2>2, <3>1, RunsKeep DEF runVars
  <2> QED
    BY <2>1, <2>2
<1> QED
  BY <1>4, <1>6, <1>8, <1>9, <1>10, <1>11

LEMMA RequestsKeep ==
  ASSUME IInv, NEW x \in Clients, NEW r \in Routines,
         \/ \E b \in Bodies : Create(x, r, b) \/ Put(x, r, b)
         \/ Delete(x, r) \/ TriggerRoutine(x, r) \/ CancelRoutine(x, r)
  PROVE  IInv'
<1> USE DEF IInv
<1>1. CASE \E b \in Bodies : Create(x, r, b)
  <2>1. PICK b \in Bodies : Create(x, r, b)
    BY <1>1
  <2>2. SaveList # TriggerProgram
    BY Heads
  <2>3. Begin(x, r, b, SaveList)
    BY <2>1 DEF Create, SaveList
  <2> QED
    BY <2>1, <2>2, <2>3, BeginKeeps DEF Create, TypeOK
<1>2. CASE \E b \in Bodies : Put(x, r, b)
  <2>1. PICK b \in Bodies : Put(x, r, b)
    BY <1>2
  <2>2. PutList # TriggerProgram /\ PutList # SaveList
    BY Heads
  <2>3. Begin(x, r, b, PutList)
    BY <2>1 DEF Put, PutList
  <2> QED
    BY <2>1, <2>2, <2>3, BeginKeeps DEF Put, TypeOK, Given
<1>3. CASE Delete(x, r)
  <2>1. DeleteList # TriggerProgram /\ DeleteList # SaveList
    BY Heads
  <2>2. Begin(x, r, NoBody, DeleteList)
    BY <1>3 DEF Delete, DeleteList
  <2> QED
    BY <1>3, <2>1, <2>2, BeginKeeps DEF Delete, TypeOK
<1>4. CASE TriggerRoutine(x, r)
  <2>1. TriggerProgram # SaveList
    BY Heads
  <2> QED
    BY <1>4, <2>1, BeginKeeps DEF TriggerRoutine, TypeOK, Given
<1>5. CASE CancelRoutine(x, r)
  <2>1. CancelList # TriggerProgram /\ CancelList # SaveList
    BY Heads, Lengths
  <2>2. Begin(x, r, NoBody, CancelList)
    BY <1>5 DEF CancelRoutine, CancelList
  <2> QED
    BY <1>5, <2>1, <2>2, BeginKeeps DEF CancelRoutine, TypeOK
<1> QED
  BY <1>1, <1>2, <1>3, <1>4, <1>5

LEMMA TickKeeps ==
  ASSUME IInv, NEW c \in CronIds, Tick(c)
  PROVE  IInv'
<1> USE DEF IInv
<1> SUFFICES ASSUME NEW r, r = cron[c].id PROVE IInv'
  OBVIOUS
<1>1. c \in Agents /\ c \notin Clients /\ ~Busy(c) /\ cron[c] # Over /\ r \in Routines
  BY RoutinesAssumption DEF Tick, Agents, TypeOK, CronTask
<1>2. /\ UNCHANGED <<saved, used, cronTasks, cron, running, run, mixed>>
      /\ OthersStay(c) /\ todo'[c] = TriggerProgram
      /\ job'[c] = [id |-> r, body |-> NoBody, task |-> NoTask]
      /\ job'[c] \in Job /\ job'[c].id = r /\ job'[c].task = NoTask
      /\ Triggered(r)
  BY <1>1 DEF Tick, cronVars, runVars, TypeOK, OthersStay, Job, Tasks
<1>3. /\ TriggerProgram \in TriggerLists /\ TriggerProgram \in ClientLists
      /\ TriggerProgram \notin {StartList, HoldList, InsertList, <<>>}
  BY Heads, Lengths, ListsDiffer DEF ClientLists, TriggerLists
<1>4. TypeOK'
  <2>1. todo' \in [Agents -> Seq(Ops)] /\ job' \in [Agents -> Job \cup {NoJob}]
    BY <1>2, <1>3, ListsAreSeqs DEF Tick, TypeOK
  <2>2. raced' \subseteq Routines
    BY <1>1, <1>2 DEF Triggered, TypeOK
  <2> QED
    BY <1>2, <2>1, <2>2 DEF TypeOK
<1>5. ~HoldsCron(c) /\ ~HoldsCron(c)' /\ ~HoldsRun(c)' /\ Busy(c)'
  BY <1>1, <1>2, <1>3, ListsDiffer DEF HoldsCron, HoldsRun, Busy, ClientLists
<1>6. Programs'
  <2>1. Fits(c)'
    BY <1>2, <1>3, <1>5 DEF Fits
  <2>2. \A d \in CronIds : cron'[d] = Over => cron[d] = Over \/ ~Busy(d)'
    BY <1>2
  <2> QED
    BY <1>1, <1>2, <1>3, <2>1, <2>2, ProgramsKeep
<1>7. LoopsStay
  BY <1>2, SameLoopsStay
<1>8. Handles' /\ NoLostCron'
  BY <1>1, <1>2, <1>5, <1>7, HandlesKeep
<1>9. Given'
  BY <1>1, <1>2 DEF Given, Busy, OthersStay, Agents
<1>10. Follows'
  <2>1. ASSUME NEW s \in Routines \ mixed PROVE OneHandler(s)'
    BY <1>1, <1>2, <1>7, LiveLoopsStay, FollowsKeep
  <2> QED
    BY <1>2, <2>1 DEF Follows
<1>11. Runs'
  BY <1>1, <1>2, TriggerBegins DEF runVars
<1> QED
  BY <1>4, <1>6, <1>8, <1>9, <1>10, <1>11

-----------------------------------------------------------------------------
(* Loops that end, executions and the restart.                             *)

(* A schedule that ends is one that may: the routine then has no loop.     *)
LEMMA ExhaustKeeps ==
  ASSUME IInv, NEW c \in CronIds, Exhaust(c)
  PROVE  IInv'
<1> USE DEF IInv
<1>1. /\ UNCHANGED <<saved, used, cronTasks, running, run, todo, job, mixed, raced>>
      /\ cron[c] # Over /\ ~Busy(c) /\ cron[c].body \in EndingBodies
      /\ cron'[c] = Over /\ \A d \in CronIds : d # c => cron'[d] = cron[d]
      /\ cron' \in [CronIds -> CronTask \cup {Over}]
  BY DEF Exhaust, runVars, TypeOK
<1>2. \A r \in Routines : LiveCrons(r)' = LiveCrons(r) \ {c}
  BY <1>1 DEF LiveCrons
<1>3. TypeOK'
  BY <1>1 DEF TypeOK
<1>4. Programs'
  BY <1>1 DEF Programs, Fits, Busy, HoldsCron, HoldsRun
<1>5. Handles'
  <2>1. \A r \in Routines : \A d \in CronIds : cronTasks'[r] = d /\ cron'[d] # Over => cron'[d].id = r
    BY <1>1 DEF Handles
  <2>2. ASSUME NEW y \in Clients, HoldsCron(y) PROVE HandedOn(y)'
    <3>1. HandedOn(y) /\ job[y].task \in CronIds
      BY <2>2 DEF Handles, Programs, Fits, Agents
    <3>2. CASE job[y].task = c
      <4>1. job[y].body \in EndingBodies
        BY <1>1, <3>1, <3>2 DEF HandedOn
      <4> QED
        BY <1>1, <3>1, <3>2, <4>1 DEF HandedOn, HoldsCron
    <3>3. CASE job[y].task # c
      BY <1>1, <3>1, <3>3 DEF HandedOn, HoldsCron
    <3> QED
      BY <3>2, <3>3
  <2> QED
    BY <1>1, <2>1, <2>2 DEF Handles, HoldsCron
<1>6. Given'
  BY <1>1 DEF Given, Busy
<1>7. Follows'
  <2> SUFFICES ASSUME NEW r \in Routines \ mixed PROVE OneHandler(r)'
    BY <1>1 DEF Follows
  <2>1. OneHandler(r) /\ \A y \in Clients : WorksOn(y, r)' = WorksOn(y, r)
    BY <1>1 DEF Follows, WorksOn, Busy
  <2>2. InSync(r) => InSync(r)'
    <3>1. CASE LiveCrons(r) = {}
      <4>1. LiveCrons(r)' = {}
        BY <1>2, <3>1
      <4>2. ~HasItsLoop(r)
        BY <3>1 DEF HasItsLoop
      <4> QED
        BY <1>1, <4>1, <4>2 DEF InSync
    <3>2. CASE c \in LiveCrons(r)
      <4>1. ASSUME InSync(r) PROVE LiveCrons(r) = {c} /\ cron[c].body = saved[r]
        BY <3>2, <4>1 DEF InSync, HasItsLoop
      <4> QED
        BY <1>1, <1>2, <4>1 DEF InSync
    <3>3. CASE LiveCrons(r) # {} /\ c \notin LiveCrons(r)
      <4>1. LiveCrons(r)' = LiveCrons(r)
        BY <1>2, <3>3
      <4>2. ASSUME InSync(r) PROVE saved[r] \in ValidBodies /\ HasItsLoop(r)'
        <5>1. saved[r] \in ValidBodies /\ HasItsLoop(r)
          BY <3>3, <4>2 DEF InSync
        <5> QED
          BY <1>1, <3>3, <4>1, <5>1 DEF HasItsLoop
      <4> QED
        BY <1>1, <4>2 DEF InSync
    <3> QED
      BY <3>1, <3>2, <3>3
  <2>3. ASSUME NEW y \in Clients, Progress(y, r) PROVE Progress(y, r)'
    BY <1>1, <1>2, <2>2, <2>3 DEF Progress, HoldsCron
  <2> QED
    BY <2>1, <2>2, <2>3 DEF OneHandler
<1>8. Runs'
  BY <1>1 DEF Runs, OneTrigger, Triggers, HoldsRun, LiveRuns
<1>9. NoLostCron'
  BY <1>1, <1>2 DEF NoLostCron, Busy
<1> QED
  BY <1>3, <1>4, <1>5, <1>6, <1>7, <1>8, <1>9

(* An execution goes on as it is or ends.                                  *)
LEMMA ExecutionKeeps ==
  ASSUME IInv, NEW k \in RunIds, NEW v \in Run \cup {Over}, run[k] # Over,
         run' = [run EXCEPT ![k] = v],
         v # Over => v.id = run[k].id /\ v.aborted = run[k].aborted,
         UNCHANGED <<saved, used, cronVars, running, todo, job, mixed, raced>>
  PROVE  IInv'
<1> USE DEF IInv, cronVars
<1>1. run'[k] = v /\ \A j \in RunIds : j # k => run'[j] = run[j]
  BY DEF TypeOK
<1>2. \A r \in Routines : LiveRuns(r)' \subseteq LiveRuns(r)
  BY <1>1 DEF LiveRuns
<1>3. TypeOK'
  BY DEF TypeOK
<1>4. Programs' /\ Handles' /\ Given' /\ NoLostCron'
  BY DEF Programs, Fits, Handles, HandedOn, Given, NoLostCron, LiveCrons, Busy, HoldsCron, HoldsRun
<1>5. Follows'
  BY DEF Follows, OneHandler, WorksOn, Progress, InSync, HasItsLoop, LiveCrons, Busy, HoldsCron
<1>6. Runs'
  <2> SUFFICES ASSUME NEW r \in Routines \ raced PROVE OneTrigger(r)'
    BY DEF Runs
  <2>1. OneTrigger(r) /\ LiveRuns(r)' \subseteq LiveRuns(r)
    BY <1>2 DEF Runs
  <2> QED
    BY <2>1 DEF OneTrigger, Triggers, HoldsRun
<1> QED
  BY <1>3, <1>4, <1>5, <1>6

LEMMA ExecutionsKeep ==
  ASSUME IInv, NEW k \in RunIds, Wake(k) \/ Step(k) \/ Finish(k)
  PROVE  IInv'
<1>1. run[k] # Over /\ run[k] \in Run /\ run \in [RunIds -> Run \cup {Over}]
  BY DEF IInv, TypeOK, Wake, Step, Finish
<1>2. UNCHANGED <<saved, used, cronVars, running, todo, job, mixed, raced>>
  BY DEF Wake, Step, Finish
<1>3. CASE Wake(k)
  <2>1. [run[k] EXCEPT !.polled = TRUE] \in Run
    BY <1>1 DEF Run
  <2>2. /\ [run[k] EXCEPT !.polled = TRUE].id = run[k].id
        /\ [run[k] EXCEPT !.polled = TRUE].aborted = run[k].aborted
    BY <1>1 DEF Run
  <2>3. run' = [run EXCEPT ![k] = [run[k] EXCEPT !.polled = TRUE]]
    BY <1>3 DEF Wake
  <2> QED
    BY <1>1, <1>2, <2>1, <2>2, <2>3, ExecutionKeeps
<1>4. CASE Step(k)
  <2>1. PICK waits \in BOOLEAN :
          run' = [run EXCEPT ![k] = IF waits /\ run[k].aborted THEN Over
                                    ELSE [run[k] EXCEPT !.at = @ + 1, !.polled = ~waits]]
    BY <1>4 DEF Step
  <2> DEFINE next == [run[k] EXCEPT !.at = @ + 1, !.polled = ~waits]
  <2>2. next \in Run /\ next.id = run[k].id /\ next.aborted = run[k].aborted
    <3>1. run[k].at \in 0..Steps /\ run[k].at < Steps
      BY <1>1, <1>4 DEF Run, Step
    <3>2. run[k].at + 1 \in 0..Steps
      BY <3>1, RoutinesAssumption
    <3>3. (~waits) \in BOOLEAN
      OBVIOUS
    <3> QED
      BY <1>1, <3>2, <3>3 DEF Run
  <2>3. CASE waits /\ run[k].aborted
    BY <1>1, <1>2, <2>1, <2>3, ExecutionKeeps
  <2>4. CASE ~(waits /\ run[k].aborted)
    BY <1>1, <1>2, <2>1, <2>2, <2>4, ExecutionKeeps
  <2> QED
    BY <2>3, <2>4
<1>5. CASE Finish(k)
  BY <1>1, <1>2, <1>5, ExecutionKeeps DEF Finish
<1> QED
  BY <1>3, <1>4, <1>5

(* After a restart nobody works, and each routine has the loop its saved   *)
(* body asks for.                                                          *)
LEMMA RestartKeeps ==
  ASSUME IInv, Restart
  PROVE  IInv'
<1> USE DEF IInv
<1>1. PICK f \in [Routines -> CronIds \cup {NoTask}] :
        /\ \A r \in Routines : f[r] # NoTask <=> saved[r] \in ValidBodies
        /\ \A r, s \in Routines : f[r] = f[s] /\ r # s => f[r] = NoTask
        /\ cronTasks' = f
        /\ cron' = [c \in CronIds |->
             IF \E r \in Routines : f[r] = c
             THEN LET r == CHOOSE r \in Routines : f[r] = c
                  IN [id |-> r, body |-> saved[r], aborted |-> FALSE]
             ELSE Over]
  BY DEF Restart
<1>2. UNCHANGED <<saved, used, mixed, raced>>
      /\ running' = [r \in Routines |-> NoTask] /\ run' = [k \in RunIds |-> Over]
      /\ todo' = [x \in Agents |-> <<>>] /\ job' = [x \in Agents |-> NoJob]
  BY DEF Restart
<1>3. ASSUME NEW c \in CronIds, NEW r \in Routines, f[r] = c
      PROVE  /\ cron'[c].id = r /\ cron'[c].body = saved[r] /\ ~cron'[c].aborted
             /\ saved[r] \in ValidBodies /\ cron'[c] \in CronTask /\ cron'[c] # Over
  <2>1. c # NoTask /\ saved[r] \in ValidBodies
    BY <1>1, <1>3, RoutinesAssumption
  <2>2. \A s \in Routines : f[s] = c => s = r
    BY <1>1, <1>3, <2>1
  <2>3. (CHOOSE s \in Routines : f[s] = c) = r
    BY <1>3, <2>2
  <2>4. cron'[c] = [id |-> r, body |-> saved[r], aborted |-> FALSE]
    BY <1>1, <1>3, <2>3
  <2>5. cron'[c] \in CronTask
    BY <2>1, <2>4 DEF CronTask
  <2> QED
    <3>1. cron'[c].id = r /\ cron'[c].body = saved[r] /\ ~cron'[c].aborted
      BY <2>4
    <3> QED
      BY <2>1, <2>5, <3>1, RoutinesAssumption
<1>4. ASSUME NEW c \in CronIds, \A r \in Routines : f[r] # c PROVE cron'[c] = Over
  BY <1>1, <1>4
<1>5. \A x \in Agents : ~Busy(x)' /\ ~HoldsCron(x)' /\ ~HoldsRun(x)' /\ todo'[x] \notin TriggerLists
                       /\ todo'[x] \notin {StartList, SpawnList}
  BY <1>2, ListsDiffer DEF Busy, HoldsCron, HoldsRun, ClientLists, TriggerLists
<1>6. TypeOK'
  <2>1. cron' \in [CronIds -> CronTask \cup {Over}]
    <3>1. \A c \in CronIds : cron'[c] \in CronTask \cup {Over}
      BY <1>3, <1>4
    <3>2. cron' = [c \in CronIds |-> cron'[c]]
      BY <1>1
    <3> QED
      BY <3>1, <3>2
  <2>2. todo' \in [Agents -> Seq(Ops)]
    BY <1>2, ListsAreSeqs
  <2> QED
    BY <1>1, <1>2, <2>1, <2>2 DEF TypeOK
<1>7. Programs'
  BY <1>2, <1>5, ListsDiffer DEF Programs, Fits, Agents, ClientLists
<1>8. Handles'
  <2>1. \A r \in Routines : \A c \in CronIds : cronTasks'[r] = c /\ cron'[c] # Over => cron'[c].id = r
    BY <1>1, <1>3
  <2>2. \A r, s \in Routines : cronTasks'[r] = cronTasks'[s] /\ cronTasks'[r] # NoTask => r = s
    BY <1>1
  <2> QED
    BY <1>5, <2>1, <2>2 DEF Handles, Agents
<1>9. \A c \in CronIds : cron'[c] # Over => \E r \in Routines : f[r] = c /\ cron'[c].id = r
  <2> SUFFICES ASSUME NEW c \in CronIds, cron'[c] # Over
               PROVE  \E r \in Routines : f[r] = c /\ cron'[c].id = r
    OBVIOUS
  <2>1. PICK r \in Routines : f[r] = c
    BY <1>4
  <2>2. cron'[c].id = r
    BY <1>3, <2>1
  <2> QED
    BY <2>1, <2>2
<1>10. Given'
  <2>1. \A c \in CronIds : cron'[c] # Over => cron'[c].id \in used
    <3> SUFFICES ASSUME NEW c \in CronIds, cron'[c] # Over PROVE cron'[c].id \in used
      OBVIOUS
    <3>1. PICK r \in Routines : f[r] = c /\ cron'[c].id = r
      BY <1>9
    <3>2. saved[r] # NoBody
      BY <1>3, <3>1, RoutinesAssumption
    <3> QED
      BY <3>1, <3>2 DEF Given
  <2> QED
    BY <1>2, <1>5, <2>1 DEF Given, Agents
<1>11. Follows'
  <2>1. ASSUME NEW r \in Routines PROVE InSync(r)'
    <3>1. LiveCrons(r)' \subseteq {f[r]}
      BY <1>9 DEF LiveCrons
    <3>2. CASE saved[r] \in ValidBodies
      <4>1. f[r] \in CronIds
        BY <1>1, <3>2
      <4>2. f[r] \in LiveCrons(r)' /\ cron'[f[r]].body = saved[r]
        BY <1>3, <4>1 DEF LiveCrons
      <4> QED
        BY <1>1, <1>2, <3>1, <3>2, <4>1, <4>2 DEF InSync, HasItsLoop
    <3>3. CASE saved[r] \notin ValidBodies
      <4>1. f[r] = NoTask
        BY <1>1, <3>3
      <4>2. LiveCrons(r)' = {}
        BY <3>1, <4>1, RoutinesAssumption DEF LiveCrons
      <4> QED
        BY <1>2, <3>3, <4>2 DEF InSync
    <3> QED
      BY <3>2, <3>3
  <2> QED
    BY <1>2, <1>5, <2>1 DEF Follows, OneHandler, WorksOn, Agents
<1>12. Runs'
  BY <1>2, <1>5 DEF Runs, OneTrigger, Triggers, LiveRuns
<1>13. NoLostCron'
  BY <1>1, <1>9 DEF NoLostCron, LiveCrons
<1> QED
  BY <1>6, <1>7, <1>8, <1>10, <1>11, <1>12, <1>13

-----------------------------------------------------------------------------
(* Theorems.                                                               *)

LEMMA NextKeepsIInv == IInv /\ [Next]_vars => IInv'
<1> SUFFICES ASSUME IInv, [Next]_vars PROVE IInv'
  OBVIOUS
<1>1. ASSUME NEW x \in Clients, NEW r \in Routines,
             \/ \E b \in Bodies : Create(x, r, b) \/ Put(x, r, b)
             \/ Delete(x, r) \/ TriggerRoutine(x, r) \/ CancelRoutine(x, r)
      PROVE  IInv'
  BY <1>1, RequestsKeep
<1>2. ASSUME NEW x \in Agents, Operate(x) PROVE IInv'
  BY <1>2, OperateKeeps
<1>3. ASSUME NEW c \in CronIds, Tick(c) \/ Exhaust(c) PROVE IInv'
  BY <1>3, TickKeeps, ExhaustKeeps
<1>4. ASSUME NEW k \in RunIds, Wake(k) \/ Step(k) \/ Finish(k) PROVE IInv'
  BY <1>4, ExecutionsKeep
<1>5. CASE Restart
  BY <1>5, RestartKeeps
<1>6. CASE UNCHANGED vars
  <2>1. UNCHANGED <<saved, used, cronTasks, running, cron, run, todo, job, mixed, raced>>
    BY <1>6 DEF vars
  <2>2. TypeOK' /\ Programs' /\ Handles' /\ Given' /\ NoLostCron'
    BY <2>1 DEF IInv, TypeOK, Programs, Fits, Handles, HandedOn, Given, NoLostCron, LiveCrons,
                Busy, HoldsCron, HoldsRun
  <2>3. Follows'
    BY <2>1 DEF IInv, Follows, OneHandler, WorksOn, Progress, InSync, HasItsLoop, LiveCrons,
                Busy, HoldsCron
  <2>4. Runs'
    BY <2>1 DEF IInv, Runs, OneTrigger, Triggers, HoldsRun, LiveRuns
  <2> QED
    BY <2>2, <2>3, <2>4 DEF IInv
<1> QED
  BY <1>1, <1>2, <1>3, <1>4, <1>5, <1>6 DEF Next

THEOREM SpecIInv == Spec => []IInv
<1>1. Init => IInv
  BY InitIInv
<1>2. IInv /\ [Next]_vars => IInv'
  BY NextKeepsIInv
<1> QED
  BY <1>1, <1>2, PTL DEF Spec

(* Every variable keeps its type: RoutineRunner's maps, the tree, the      *)
(* tasks and the operations each agent has left.                           *)
THEOREM TypeCorrect == Spec => []TypeOK
<1>1. IInv => TypeOK
  BY DEF IInv
<1> QED
  BY <1>1, SpecIInv, PTL

(* However handlers interleave, a cron loop that is not aborted is in      *)
(* cron_tasks or in the hands of the start_cron that spawned it.           *)
THEOREM NoCronLoopIsLost == Spec => []NoLostCron
<1>1. IInv => NoLostCron
  BY DEF IInv
<1> QED
  BY <1>1, SpecIInv, PTL

(* Between the requests for a routine that came one at a time its loop     *)
(* agrees with what is saved, whatever crashed or restarted in between.    *)
THEOREM LoopFollowsTree == Spec => []CronFollowsSaved
  BY SpecIInv, FollowsSuffices, PTL

(* A routine whose triggers came one at a time has one live execution at   *)
(* most, and cancel finds it.                                              *)
THEOREM OneExecution == Spec => []OneRun
  BY SpecIInv, RunsSuffices, PTL
=============================================================================
