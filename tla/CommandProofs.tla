---------------------------- MODULE CommandProofs ----------------------------
(***************************************************************************)
(* Theorems about what becomes of a command: FanOut, how it reaches the    *)
(* members of a group or a room, StateFlow, how the state comes back, and  *)
(* its conversions, CommandDto and Bond.  They hold for any devices,       *)
(* groups, rooms, callers, pollers and commanders, any lists and bounds; a *)
(* group may be a member of itself.                                        *)
(*                                                                         *)
(* FanOut.  A task was spawned by the call or by a group's task before it  *)
(* that got to its plugin (Lineage).  An "ok" stays one and says something *)
(* of one level only: a device's that it was done, a group's that its      *)
(* members answered ok (Truthful), a call's the same of its own            *)
(* (AnswersHold).  That it is true of all that is below follows by taking  *)
(* the first task of which it would not be (FirstTask).                    *)
(*                                                                         *)
(* StateFlow.  Merging an event into a cached state forgets no field, if   *)
(* the device has one switch at most (MergeKeepsKnown).                    *)
(***************************************************************************)
EXTENDS FanOut, StateFlow, SequenceTheorems, WellFoundedInduction, TLAPS

-----------------------------------------------------------------------------
(* FanOut: the inductive invariant.                                        *)

(* Task n was spawned by a group's task, which has got to its plugin.      *)
HasParent(n) ==
  LET p == tasks[n].by IN
  /\ p \in DOMAIN tasks /\ p < n
  /\ tasks[p].root = tasks[n].root /\ tasks[p].to \in Groups
  /\ tasks[p].st \notin {"spawned", "unsupported", "unreachable"}

Lineage ==
  \A n \in DOMAIN tasks :
    /\ call[tasks[n].root] # None
    /\ tasks[n].by # tasks[n].root => HasParent(n)

(* What an "ok" says.                                                      *)
Meant(n) ==
  /\ tasks[n].to \in Devices => n \in done
  /\ tasks[n].to \in Groups => \A k \in Kids(n) : tasks[k].st = "ok"
Truthful == \A n \in DOMAIN tasks : tasks[n].st = "ok" => Meant(n)

(* What the answer to a call says of the tasks it spawned itself.          *)
Passed(c, k) ==
  \/ tasks[k].st = "ok"
  \/ call[c].to \in Rooms /\ tasks[k].st \in {"unsupported", "unreachable"}
AnswersHold ==
  \A c \in Callers : answer[c] = "ok" => call[c] # None /\ \A k \in Kids(c) : Passed(c, k)

IInv == TypeOK /\ Lineage /\ Truthful /\ AnswersHold

-----------------------------------------------------------------------------
(* Lists of tasks.                                                         *)

Less == {ss \in Nat \X Nat : ss[1] < ss[2]}

LEMMA LessIsWellFounded == IsWellFoundedOn(Less, Nat)
  BY NatLessThanWellFounded DEF OpToRel, Less

LEMMA FirstTask ==
  ASSUME NEW T \in SUBSET Nat, T # {}
  PROVE  \E m \in T : \A n \in T : m <= n
<1>1. PICK m \in T : \A n \in T : ~(<<n, m>> \in Less)
  BY LessIsWellFounded, WFMin
<1>2. \A n \in T : ~(n < m)
  BY <1>1 DEF Less
<1> QED
  BY <1>2

LEMMA SpawnedAre ==
  ASSUME NEW x \in Callers \cup TaskIds, NEW c \in Callers, NEW v \in Values,
         NEW list \in Seq(Targets)
  PROVE  /\ Spawned(x, c, v, list) \in Seq(Tasks) /\ Len(Spawned(x, c, v, list)) = Len(list)
         /\ \A i \in 1..Len(list) :
              /\ Spawned(x, c, v, list)[i].by = x /\ Spawned(x, c, v, list)[i].root = c
              /\ Spawned(x, c, v, list)[i].st = "spawned"
<1>1. \A i \in 1..Len(list) : list[i] \in Targets
  OBVIOUS
<1>2. \A i \in 1..Len(list) :
        [by |-> x, root |-> c, to |-> list[i], val |-> v, st |-> "spawned"] \in Tasks
  BY <1>1 DEF Tasks
<1>3. Spawned(x, c, v, list) \in [1..Len(list) -> Tasks] /\ Len(list) \in Nat
  BY <1>2 DEF Spawned
<1>4. Spawned(x, c, v, list) \in Seq(Tasks) /\ Len(Spawned(x, c, v, list)) = Len(list)
  BY <1>3
<1>5. \A i \in 1..Len(list) :
        Spawned(x, c, v, list)[i] = [by |-> x, root |-> c, to |-> list[i], val |-> v, st |-> "spawned"]
  BY DEF Spawned
<1>6. ASSUME NEW i \in 1..Len(list)
      PROVE  /\ Spawned(x, c, v, list)[i].by = x /\ Spawned(x, c, v, list)[i].root = c
             /\ Spawned(x, c, v, list)[i].st = "spawned"
  <2>1. Spawned(x, c, v, list)[i] = [by |-> x, root |-> c, to |-> list[i], val |-> v, st |-> "spawned"]
    BY <1>5
  <2> QED
    BY <2>1
<1> QED
  BY <1>4, <1>6

(* Spawning appends tasks and changes none.                                *)
Joined(X, Y, x, c, v, list) == Y = X \o Spawned(x, c, v, list)

LEMMA Spawns ==
  ASSUME NEW X \in Seq(Tasks), NEW x \in Callers \cup TaskIds, NEW c \in Callers,
         NEW v \in Values, NEW list \in Seq(Targets), NEW Y, Joined(X, Y, x, c, v, list)
  PROVE  /\ Y \in Seq(Tasks) /\ Len(Y) = Len(X) + Len(list)
         /\ \A i \in 1..Len(X) : Y[i] = X[i]
         /\ \A i \in 1..Len(Y) : i > Len(X) => Y[i].by = x /\ Y[i].root = c /\ Y[i].st = "spawned"
<1>1. SUFFICES ASSUME NEW S \in Seq(Tasks), S = Spawned(x, c, v, list), Len(S) = Len(list),
                      \A i \in 1..Len(list) : S[i].by = x /\ S[i].root = c /\ S[i].st = "spawned"
               PROVE  /\ Y \in Seq(Tasks) /\ Len(Y) = Len(X) + Len(list)
                      /\ \A i \in 1..Len(X) : Y[i] = X[i]
                      /\ \A i \in 1..Len(Y) : i > Len(X) =>
                           Y[i].by = x /\ Y[i].root = c /\ Y[i].st = "spawned"
  BY SpawnedAre
<1>2. /\ Y \in Seq(Tasks) /\ Len(Y) = Len(X) + Len(S)
      /\ \A i \in 1..(Len(X) + Len(S)) : Y[i] = IF i <= Len(X) THEN X[i] ELSE S[i - Len(X)]
  <2>1. Y = X \o S
    BY <1>1 DEF Joined
  <2>2. /\ X \o S \in Seq(Tasks) /\ Len(X \o S) = Len(X) + Len(S)
        /\ \A i \in 1..(Len(X) + Len(S)) : (X \o S)[i] = IF i <= Len(X) THEN X[i] ELSE S[i - Len(X)]
    BY ConcatProperties
  <2> QED
    BY <2>1, <2>2
<1>3. ASSUME NEW i \in 1..Len(X) PROVE Y[i] = X[i]
  BY <1>2
<1>4. ASSUME NEW i \in 1..Len(Y), i > Len(X)
      PROVE  Y[i].by = x /\ Y[i].root = c /\ Y[i].st = "spawned"
  <2>1. Y[i] = S[i - Len(X)] /\ i - Len(X) \in 1..Len(list)
    BY <1>1, <1>2, <1>4
  <2> QED
    BY <1>1, <2>1
<1> QED
  BY <1>1, <1>2, <1>3, <1>4

(* A task's state changes.                                                 *)
Marked(X, Y, n, s) == Y = [X EXCEPT ![n].st = s]

OneMarked(X, Y, n, s) ==
  /\ Y \in Seq(Tasks) /\ Len(Y) = Len(X)
  /\ \A i \in 1..Len(X) : Y[i].by = X[i].by /\ Y[i].root = X[i].root /\ Y[i].to = X[i].to
  /\ Y[n].st = s /\ \A i \in 1..Len(X) : i # n => Y[i].st = X[i].st

LEMMA Marks ==
  ASSUME NEW X \in Seq(Tasks), NEW n \in 1..Len(X),
         NEW s \in Results \cup {"running"}, NEW Y, Marked(X, Y, n, s)
  PROVE  OneMarked(X, Y, n, s)
<1>1. X[n] \in Tasks /\ [X[n] EXCEPT !.st = s] \in Tasks
  <2>1. X[n] \in Tasks
    OBVIOUS
  <2> QED
    BY <2>1 DEF Tasks
<1>2. Y = [X EXCEPT ![n] = [X[n] EXCEPT !.st = s]]
  BY DEF Marked
<1>3. Y \in Seq(Tasks) /\ Len(Y) = Len(X)
  BY <1>1, <1>2
<1>4. ASSUME NEW i \in 1..Len(X)
      PROVE  /\ Y[i].by = X[i].by /\ Y[i].root = X[i].root /\ Y[i].to = X[i].to
             /\ Y[i].st = IF i = n THEN s ELSE X[i].st
  <2>1. X[i] \in Tasks /\ Y[i] = IF i = n THEN [X[n] EXCEPT !.st = s] ELSE X[i]
    BY <1>2
  <2> QED
    BY <2>1 DEF Tasks
<1>5. Y[n].st = s /\ \A i \in 1..Len(X) : i # n => Y[i].st = X[i].st
  BY <1>4
<1> QED
  BY <1>3, <1>4, <1>5 DEF OneMarked

-----------------------------------------------------------------------------
(* What a step may do to the tasks.                                        *)

(* The tasks there are stay in their places, and their results stand.      *)
Stand ==
  \A i \in DOMAIN tasks :
    /\ i \in DOMAIN tasks' /\ tasks'[i].by = tasks[i].by
    /\ tasks'[i].root = tasks[i].root /\ tasks'[i].to = tasks[i].to
    /\ tasks[i].st \in Results => tasks'[i].st = tasks[i].st

(* A group's task that got to its plugin has got to it.                    *)
Reached ==
  \A i \in DOMAIN tasks :
    tasks[i].to \in Groups /\ tasks'[i].st \in {"spawned", "unsupported", "unreachable"} =>
      tasks[i].st \in {"spawned", "unsupported", "unreachable"}

(* A new ok is true.                                                       *)
NewOks ==
  \A i \in DOMAIN tasks : tasks'[i].st = "ok" => tasks[i].st = "ok" \/ Meant(i)

(* A new task is spawned by a call that waits, or a task that runs.        *)
NewTasks ==
  \A i \in DOMAIN tasks' \ DOMAIN tasks :
    /\ tasks'[i].st = "spawned" /\ call'[tasks'[i].root] # None
    /\ tasks'[i].by \in Callers => answer'[tasks'[i].by] # "ok"
    /\ tasks'[i].by \in DOMAIN tasks => tasks'[tasks'[i].by].st # "ok"
    /\ tasks'[i].by # tasks'[i].root => HasParent(i)' /\ tasks'[i].by \in DOMAIN tasks

CallsStand ==
  /\ \A c \in Callers : call[c] # None => call'[c] # None /\ call'[c].to = call[c].to
  /\ \A c \in Callers : answer'[c] = "ok" => answer[c] = "ok"

LEMMA TasksGoOn ==
  ASSUME IInv, TypeOK', Stand, Reached, NewOks, NewTasks, CallsStand, done \subseteq done'
  PROVE  IInv'
<1>1. /\ \A i \in DOMAIN tasks : tasks[i] \in Tasks
      /\ \A i \in DOMAIN tasks' : tasks'[i] \in Tasks
  BY DEF IInv, TypeOK
<1>2. Lineage'
  <2>1. SUFFICES ASSUME NEW n \in DOMAIN tasks'
                 PROVE  /\ call'[tasks'[n].root] # None
                        /\ tasks'[n].by # tasks'[n].root => HasParent(n)'
    BY DEF Lineage
  <2>2. CASE n \in DOMAIN tasks
    <3>1. call[tasks[n].root] # None /\ tasks[n].root \in Callers
      BY <1>1, <2>2 DEF IInv, Lineage, Tasks
    <3>2. call'[tasks'[n].root] # None
      BY <2>2, <3>1 DEF Stand, CallsStand
    <3>3. ASSUME tasks'[n].by # tasks'[n].root PROVE HasParent(n)'
      <4>1. SUFFICES ASSUME NEW p, p = tasks[n].by PROVE HasParent(n)'
        OBVIOUS
      <4>2. HasParent(n) /\ tasks'[n].by = p /\ tasks'[n].root = tasks[n].root
        BY <2>2, <3>3, <4>1 DEF IInv, Lineage, Stand
      <4>3. /\ p \in DOMAIN tasks /\ p < n
            /\ tasks[p].root = tasks[n].root /\ tasks[p].to \in Groups
            /\ tasks[p].st \notin {"spawned", "unsupported", "unreachable"}
        BY <4>1, <4>2 DEF HasParent
      <4>4. /\ p \in DOMAIN tasks' /\ tasks'[p].root = tasks[p].root
            /\ tasks'[p].to = tasks[p].to
            /\ tasks'[p].st \notin {"spawned", "unsupported", "unreachable"}
        BY <4>3 DEF Stand, Reached
      <4> QED
        BY <4>2, <4>3, <4>4 DEF HasParent
    <3> QED
      BY <3>2, <3>3
  <2>3. CASE n \notin DOMAIN tasks
    BY <2>3 DEF NewTasks
  <2> QED
    BY <2>2, <2>3
<1>3. ASSUME NEW x, NEW k \in Kids(x)' , x \in Callers => answer'[x] = "ok",
             x \in DOMAIN tasks => tasks'[x].st = "ok"
      PROVE  k \in Kids(x)
  <2>1. k \in DOMAIN tasks' /\ tasks'[k].by = x
    BY DEF Kids
  <2>2. CASE k \in DOMAIN tasks
    BY <2>1, <2>2 DEF Stand, Kids
  <2>3. CASE k \notin DOMAIN tasks
    <3>1. tasks'[k].root \in Callers
      BY <1>1, <2>1 DEF Tasks
    <3> QED
      BY <1>3, <2>1, <2>3, <3>1 DEF NewTasks
  <2> QED
    BY <2>2, <2>3
<1>4. Truthful'
  <2>1. SUFFICES ASSUME NEW n \in DOMAIN tasks', tasks'[n].st = "ok" PROVE Meant(n)'
    BY DEF Truthful
  <2>2. n \in DOMAIN tasks
    BY <2>1 DEF NewTasks
  <2>3. Meant(n) /\ tasks'[n].to = tasks[n].to
    BY <2>1, <2>2 DEF IInv, Truthful, NewOks, Stand
  <2>4. n \notin Callers
    BY <2>2, FanOutAssumption DEF IInv, TypeOK
  <2>5. ASSUME tasks[n].to \in Groups, NEW k \in Kids(n)' PROVE tasks'[k].st = "ok"
    <3>1. k \in Kids(n)
      BY <1>3, <2>1, <2>4
    <3>2. k \in DOMAIN tasks /\ tasks[k].st = "ok"
      BY <2>3, <2>5, <3>1 DEF Meant, Kids
    <3> QED
      BY <3>2 DEF Stand, Results
  <2> QED
    BY <2>3, <2>5 DEF Meant
<1>5. AnswersHold'
  <2>1. SUFFICES ASSUME NEW c \in Callers, answer'[c] = "ok"
                 PROVE  call'[c] # None /\ \A k \in Kids(c)' : Passed(c, k)'
    BY DEF AnswersHold
  <2>2. call[c] # None /\ \A k \in Kids(c) : Passed(c, k)
    BY <2>1 DEF CallsStand, IInv, AnswersHold
  <2>3. call'[c] # None /\ call'[c].to = call[c].to
    BY <2>2 DEF CallsStand
  <2>4. ASSUME NEW k \in Kids(c)' PROVE Passed(c, k)'
    <3>1. c \notin DOMAIN tasks
      BY FanOutAssumption DEF IInv, TypeOK
    <3>2. k \in Kids(c)
      BY <1>3, <2>1, <3>1
    <3>3. k \in DOMAIN tasks /\ Passed(c, k)
      BY <2>2, <3>2 DEF Kids
    <3> QED
      BY <2>3, <3>3 DEF Passed, Stand, Results
  <2> QED
    BY <2>3, <2>4
<1> QED
  BY <1>2, <1>4, <1>5 DEF IInv

-----------------------------------------------------------------------------
(* The steps.                                                              *)

LEMMA TasksAre ==
  ASSUME TypeOK, NEW n \in DOMAIN tasks
  PROVE  /\ tasks \in Seq(Tasks) /\ DOMAIN tasks = 1..Len(tasks) /\ Len(tasks) \in Nat
         /\ Len(tasks) <= MaxTasks /\ n \in TaskIds /\ n \notin Callers
         /\ tasks[n] \in Tasks /\ tasks[n].root \in Callers /\ tasks[n].to \in Targets
         /\ tasks[n].val \in Values
<1>1. tasks \in Seq(Tasks) /\ DOMAIN tasks = 1..Len(tasks) /\ Len(tasks) \in Nat /\ tasks[n] \in Tasks
  BY DEF TypeOK
<1>2. Len(tasks) <= MaxTasks
  BY DEF TypeOK
<1>3. n \in TaskIds /\ n \in Int
  BY <1>1, <1>2, FanOutAssumption DEF TaskIds
<1> QED
  BY <1>1, <1>2, <1>3, FanOutAssumption DEF Tasks

(* Task n gets on or ends.                                                 *)
GetsOn(n, s) ==
  /\ tasks[n].st \in {"spawned", "running"} /\ tasks' = [tasks EXCEPT ![n].st = s]
  /\ UNCHANGED <<stores, calls, done, shows, edits>> /\ afloat' \subseteq DOMAIN tasks
  /\ s \in {"unsupported", "unreachable"} =>
       tasks[n].st = "spawned" \/ tasks[n].to \notin Groups
  /\ s = "ok" => Meant(n)

LEMMA MarkSteps ==
  ASSUME IInv, NEW n \in DOMAIN tasks, NEW s \in Results \cup {"running"}, GetsOn(n, s)
  PROVE  IInv'
<1> USE DEF GetsOn
<1>1. TypeOK /\ tasks \in Seq(Tasks) /\ Len(tasks) \in Nat /\ DOMAIN tasks = 1..Len(tasks)
  BY TasksAre DEF IInv
<1>2. /\ tasks' \in Seq(Tasks) /\ Len(tasks') = Len(tasks) /\ DOMAIN tasks' = 1..Len(tasks')
      /\ \A i \in DOMAIN tasks : /\ tasks'[i].by = tasks[i].by /\ tasks'[i].root = tasks[i].root
                                 /\ tasks'[i].to = tasks[i].to
      /\ \A i \in DOMAIN tasks : tasks'[i].st = IF i = n THEN s ELSE tasks[i].st
  <2>1. Marked(tasks, tasks', n, s)
    BY DEF Marked
  <2>2. /\ tasks' \in Seq(Tasks) /\ Len(tasks') = Len(tasks)
        /\ \A i \in DOMAIN tasks : /\ tasks'[i].by = tasks[i].by /\ tasks'[i].root = tasks[i].root
                                   /\ tasks'[i].to = tasks[i].to
        /\ tasks'[n].st = s /\ \A i \in DOMAIN tasks : i # n => tasks'[i].st = tasks[i].st
    <3>1. n \in 1..Len(tasks)
      BY <1>1
    <3>2. OneMarked(tasks, tasks', n, s)
      BY <1>1, <2>1, <3>1, Marks
    <3> QED
      BY <1>1, <3>2 DEF OneMarked
  <2> QED
    BY <2>2
<1>3. /\ there' = there /\ members' = members /\ rooms' = rooms /\ call' = call
      /\ answer' = answer /\ done' = done /\ shows' = shows /\ edits' = edits
  BY DEF stores, calls
<1>4. TypeOK'
  BY <1>1, <1>2, <1>3 DEF TypeOK
<1>5. Stand
  BY <1>1, <1>2 DEF Stand, Results
<1>6. Reached
  BY <1>1, <1>2 DEF Reached, Results
<1>7. NewOks
  BY <1>1, <1>2 DEF NewOks
<1>8. NewTasks
  BY <1>1, <1>2 DEF NewTasks
<1>9. CallsStand
  BY <1>3 DEF CallsStand
<1> QED
  BY <1>3, <1>4, <1>5, <1>6, <1>7, <1>8, <1>9, TasksGoOn

LEMMA BeginsGroup ==
  ASSUME IInv, NEW n \in DOMAIN tasks, Begin(n), tasks[n].to \in there, tasks[n].to \notin Devices
  PROVE  IInv'
<1>1. /\ TypeOK /\ Lineage /\ tasks \in Seq(Tasks) /\ Len(tasks) \in Nat
      /\ DOMAIN tasks = 1..Len(tasks) /\ n \in TaskIds /\ n \notin Callers
      /\ tasks[n].root \in Callers /\ tasks[n].val \in Values /\ tasks[n].to \in Groups
  BY TasksAre DEF IInv, Targets
<1>2. SUFFICES ASSUME NEW list, list = members[tasks[n].to] PROVE IInv'
  OBVIOUS
<1>3. SUFFICES ASSUME NEW X, X = [tasks EXCEPT ![n].st = "running"] PROVE IInv'
  OBVIOUS
<1>4. list \in Seq(Targets) /\ Len(list) \in Nat
  BY <1>1, <1>2 DEF TypeOK
<1>5. /\ tasks[n].st = "spawned" /\ Len(tasks) + Len(list) <= MaxTasks
      /\ tasks' = X \o Spawned(n, tasks[n].root, tasks[n].val, list)
      /\ there' = there /\ members' = members /\ rooms' = rooms /\ call' = call
      /\ answer' = answer /\ done' = done /\ shows' = shows /\ edits' = edits /\ afloat' = afloat
  BY <1>2, <1>3 DEF Begin, stores, calls
<1>6. /\ X \in Seq(Tasks) /\ Len(X) = Len(tasks)
      /\ \A i \in DOMAIN tasks : /\ X[i].by = tasks[i].by /\ X[i].root = tasks[i].root
                                 /\ X[i].to = tasks[i].to
      /\ \A i \in DOMAIN tasks : X[i].st = IF i = n THEN "running" ELSE tasks[i].st
  <2>1. Marked(tasks, X, n, "running") /\ "running" \in Results \cup {"running"}
    BY <1>3 DEF Marked
  <2>2. /\ X \in Seq(Tasks) /\ Len(X) = Len(tasks)
        /\ \A i \in DOMAIN tasks : /\ X[i].by = tasks[i].by /\ X[i].root = tasks[i].root
                                   /\ X[i].to = tasks[i].to
        /\ X[n].st = "running" /\ \A i \in DOMAIN tasks : i # n => X[i].st = tasks[i].st
    <3>1. n \in 1..Len(tasks)
      BY <1>1
    <3>2. OneMarked(tasks, X, n, "running")
      BY <1>1, <2>1, <3>1, Marks
    <3> QED
      BY <1>1, <3>2 DEF OneMarked
  <2> QED
    BY <2>2
<1>7. /\ tasks' \in Seq(Tasks) /\ Len(tasks') = Len(X) + Len(list)
      /\ \A i \in 1..Len(X) : tasks'[i] = X[i]
      /\ \A i \in 1..Len(tasks') : i > Len(X) =>
           tasks'[i].by = n /\ tasks'[i].root = tasks[n].root /\ tasks'[i].st = "spawned"
  <2>1. Joined(X, tasks', n, tasks[n].root, tasks[n].val, list) /\ n \in Callers \cup TaskIds
    BY <1>1, <1>5 DEF Joined
  <2> QED
    BY <1>1, <1>4, <1>6, <2>1, Spawns
<1>8. /\ DOMAIN tasks' = 1..Len(tasks') /\ Len(tasks') \in Nat /\ Len(tasks') <= MaxTasks
      /\ DOMAIN tasks \subseteq DOMAIN tasks'
      /\ \A i \in DOMAIN tasks : i \in 1..Len(X)
      /\ \A i \in DOMAIN tasks' \ DOMAIN tasks : i \in 1..Len(tasks') /\ i > Len(X) /\ n < i
  BY <1>1, <1>4, <1>5, <1>6, <1>7
<1>9. TypeOK'
  BY <1>1, <1>5, <1>7, <1>8 DEF TypeOK
<1>10. \A i \in DOMAIN tasks :
         /\ i \in DOMAIN tasks' /\ tasks'[i].by = tasks[i].by /\ tasks'[i].root = tasks[i].root
         /\ tasks'[i].to = tasks[i].to /\ tasks'[i].st = IF i = n THEN "running" ELSE tasks[i].st
  BY <1>6, <1>7, <1>8
<1>11. Stand
  BY <1>5, <1>10 DEF Stand, Results
<1>12. Reached
  BY <1>10 DEF Reached
<1>13. NewOks
  BY <1>10 DEF NewOks
<1>14. NewTasks
  <2>1. SUFFICES ASSUME NEW i \in DOMAIN tasks' \ DOMAIN tasks
                 PROVE  /\ tasks'[i].st = "spawned" /\ call'[tasks'[i].root] # None
                        /\ tasks'[i].by = n /\ tasks'[n].st # "ok" /\ HasParent(i)'
    BY <1>1 DEF NewTasks
  <2>2. tasks'[i].by = n /\ tasks'[i].root = tasks[n].root /\ tasks'[i].st = "spawned" /\ n < i
    BY <1>7, <1>8
  <2>3. call'[tasks'[i].root] # None
    BY <1>1, <1>5, <2>2 DEF Lineage
  <2>4. /\ n \in DOMAIN tasks' /\ tasks'[n].st = "running" /\ tasks'[n].root = tasks[n].root
        /\ tasks'[n].to \in Groups
    BY <1>1, <1>10
  <2>5. HasParent(i)'
    BY <2>2, <2>4 DEF HasParent
  <2> QED
    BY <2>2, <2>3, <2>4, <2>5
<1>15. CallsStand
  BY <1>5 DEF CallsStand
<1> QED
  BY <1>5, <1>9, <1>11, <1>12, <1>13, <1>14, <1>15, TasksGoOn

LEMMA Begins ==
  ASSUME IInv, NEW n \in DOMAIN tasks, Begin(n)
  PROVE  IInv'
<1>1. /\ tasks[n].st = "spawned" /\ UNCHANGED <<stores, calls, done, shows, edits>>
      /\ afloat' \subseteq DOMAIN tasks
  BY DEF Begin, IInv, TypeOK
<1>2. CASE tasks[n].to \notin there
  <2>1. tasks' = [tasks EXCEPT ![n].st = "unreachable"]
    BY <1>2 DEF Begin
  <2>2. GetsOn(n, "unreachable") /\ "unreachable" \in Results \cup {"running"}
    BY <1>1, <2>1 DEF GetsOn, Results
  <2> QED
    BY <2>2, MarkSteps
<1>3. CASE tasks[n].to \in there /\ tasks[n].to \in Devices
  <2>1. tasks' = [tasks EXCEPT ![n].st = "running"]
    BY <1>3 DEF Begin
  <2>2. GetsOn(n, "running") /\ "running" \in Results \cup {"running"}
    BY <1>1, <2>1 DEF GetsOn
  <2> QED
    BY <2>2, MarkSteps
<1>4. CASE tasks[n].to \in there /\ tasks[n].to \notin Devices
  BY <1>4, BeginsGroup
<1> QED
  BY <1>2, <1>3, <1>4

LEMMA PluginsReturn ==
  ASSUME IInv, NEW n \in DOMAIN tasks, PluginReturns(n)
  PROVE  IInv'
<1>1. /\ tasks[n].st = "running" /\ tasks[n].to \in Devices
      /\ UNCHANGED <<stores, calls, done, shows, edits>> /\ afloat' \subseteq DOMAIN tasks
  BY DEF PluginReturns, IInv, TypeOK
<1>2. PICK s \in Reports(n) : tasks' = [tasks EXCEPT ![n].st = s]
  BY DEF PluginReturns
<1>3. s \in Results /\ (s = "ok" => n \in done)
  BY <1>2 DEF Reports, Results
<1>4. tasks[n].to \notin Groups
  BY <1>1, FanOutAssumption
<1>5. s = "ok" => Meant(n)
  BY <1>3, <1>4 DEF Meant
<1>6. GetsOn(n, s)
  BY <1>1, <1>2, <1>4, <1>5 DEF GetsOn
<1> QED
  BY <1>3, <1>6, MarkSteps

LEMMA GroupsReturn ==
  ASSUME IInv, NEW n \in DOMAIN tasks, GroupReturns(n)
  PROVE  IInv'
<1>1. /\ tasks[n].st = "running" /\ tasks[n].to \in Groups
      /\ UNCHANGED <<stores, calls, done, shows, edits>> /\ afloat' \subseteq DOMAIN tasks
  BY DEF GroupReturns, IInv, TypeOK
<1>2. PICK s \in {"ok", "error"} :
        tasks' = [tasks EXCEPT ![n].st = s] /\ (s = "ok" => GroupErrors(n) = {})
  BY DEF GroupReturns
<1>3. s \in Results
  BY DEF Results
<1>4. s = "ok" => Meant(n)
  BY <1>1, <1>2, FanOutAssumption DEF Meant, GroupErrors
<1>5. GetsOn(n, s)
  BY <1>1, <1>2, <1>4 DEF GetsOn
<1> QED
  BY <1>3, <1>5, MarkSteps

LEMMA TimesOut ==
  ASSUME IInv, NEW n \in DOMAIN tasks, TimeOut(n)
  PROVE  IInv'
<1>1. /\ tasks[n].st = "running" /\ tasks' = [tasks EXCEPT ![n].st = "timeout"]
      /\ UNCHANGED <<stores, calls, done, shows, edits>>
  BY DEF TimeOut
<1>2. afloat' \subseteq DOMAIN tasks
  BY DEF TimeOut, IInv, TypeOK
<1>3. GetsOn(n, "timeout") /\ "timeout" \in Results \cup {"running"}
  BY <1>1, <1>2 DEF GetsOn, Results
<1> QED
  BY <1>3, MarkSteps

(* A step that leaves the tasks.                                           *)
LEMMA TasksStay ==
  ASSUME IInv, TypeOK', tasks' = tasks, done \subseteq done', CallsStand
  PROVE  IInv'
<1>1. Stand /\ Reached /\ NewOks /\ NewTasks
  BY DEF Stand, Reached, NewOks, NewTasks
<1> QED
  BY <1>1, TasksGoOn

LEMMA CarriesOut ==
  ASSUME IInv, NEW n \in DOMAIN tasks, CarryOut(n)
  PROVE  IInv'
<1>1. /\ there' = there /\ members' = members /\ rooms' = rooms /\ call' = call
      /\ answer' = answer /\ tasks' = tasks /\ edits' = edits
      /\ done' = done \cup {n} /\ afloat' = afloat \ {n}
      /\ shows' = [shows EXCEPT ![tasks[n].to] = tasks[n].val]
  BY DEF CarryOut, stores, calls
<1>2. TypeOK /\ tasks[n].val \in Values
  BY TasksAre DEF IInv
<1>3. shows' \in [Devices -> Values \cup {None}]
  BY <1>1, <1>2 DEF TypeOK
<1>4. TypeOK'
  BY <1>1, <1>2, <1>3 DEF TypeOK
<1>5. CallsStand
  BY <1>1 DEF CallsStand
<1> QED
  BY <1>1, <1>4, <1>5, TasksStay

-----------------------------------------------------------------------------
(* Calls.                                                                  *)

LEMMA Commands ==
  ASSUME IInv, NEW c \in Callers, NEW x \in Groups \cup Rooms, NEW v \in Values, Command(c, x, v)
  PROVE  IInv'
<1>1. SUFFICES ASSUME NEW list, list = ListOf(x) PROVE IInv'
  OBVIOUS
<1>2. /\ call[c] = None /\ Len(tasks) + Len(list) <= MaxTasks
      /\ call' = [call EXCEPT ![c] = [to |-> x, st |-> "waiting"]]
      /\ tasks' = tasks \o Spawned(c, c, v, list)
      /\ there' = there /\ members' = members /\ rooms' = rooms /\ answer' = answer
      /\ done' = done /\ shows' = shows /\ edits' = edits /\ afloat' = afloat
  BY <1>1 DEF Command, stores
<1>3. TypeOK /\ tasks \in Seq(Tasks) /\ Len(tasks) \in Nat /\ DOMAIN tasks = 1..Len(tasks)
  BY DEF IInv, TypeOK
<1>4. list \in Seq(Targets) /\ Len(list) \in Nat
  <2>1. list \in Seq(Targets)
    BY <1>1, <1>3 DEF Command, ListOf, TypeOK
  <2> QED
    BY <2>1
<1>5. /\ tasks' \in Seq(Tasks) /\ Len(tasks') = Len(tasks) + Len(list)
      /\ \A i \in 1..Len(tasks) : tasks'[i] = tasks[i]
      /\ \A i \in 1..Len(tasks') : i > Len(tasks) =>
           tasks'[i].by = c /\ tasks'[i].root = c /\ tasks'[i].st = "spawned"
  <2>1. Joined(tasks, tasks', c, c, v, list)
    BY <1>2 DEF Joined
  <2>2. c \in Callers \cup TaskIds
    OBVIOUS
  <2> QED
    BY <1>3, <1>4, <2>1, <2>2, Spawns
<1>6. /\ DOMAIN tasks' = 1..Len(tasks') /\ Len(tasks') \in Nat /\ Len(tasks') <= MaxTasks
      /\ DOMAIN tasks \subseteq DOMAIN tasks'
      /\ \A i \in DOMAIN tasks : tasks'[i] = tasks[i]
      /\ \A i \in DOMAIN tasks' \ DOMAIN tasks : i \in 1..Len(tasks') /\ i > Len(tasks)
  BY <1>2, <1>3, <1>4, <1>5
<1>7. [to |-> x, st |-> "waiting"] \in Calls /\ [to |-> x, st |-> "waiting"] # None
  <2>1. [to |-> x, st |-> "waiting"] \in Calls
    BY DEF Calls
  <2> QED
    BY <2>1, FanOutAssumption
<1>8. /\ call' \in [Callers -> Calls \cup {None}] /\ call'[c] # None
      /\ \A b \in Callers \ {c} : call'[b] = call[b]
  BY <1>2, <1>3, <1>7 DEF TypeOK
<1>9. TypeOK'
  BY <1>2, <1>3, <1>5, <1>6, <1>8 DEF TypeOK
<1>10. Stand /\ Reached /\ NewOks
  BY <1>6 DEF Stand, Reached, NewOks
<1>11. CallsStand
  BY <1>2, <1>8 DEF CallsStand
<1>12. answer[c] # "ok" /\ c \notin DOMAIN tasks
  BY <1>2, <1>3, FanOutAssumption DEF IInv, AnswersHold
<1>13. NewTasks
  BY <1>2, <1>5, <1>6, <1>8, <1>12 DEF NewTasks
<1> QED
  BY <1>2, <1>9, <1>10, <1>11, <1>13, TasksGoOn

(* A call that is over without an Ok.                                      *)
LEMMA CallsEndBadly ==
  ASSUME IInv, NEW c \in Callers, NEW x \in Groups \cup Rooms, NEW a \in {"err", "gone"},
         call[c] = None \/ call[c].to = x,
         call' = [call EXCEPT ![c] = [to |-> x, st |-> "over"]],
         answer' = [answer EXCEPT ![c] = a],
         UNCHANGED <<stores, tasks, afloat, done, shows, edits>>
  PROVE  IInv'
<1>1. /\ there' = there /\ members' = members /\ rooms' = rooms /\ tasks' = tasks
      /\ done' = done /\ shows' = shows /\ edits' = edits /\ afloat' = afloat
  BY DEF stores
<1>2. TypeOK
  BY DEF IInv
<1>3. [to |-> x, st |-> "over"] \in Calls /\ [to |-> x, st |-> "over"] # None
  <2>1. [to |-> x, st |-> "over"] \in Calls
    BY DEF Calls
  <2> QED
    BY <2>1, FanOutAssumption
<1>4. /\ call' \in [Callers -> Calls \cup {None}] /\ answer' \in [Callers -> {None, "ok", "err", "gone"}]
      /\ call'[c] # None /\ call'[c].to = x /\ answer'[c] = a
      /\ \A b \in Callers \ {c} : call'[b] = call[b] /\ answer'[b] = answer[b]
  BY <1>2, <1>3 DEF TypeOK
<1>5. TypeOK'
  BY <1>1, <1>2, <1>4 DEF TypeOK
<1>6. CallsStand
  BY <1>4 DEF CallsStand
<1> QED
  BY <1>1, <1>5, <1>6, TasksStay

LEMMA CallIs ==
  ASSUME IInv, NEW c \in Callers, call[c] # None
  PROVE  /\ call[c].to \in Groups \cup Rooms
         /\ [call EXCEPT ![c].st = "over"] = [call EXCEPT ![c] = [to |-> call[c].to, st |-> "over"]]
<1>1. call[c] \in Calls
  BY DEF IInv, TypeOK
<1>2. [call[c] EXCEPT !.st = "over"] = [to |-> call[c].to, st |-> "over"]
  BY <1>1 DEF Calls
<1> QED
  BY <1>1, <1>2 DEF Calls

LEMMA Answers ==
  ASSUME IInv, NEW c \in Callers, Answer(c)
  PROVE  IInv'
<1>1. SUFFICES ASSUME NEW x, x = call[c].to PROVE IInv'
  OBVIOUS
<1>2. SUFFICES ASSUME NEW errors, errors = IF x \in Groups THEN GroupErrors(c) ELSE RoomErrors(c)
               PROVE  IInv'
  OBVIOUS
<1>3. /\ call[c] # None /\ x \in Groups \cup Rooms
      /\ call' = [call EXCEPT ![c] = [to |-> x, st |-> "over"]]
  BY <1>1, CallIs DEF Answer
<1>4. /\ answer' = [answer EXCEPT ![c] = IF errors = {} THEN "ok" ELSE "err"]
      /\ UNCHANGED <<stores, tasks, afloat, done, shows, edits>>
  BY <1>1, <1>2 DEF Answer
<1>5. CASE errors # {}
  <2>1. answer' = [answer EXCEPT ![c] = "err"]
    BY <1>4, <1>5
  <2> QED
    BY <1>1, <1>3, <1>4, <2>1, CallsEndBadly
<1>6. CASE errors = {}
  <2>1. /\ there' = there /\ members' = members /\ rooms' = rooms /\ tasks' = tasks
        /\ done' = done /\ shows' = shows /\ edits' = edits /\ afloat' = afloat
    BY <1>4 DEF stores
  <2>2. TypeOK /\ answer' = [answer EXCEPT ![c] = "ok"]
    BY <1>4, <1>6 DEF IInv
  <2>3. [to |-> x, st |-> "over"] \in Calls
    BY <1>3 DEF Calls
  <2>4. /\ call' \in [Callers -> Calls \cup {None}] /\ answer' \in [Callers -> {None, "ok", "err", "gone"}]
        /\ call'[c] # None /\ call'[c].to = x
        /\ \A b \in Callers \ {c} : call'[b] = call[b] /\ answer'[b] = answer[b]
    BY <1>3, <2>2, <2>3, FanOutAssumption DEF TypeOK
  <2>5. TypeOK'
    BY <2>1, <2>2, <2>4 DEF TypeOK
  <2>6. \A k \in Kids(c) : Passed(c, k)
    BY <1>1, <1>2, <1>3, <1>6 DEF GroupErrors, RoomErrors, Passed
  <2>7. \A k \in Kids(c) : Passed(c, k)'
    BY <1>1, <2>1, <2>4, <2>6 DEF Passed
  <2>8. \A b \in Callers : Kids(b)' = Kids(b)
    BY <2>1 DEF Kids
  <2>9. AnswersHold'
    <3>1. SUFFICES ASSUME NEW b \in Callers, answer'[b] = "ok"
                   PROVE  call'[b] # None /\ \A k \in Kids(b)' : Passed(b, k)'
      BY DEF AnswersHold
    <3>2. CASE b = c
      BY <2>4, <2>7, <2>8, <3>2
    <3>3. CASE b # c
      <4>1. call[b] # None /\ \A k \in Kids(b) : Passed(b, k)
        BY <2>4, <3>1, <3>3 DEF IInv, AnswersHold
      <4>2. \A k \in Kids(b) : Passed(b, k)'
        BY <2>1, <2>4, <3>3, <4>1 DEF Passed
      <4> QED
        BY <2>4, <2>8, <3>3, <4>1, <4>2
    <3> QED
      BY <3>2, <3>3
  <2>10. Lineage'
    <3>1. \A n \in DOMAIN tasks : HasParent(n)' = HasParent(n)
      BY <2>1 DEF HasParent
    <3>2. \A n \in DOMAIN tasks : tasks[n].root \in Callers
      BY <2>2, TasksAre
    <3> QED
      BY <2>1, <2>4, <3>1, <3>2 DEF IInv, Lineage
  <2>11. Truthful'
    <3>1. \A n \in DOMAIN tasks : Meant(n)' = Meant(n)
      BY <2>1 DEF Meant, Kids
    <3> QED
      BY <2>1, <3>1 DEF IInv, Truthful
  <2> QED
    BY <2>5, <2>9, <2>10, <2>11 DEF IInv
<1> QED
  BY <1>5, <1>6

LEMMA CallersStep ==
  ASSUME IInv, NEW c \in Callers, Caller(c)
  PROVE  IInv'
<1>1. ASSUME NEW x \in Groups \cup Rooms, CommandFails(c, x) PROVE IInv'
  BY <1>1, CallsEndBadly DEF CommandFails
<1>2. ASSUME CallerGone(c) PROVE IInv'
  <2>1. /\ call[c] # None /\ call' = [call EXCEPT ![c].st = "over"]
        /\ answer' = [answer EXCEPT ![c] = "gone"]
        /\ UNCHANGED <<stores, tasks, afloat, done, shows, edits>>
    BY <1>2 DEF CallerGone, LeftRunning
  <2>2. SUFFICES ASSUME NEW x, x = call[c].to PROVE IInv'
    OBVIOUS
  <2>3. x \in Groups \cup Rooms /\ call' = [call EXCEPT ![c] = [to |-> x, st |-> "over"]]
    BY <2>1, <2>2, CallIs
  <2> QED
    BY <2>1, <2>2, <2>3, CallsEndBadly
<1> QED
  BY <1>1, <1>2, Commands, Answers DEF Caller

-----------------------------------------------------------------------------
(* Editors, and the theorem.                                               *)

LEMMA Edits ==
  ASSUME IInv, Editor
  PROVE  IInv'
<1>1. TypeOK
  BY DEF IInv
<1>2. /\ Edit /\ there' \subseteq Targets /\ members' \in [Groups -> Seq(Targets)]
      /\ rooms' \in [Rooms -> Seq(Targets) \cup {None}]
  <2>1. ASSUME NEW r \in Rooms, DeleteRoom(r)
        PROVE  /\ Edit /\ there' \subseteq Targets /\ members' \in [Groups -> Seq(Targets)]
               /\ rooms' \in [Rooms -> Seq(Targets) \cup {None}]
    BY <1>1, <2>1 DEF DeleteRoom, TypeOK
  <2>2. ASSUME NEW r \in Rooms, NEW list \in Lists[r], SaveRoom(r, list)
        PROVE  /\ Edit /\ there' \subseteq Targets /\ members' \in [Groups -> Seq(Targets)]
               /\ rooms' \in [Rooms -> Seq(Targets) \cup {None}]
    <3>1. list \in Seq(Targets)
      BY FanOutAssumption
    <3> QED
      BY <1>1, <2>2, <3>1 DEF SaveRoom, TypeOK
  <2>3. ASSUME NEW g \in Groups, NEW list \in Lists[g], SaveGroup(g, list)
        PROVE  /\ Edit /\ there' \subseteq Targets /\ members' \in [Groups -> Seq(Targets)]
               /\ rooms' \in [Rooms -> Seq(Targets) \cup {None}]
    <3>1. list \in Seq(Targets)
      BY FanOutAssumption
    <3> QED
      BY <1>1, <2>3, <3>1 DEF SaveGroup, TypeOK, Targets
  <2>4. ASSUME NEW x \in Targets, Unregister(x)
        PROVE  /\ Edit /\ there' \subseteq Targets /\ members' \in [Groups -> Seq(Targets)]
               /\ rooms' \in [Rooms -> Seq(Targets) \cup {None}]
    BY <1>1, <2>4 DEF Unregister, TypeOK
  <2> QED
    BY <2>1, <2>2, <2>3, <2>4 DEF Editor
<1>3. edits' \in 0..MaxEdits
  BY <1>1, <1>2, FanOutAssumption DEF Edit, TypeOK
<1>4. /\ call' = call /\ answer' = answer /\ tasks' = tasks /\ afloat' = afloat /\ done' = done
      /\ shows' = shows
  BY <1>2 DEF Edit, calls
<1>5. TypeOK'
  BY <1>1, <1>2, <1>3, <1>4 DEF TypeOK
<1>6. CallsStand
  BY <1>4 DEF CallsStand
<1> QED
  BY <1>4, <1>5, <1>6, TasksStay

LEMMA InitIInv == Init => IInv
<1> SUFFICES ASSUME Init PROVE IInv
  OBVIOUS
<1>1. members \in [Groups -> Seq(Targets)]
  <2>1. /\ members \in [Groups -> UNION {Lists[g] : g \in Groups}]
        /\ \A g \in Groups : members[g] \in Lists[g]
    BY DEF Init
  <2>2. \A g \in Groups : members[g] \in Seq(Targets)
    BY <2>1, FanOutAssumption
  <2> QED
    BY <2>1, <2>2
<1>2. rooms \in [Rooms -> Seq(Targets) \cup {None}]
  <2>1. /\ rooms \in [Rooms -> UNION {Lists[r] : r \in Rooms}]
        /\ \A r \in Rooms : rooms[r] \in Lists[r]
    BY DEF Init
  <2>2. \A r \in Rooms : rooms[r] \in Seq(Targets)
    BY <2>1, FanOutAssumption
  <2> QED
    BY <2>1, <2>2
<1>3. tasks = <<>> /\ Len(tasks) = 0 /\ DOMAIN tasks = {} /\ edits \in 0..MaxEdits
  BY FanOutAssumption DEF Init
<1>4. call = [c \in Callers |-> None] /\ answer = [c \in Callers |-> None]
  BY DEF Init
<1>5. TypeOK
  BY <1>1, <1>2, <1>3, <1>4, FanOutAssumption DEF Init, TypeOK
<1>6. Lineage /\ Truthful
  BY <1>3 DEF Lineage, Truthful
<1>7. \A c \in Callers : answer[c] # "ok"
  BY <1>4, FanOutAssumption
<1> QED
  BY <1>5, <1>6, <1>7 DEF IInv, AnswersHold

LEMMA NextIInv ==
  ASSUME IInv, [Next]_vars
  PROVE  IInv'
<1>1. ASSUME NEW n \in DOMAIN tasks, Member(n) PROVE IInv'
  BY <1>1, Begins, CarriesOut, PluginsReturn, GroupsReturn, TimesOut DEF Member
<1>2. ASSUME NEW c \in Callers, Caller(c) PROVE IInv'
  BY <1>2, CallersStep
<1>3. ASSUME Editor PROVE IInv'
  BY <1>3, Edits
<1>4. ASSUME UNCHANGED vars PROVE IInv'
  <2>1. /\ there' = there /\ members' = members /\ rooms' = rooms /\ call' = call
        /\ answer' = answer /\ tasks' = tasks /\ done' = done /\ shows' = shows
        /\ edits' = edits /\ afloat' = afloat
    BY <1>4 DEF vars, stores, calls
  <2>2. TypeOK'
    BY <2>1 DEF IInv, TypeOK
  <2>3. CallsStand
    BY <2>1 DEF CallsStand
  <2> QED
    BY <2>1, <2>2, <2>3, TasksStay
<1> QED
  BY <1>1, <1>2, <1>3, <1>4 DEF Next

(* In every reachable state, through any time-outs, edits and callers that *)
(* go away, the tasks have their lineage and an "ok" says what it says of  *)
(* its own level.                                                          *)
THEOREM Invariance == Spec => []IInv
<1>1. Init => IInv
  BY InitIInv
<1>2. IInv /\ [Next]_vars => IInv'
  BY NextIInv
<1> QED
  BY <1>1, <1>2, PTL DEF Spec

(* FanOut's variables keep their types, and the bounds on tasks and edits. *)
THEOREM TypeCorrect == Spec => []TypeOK
  BY Invariance, PTL DEF IInv

(* The tasks below call c that would make its Ok a lie.                    *)
Untrue(c) ==
  {n \in DOMAIN tasks :
     /\ tasks[n].root = c /\ tasks[n].st # "ok"
     /\ ~(/\ call[c].to \in Rooms /\ tasks[n].by = c
          /\ tasks[n].st \in {"unsupported", "unreachable"})}

(* There is no first one, and so there is none: a task the call spawned    *)
(* itself is passed by the answer, and the group's task that spawned any   *)
(* other was before it, and ok.                                            *)
LEMMA NoneIsUntrue ==
  ASSUME IInv, NEW c \in Callers, answer[c] = "ok"
  PROVE  Untrue(c) = {}
<1> SUFFICES ASSUME Untrue(c) # {} PROVE FALSE
  OBVIOUS
<1>1. Untrue(c) \in SUBSET Nat
  BY DEF Untrue, IInv, TypeOK
<1>2. PICK m \in Untrue(c) : \A n \in Untrue(c) : m <= n
  BY <1>1, FirstTask
<1>3. /\ m \in DOMAIN tasks /\ tasks[m].root = c /\ tasks[m].st # "ok" /\ m \in Nat
      /\ ~(/\ call[c].to \in Rooms /\ tasks[m].by = c
           /\ tasks[m].st \in {"unsupported", "unreachable"})
  BY <1>1 DEF Untrue
<1>4. tasks[m].by # c
  <2> SUFFICES ASSUME tasks[m].by = c PROVE FALSE
    OBVIOUS
  <2>1. m \in Kids(c)
    BY <1>3 DEF Kids
  <2>2. Passed(c, m)
    BY <2>1 DEF IInv, AnswersHold
  <2> QED
    BY <1>3, <2>2 DEF Passed
<1>5. SUFFICES ASSUME NEW p, p = tasks[m].by PROVE FALSE
  OBVIOUS
<1>6. /\ p \in DOMAIN tasks /\ p < m /\ p \in Nat
      /\ tasks[p].root = c /\ tasks[p].to \in Groups
      /\ tasks[p].st \notin {"spawned", "unsupported", "unreachable"}
  <2>1. HasParent(m)
    BY <1>3, <1>4 DEF IInv, Lineage
  <2>2. p \in DOMAIN tasks => p \in Nat
    BY DEF IInv, TypeOK
  <2> QED
    BY <1>3, <1>5, <2>1, <2>2 DEF HasParent
<1>7. p \notin Untrue(c)
  <2>1. p \in Untrue(c) => m <= p
    BY <1>2
  <2> QED
    BY <1>3, <1>6, <2>1
<1>8. tasks[p].st = "ok"
  BY <1>6, <1>7 DEF Untrue
<1>9. m \in Kids(p)
  BY <1>3, <1>5 DEF Kids
<1>10. tasks[m].st = "ok"
  BY <1>6, <1>8, <1>9 DEF IInv, Truthful, Meant
<1> QED
  BY <1>3, <1>10

(* A group's or a room's Ok is the truth about every device below it,      *)
(* through groups within groups: each has carried the command out, but for *)
(* the devices of a room itself that were skipped (OkMeansDone).           *)
THEOREM OkIsTrue == Spec => []OkMeansDone
<1>1. IInv => OkMeansDone
  <2> SUFFICES ASSUME IInv, NEW c \in Callers, answer[c] = "ok", NEW n \in DOMAIN tasks,
                      tasks[n].root = c, tasks[n].to \in Devices
               PROVE  \/ n \in done
                      \/ /\ call[c].to \in Rooms /\ tasks[n].by = c
                         /\ tasks[n].st \in {"unsupported", "unreachable"}
    BY DEF OkMeansDone
  <2>1. n \notin Untrue(c)
    BY NoneIsUntrue
  <2>2. tasks[n].st = "ok" => n \in done
    BY DEF IInv, Truthful, Meant
  <2> QED
    BY <2>1, <2>2 DEF Untrue
<1> QED
  BY <1>1, Invariance, PTL

-----------------------------------------------------------------------------
(* StateFlow.                                                              *)

LEMMA StatesTyped ==
  ASSUME StateFlowAssumption, FlowTypeOK
  PROVE  /\ FullState \in States
         /\ OfflineState \in States
         /\ \A f \in Fields : EchoState(f) \in States
  BY DEF FlowTypeOK, FullState, OfflineState, EchoState, States, FieldValues

(* What merge puts into the cache is a state again.                        *)
LEMMA MergeTyped ==
  ASSUME NEW old \in States \cup {Absent}, NEW new \in States
  PROVE  Merge(old, new) \in States
<1>1. CASE old = Absent
  BY <1>1 DEF Merge
<1>2. CASE old # Absent
  <2>1. old \in States
    BY <1>2
  <2>2. [f \in Fields |-> IF f \in Copied(new) THEN new.val[f] ELSE old.val[f]]
          \in [Fields -> FieldValues]
    BY <2>1 DEF States
  <2> QED
    BY <1>2, <2>2 DEF Merge, States
<1> QED
  BY <1>1, <1>2

(* A send keeps the bus within its capacity, dropping the oldest event.    *)
LEMMA PublishBounded ==
  ASSUME StateFlowAssumption, NEW s \in States, Publish(s),
         bus \in Seq(States), Len(bus) <= BusCapacity
  PROVE  bus' \in Seq(States) /\ Len(bus') <= BusCapacity
<1>1. CASE Len(bus) < BusCapacity
  BY <1>1 DEF Publish, StateFlowAssumption
<1>2. CASE ~(Len(bus) < BusCapacity)
  <2>1. bus # <<>>
    BY <1>2 DEF StateFlowAssumption
  <2>2. Tail(bus) \in Seq(States) /\ Len(Tail(bus)) = Len(bus) - 1
    BY <2>1
  <2> QED
    BY <1>2, <2>2 DEF Publish, StateFlowAssumption
<1> QED
  BY <1>1, <1>2

LEMMA FlowInitTyped == StateFlowAssumption /\ FlowInit => FlowTypeOK
  BY DEF StateFlowAssumption, FlowInit, FlowTypeOK

LEMMA FlowNextTyped ==
  ASSUME StateFlowAssumption, FlowTypeOK, [FlowNext]_flowVars
  PROVE  FlowTypeOK'
<1> USE DEF FlowTypeOK
<1>1. ASSUME NEW f \in Fields, DeviceChanges(f)
      PROVE  FlowTypeOK'
  BY <1>1 DEF DeviceChanges, StateFlowAssumption
<1>2. ASSUME NEW p \in Pollers, PollAnswered(p)
      PROVE  FlowTypeOK'
  BY <1>2, StatesTyped DEF PollAnswered, Movers
<1>3. ASSUME NEW p \in Pollers, PollReceived(p)
      PROVE  FlowTypeOK'
  <2>1. got[p] \in States
    BY <1>3 DEF PollReceived, Movers
  <2>2. bus' \in Seq(States) /\ Len(bus') <= BusCapacity
    BY <1>3, <2>1, PublishBounded DEF PollReceived
  <2> QED
    BY <1>3, <2>2 DEF PollReceived, Movers
<1>4. ASSUME NEW p \in Pollers, PollInserts(p)
      PROVE  FlowTypeOK'
  BY <1>4 DEF PollInserts, Movers
<1>5. ASSUME NEW p \in Pollers, PollLost(p)
      PROVE  FlowTypeOK'
  BY <1>5, StatesTyped DEF PollLost, Movers, StateFlowAssumption
<1>6. ASSUME NEW c \in Commanders, NEW f \in Fields, CommandApplied(c, f)
      PROVE  FlowTypeOK'
  BY <1>6, StatesTyped DEF CommandApplied, Movers, StateFlowAssumption
<1>7. ASSUME NEW c \in Commanders, EchoReceived(c)
      PROVE  FlowTypeOK'
  <2>1. got[c] \in States
    BY <1>7 DEF EchoReceived, Movers
  <2>2. bus' \in Seq(States) /\ Len(bus') <= BusCapacity
    BY <1>7, <2>1, PublishBounded DEF EchoReceived
  <2> QED
    BY <1>7, <2>2 DEF EchoReceived, Movers
<1>8. ASSUME NEW c \in Commanders, EchoLost(c)
      PROVE  FlowTypeOK'
  BY <1>8 DEF EchoLost, Movers
<1>9. CASE PersistEvent
  <2>1. Head(bus) \in States /\ Tail(bus) \in Seq(States) /\ Len(Tail(bus)) <= Len(bus)
    BY <1>9 DEF PersistEvent
  <2>2. Merge(cache, Head(bus)) \in States
    BY <2>1, MergeTyped
  <2> QED
    BY <1>9, <2>1, <2>2 DEF PersistEvent, StateFlowAssumption
<1>10. CASE Restart
  BY <1>10 DEF Restart, StateFlowAssumption
<1>11. CASE UNCHANGED flowVars
  BY <1>11 DEF flowVars
<1> QED
  BY <1>1, <1>2, <1>3, <1>4, <1>5, <1>6, <1>7, <1>8, <1>9, <1>10, <1>11
  DEF FlowNext, Poll

(* Type correctness: states stay well formed, whoever writes the cache,    *)
(* and the bus keeps within its capacity (bus.rs:4).                       *)
THEOREM FlowTypeCorrect == ASSUME StateFlowAssumption PROVE FlowSpec => []FlowTypeOK
<1>1. FlowInit => FlowTypeOK
  BY FlowInitTyped
<1>2. FlowTypeOK /\ [FlowNext]_flowVars => FlowTypeOK'
  BY FlowNextTyped
<1> QED
  BY <1>1, <1>2, PTL DEF FlowSpec

(* Merging an event into a cached state forgets no field, if the device    *)
(* has one switch at most.                                                 *)
LEMMA MergeKeepsKnown ==
  ASSUME StateFlowAssumption,
         \A f, g \in Fields \cap Switches : f = g,
         NEW old \in States \cup {Absent}, NEW new \in States
  PROVE  Known(old) \subseteq Known(Merge(old, new))
<1>1. CASE old = Absent
  BY <1>1 DEF Known
<1>2. CASE old # Absent
  <2> SUFFICES ASSUME NEW f \in Fields, old.val[f] # Unknown
               PROVE  Merge(old, new).val[f] # Unknown
    BY <1>2, MergeTyped DEF Known, StateFlowAssumption
  <2>1. f \in Copied(new) => new.val[f] # Unknown
    BY DEF Copied, Known
  <2>2. Merge(old, new).val[f] = IF f \in Copied(new) THEN new.val[f] ELSE old.val[f]
    BY <1>2 DEF Merge
  <2> QED
    BY <2>1, <2>2
<1> QED
  BY <1>1, <1>2

(* EchoKeepsKnown, for a device with one switch at most.  The step that    *)
(* takes an event off the bus and ends no poll can only be the persist     *)
(* task's, whose merge keeps what is known (cache/mod.rs:22-25).           *)
THEOREM EchoesKeepKnown ==
  ASSUME StateFlowAssumption, \A f, g \in Fields \cap Switches : f = g
  PROVE  FlowSpec => EchoKeepsKnown
<1>1. ASSUME FlowTypeOK, FlowNext, bus # <<>>, bus' = Tail(bus), UNCHANGED <<stage, restarts>>
      PROVE  Known(cache) \subseteq Known(cache')
  <2>1. bus' # bus
    BY <1>1 DEF FlowTypeOK
  <2>2. PersistEvent
    <3>1. \A p \in Pollers : ~PollReceived(p)
      BY <1>1 DEF PollReceived, FlowTypeOK, Movers
    <3>2. \A c \in Commanders : ~EchoReceived(c)
      BY <1>1 DEF EchoReceived, FlowTypeOK, Movers
    <3>3. ~Restart
      BY <1>1 DEF Restart, FlowTypeOK
    <3> QED
      BY <1>1, <2>1, <3>1, <3>2, <3>3
      DEF FlowNext, Poll, DeviceChanges, PollAnswered, PollInserts, PollLost,
          CommandApplied, EchoLost
  <2>3. cache \in States \cup {Absent} /\ Head(bus) \in States
    BY <1>1 DEF FlowTypeOK
  <2> QED
    BY <2>2, <2>3, MergeKeepsKnown DEF PersistEvent
<1>2. FlowTypeOK /\ [FlowNext]_flowVars =>
        [bus # <<>> /\ bus' = Tail(bus) /\ UNCHANGED <<stage, restarts>>
           => Known(cache) \subseteq Known(cache')]_flowVars
  BY <1>1
<1> QED
  BY <1>2, FlowTypeCorrect, PTL DEF FlowSpec, EchoKeepsKnown

-----------------------------------------------------------------------------
(* The conversions of a command.                                           *)

CONSTANTS DtoError, Unsupported
Dto == INSTANCE CommandDto
BondFan == INSTANCE Bond

(* Commands, with fields from any set of values.                           *)
RawCommands(V) ==
  [kind : {"SetDpBool", "SetDpInt", "SetDpStr"}, dp : V, value : V]
LightCommands(V) ==
  [kind : {"SetLight"}, power : V \cup {None}, brightness : V \cup {None},
   color_temp : V \cup {None}, rgb : (V \X V \X V) \cup {None}, mode : V \cup {None}]

(* A command that is written as a DTO and read again is the same command,  *)
(* whatever its values, if None is not one of them: a light's colour is    *)
(* its three bytes or none, and a raw data point keeps its type            *)
(* (rest/dto.rs's device_command_to_dto and TryFrom).                      *)
THEOREM CommandsSurviveDto ==
  ASSUME NEW V, None \notin V, None \notin V \X V \X V,
         NEW cmd \in RawCommands(V) \cup LightCommands(V)
  PROVE  Dto!FromDto(Dto!ToDto(cmd)) = cmd
<1>1. CASE cmd \in RawCommands(V)
  <2>1. PICK dto : dto = Dto!ToDto(cmd)
    OBVIOUS
  <2>2. /\ cmd = [kind |-> cmd.kind, dp |-> cmd.dp, value |-> cmd.value]
        /\ cmd.kind \in {"SetDpBool", "SetDpInt", "SetDpStr"} /\ cmd.value # None
    BY <1>1 DEF RawCommands
  <2>3. CASE cmd.kind = "SetDpBool"
    <3>1. dto = [kind |-> "SetDp", dp |-> cmd.dp, bool_val |-> cmd.value,
                 int_val |-> None, str_val |-> None]
      BY <2>1, <2>3 DEF Dto!ToDto, Dto!RawDp
    <3>2. Dto!FromDto(dto) = [kind |-> "SetDpBool", dp |-> cmd.dp, value |-> cmd.value]
      BY <2>2, <3>1 DEF Dto!FromDto
    <3> QED
      BY <2>1, <2>2, <2>3, <3>2
  <2>4. CASE cmd.kind = "SetDpInt"
    <3>1. dto = [kind |-> "SetDp", dp |-> cmd.dp, bool_val |-> None,
                 int_val |-> cmd.value, str_val |-> None]
      BY <2>1, <2>4 DEF Dto!ToDto, Dto!RawDp
    <3>2. Dto!FromDto(dto) = [kind |-> "SetDpInt", dp |-> cmd.dp, value |-> cmd.value]
      BY <2>2, <3>1 DEF Dto!FromDto
    <3> QED
      BY <2>1, <2>2, <2>4, <3>2
  <2>5. CASE cmd.kind = "SetDpStr"
    <3>1. dto = [kind |-> "SetDp", dp |-> cmd.dp, bool_val |-> None,
                 int_val |-> None, str_val |-> cmd.value]
      BY <2>1, <2>5 DEF Dto!ToDto, Dto!RawDp
    <3>2. Dto!FromDto(dto) = [kind |-> "SetDpStr", dp |-> cmd.dp, value |-> cmd.value]
      BY <2>2, <3>1 DEF Dto!FromDto
    <3> QED
      BY <2>1, <2>2, <2>5, <3>2
  <2> QED
    BY <2>2, <2>3, <2>4, <2>5
<1>2. CASE cmd \in LightCommands(V)
  <2>1. PICK dto : dto = Dto!ToDto(cmd)
    OBVIOUS
  <2>2. /\ cmd = [kind |-> "SetLight", power |-> cmd.power, brightness |-> cmd.brightness,
                  color_temp |-> cmd.color_temp, rgb |-> cmd.rgb, mode |-> cmd.mode]
        /\ cmd.kind = "SetLight" /\ cmd.rgb \in (V \X V \X V) \cup {None}
    BY <1>2 DEF LightCommands
  <2>3. dto = [kind |-> "SetLight", power |-> cmd.power, brightness |-> cmd.brightness,
               color_temp |-> cmd.color_temp, mode |-> cmd.mode,
               r |-> Dto!Byte(cmd.rgb, 1), g |-> Dto!Byte(cmd.rgb, 2),
               b |-> Dto!Byte(cmd.rgb, 3)]
    BY <2>1, <2>2 DEF Dto!ToDto
  <2>4. (IF None \in {dto.r, dto.g, dto.b} THEN None ELSE <<dto.r, dto.g, dto.b>>) = cmd.rgb
    <3>1. CASE cmd.rgb = None
      BY <2>3, <3>1 DEF Dto!Byte
    <3>2. CASE cmd.rgb \in V \X V \X V
      <4>1. PICK r \in V, g \in V, b \in V : cmd.rgb = <<r, g, b>>
        BY <3>2
      <4>2. dto.r = r /\ dto.g = g /\ dto.b = b
        BY <2>3, <3>2, <4>1 DEF Dto!Byte
      <4> QED
        BY <4>1, <4>2
    <3> QED
      BY <2>2, <3>1, <3>2
  <2>5. Dto!FromDto(dto) =
          [kind |-> "SetLight", power |-> dto.power, brightness |-> dto.brightness,
           color_temp |-> dto.color_temp, mode |-> dto.mode,
           rgb |-> IF None \in {dto.r, dto.g, dto.b} THEN None
                   ELSE <<dto.r, dto.g, dto.b>>]
    BY <2>3 DEF Dto!FromDto
  <2> QED
    BY <2>1, <2>2, <2>3, <2>4, <2>5
<1> QED
  BY <1>1, <1>2

(* The fan of a bridge: its motor, its speed and its light.                *)
Fans == [power : 0..1, light : 0..1, speed : Nat]

FanCommands ==
  [kind : {"SetPower"}, on : BOOLEAN]
  \cup [kind : {"SetFanSpeed"}, speed : {"Off", "Low", "Medium", "High"}]

(* Of 3 to 127 speeds the three steps are read back as they were set.      *)
LEMMA SpeedReadsBack ==
  ASSUME NEW n \in 3..127, NEW s \in {"Low", "Medium", "High"}
  PROVE  BondFan!SpeedFromBond(BondFan!SpeedToBond(s, n), n) = s
<1>1. BondFan!BondMaxSpeed(n) = n
  BY DEF BondFan!BondMaxSpeed
<1>2. CASE s = "Low"
  <2>1. BondFan!SpeedToBond(s, n) = 1
    BY <1>2 DEF BondFan!SpeedToBond
  <2> QED
    BY <1>1, <1>2, <2>1 DEF BondFan!SpeedFromBond
<1>3. CASE s = "Medium"
  <2>1. BondFan!SpeedToBond(s, n) = (n + 1) \div 2
    BY <1>1, <1>3 DEF BondFan!SpeedToBond
  <2>2. (n + 1) \div 2 # 0 /\ (n + 1) \div 2 > n \div 3 /\ (n + 1) \div 2 <= (n * 2) \div 3
    OBVIOUS
  <2>3. PICK k \in Int : k = (n + 1) \div 2
    OBVIOUS
  <2> QED
    BY <1>1, <1>3, <2>1, <2>2, <2>3 DEF BondFan!SpeedFromBond
<1>4. CASE s = "High"
  <2>1. BondFan!SpeedToBond(s, n) = n
    BY <1>1, <1>4 DEF BondFan!SpeedToBond
  <2>2. n > n \div 3 /\ n > (n * 2) \div 3
    OBVIOUS
  <2> QED
    BY <1>1, <1>4, <2>1, <2>2 DEF BondFan!SpeedFromBond
<1> QED
  BY <1>2, <1>3, <1>4

(* The poll after a command shows what it set, and a fan with a light      *)
(* keeps the half the command is not about, for every number of speeds     *)
(* from 3 to where the bridge's u8 arithmetic would wrap.                  *)
THEOREM BondReadsBack ==
  ASSUME NEW n \in 3..127, NEW capabilities, "Fan" \in capabilities,
         NEW fan \in Fans, NEW cmd,
         None \notin BOOLEAN,
         \/ cmd \in FanCommands
         \/ "Light" \in capabilities /\ cmd.kind = "SetLight" /\ cmd.power \in BOOLEAN
  PROVE  BondFan!BondShows(capabilities, n, fan, cmd)
<1>1. PICK before : before = BondFan!BondPoll(capabilities, n, fan)
  OBVIOUS
<1>2. PICK next : next = BondFan!BridgeAfter(fan, BondFan!BondActionOf(n, cmd))
  OBVIOUS
<1>3. PICK after : after = BondFan!BondPoll(capabilities, n, next)
  OBVIOUS
<1>4. BondFan!BondReadBack(capabilities, n, fan, cmd) = after
  BY <1>2, <1>3 DEF BondFan!BondReadBack
<1>5. /\ before.power = IF "Light" \in capabilities THEN fan.light # 0 ELSE fan.power # 0
      /\ before.fan_speed = IF fan.power = 0 THEN "Off" ELSE BondFan!SpeedFromBond(fan.speed, n)
      /\ after.power = IF "Light" \in capabilities THEN next.light # 0 ELSE next.power # 0
      /\ after.fan_speed = IF next.power = 0 THEN "Off" ELSE BondFan!SpeedFromBond(next.speed, n)
  BY <1>1, <1>3 DEF BondFan!BondPoll
<1>6. CASE cmd \in [kind : {"SetPower"}, on : BOOLEAN]
  <2>1. next.power = IF cmd.on THEN 1 ELSE 0
    <3>1. CASE cmd.on
      <4>1. BondFan!BondActionOf(n, cmd) = [name |-> "TurnOn", argument |-> None]
        BY <1>6, <3>1 DEF BondFan!BondActionOf, BondFan!BondAction
      <4> QED
        BY <1>2, <3>1, <4>1 DEF BondFan!BridgeAfter, Fans
    <3>2. CASE ~cmd.on
      <4>1. BondFan!BondActionOf(n, cmd) = [name |-> "TurnOff", argument |-> None]
        BY <1>6, <3>2 DEF BondFan!BondActionOf, BondFan!BondAction
      <4> QED
        BY <1>2, <3>2, <4>1 DEF BondFan!BridgeAfter, Fans
    <3> QED
      BY <3>1, <3>2
  <2>2. cmd.kind = "SetPower" /\ cmd.on \in BOOLEAN
    BY <1>6
  <2>3. "Light" \notin capabilities => after.power = cmd.on
    BY <1>5, <2>1, <2>2
  <2> QED
    BY <1>4, <2>2, <2>3 DEF BondFan!BondShows
<1>7. CASE cmd \in [kind : {"SetFanSpeed"}, speed : {"Off", "Low", "Medium", "High"}]
  <2>1. cmd.kind = "SetFanSpeed" /\ cmd.speed \in {"Off", "Low", "Medium", "High"}
    BY <1>7
  <2>2. /\ next.light = fan.light
        /\ after.fan_speed = cmd.speed
    <3>1. CASE cmd.speed = "Off"
      <4>1. BondFan!BondActionOf(n, cmd) = [name |-> "TurnOff", argument |-> None]
        BY <2>1, <3>1 DEF BondFan!BondActionOf, BondFan!BondAction
      <4>2. next = [fan EXCEPT !.power = 0]
        BY <1>2, <4>1 DEF BondFan!BridgeAfter
      <4> QED
        BY <1>5, <3>1, <4>2 DEF Fans
    <3>2. CASE cmd.speed # "Off"
      <4>1. PICK s : s = BondFan!SpeedToBond(cmd.speed, n)
        OBVIOUS
      <4>2. BondFan!BondActionOf(n, cmd) = [name |-> "SetSpeed", argument |-> s]
        BY <2>1, <3>2, <4>1 DEF BondFan!BondActionOf, BondFan!BondAction
      <4>3. next = [fan EXCEPT !.power = 1, !.speed = s]
        BY <1>2, <4>2 DEF BondFan!BridgeAfter
      <4>4. next.power = 1 /\ next.speed = s /\ next.light = fan.light
        BY <4>3 DEF Fans
      <4>5. BondFan!SpeedFromBond(s, n) = cmd.speed
        BY <2>1, <3>2, <4>1, SpeedReadsBack
      <4> QED
        BY <1>5, <4>4, <4>5
    <3> QED
      BY <3>1, <3>2
  <2>3. "Light" \in capabilities => after.power = before.power
    BY <1>5, <2>2
  <2> QED
    BY <1>1, <1>4, <2>1, <2>2, <2>3 DEF BondFan!BondShows
<1>8. CASE "Light" \in capabilities /\ cmd.kind = "SetLight" /\ cmd.power \in BOOLEAN
  <2>1. next = [fan EXCEPT !.light = IF cmd.power THEN 1 ELSE 0]
    <3>1. cmd.power # None
      BY <1>8
    <3>2. CASE cmd.power
      <4>1. BondFan!BondActionOf(n, cmd) = [name |-> "TurnLightOn", argument |-> None]
        BY <1>8, <3>1, <3>2 DEF BondFan!BondActionOf, BondFan!BondAction
      <4> QED
        BY <1>2, <3>2, <4>1 DEF BondFan!BridgeAfter
    <3>3. CASE ~cmd.power
      <4>1. BondFan!BondActionOf(n, cmd) = [name |-> "TurnLightOff", argument |-> None]
        BY <1>8, <3>1, <3>3 DEF BondFan!BondActionOf, BondFan!BondAction
      <4> QED
        BY <1>2, <3>3, <4>1 DEF BondFan!BridgeAfter
    <3> QED
      BY <3>2, <3>3
  <2>2. next.light = (IF cmd.power THEN 1 ELSE 0) /\ next.power = fan.power /\ next.speed = fan.speed
    BY <2>1 DEF Fans
  <2>3. after.power = cmd.power /\ after.fan_speed = before.fan_speed
    BY <1>5, <1>8, <2>2
  <2> QED
    BY <1>1, <1>4, <1>8, <2>3 DEF BondFan!BondShows
<1> QED
  BY <1>6, <1>7, <1>8 DEF FanCommands
==============================================================================
