-------------------------------- MODULE FanOut --------------------------------
(***************************************************************************)
(* Commands to groups and rooms (synaptex-core/group/mod.rs, room.rs and   *)
(* the handlers in rest/handlers/groups.rs, rooms.rs).  One task per       *)
(* member is spawned, each with five seconds for its member's plugin, and  *)
(* the call awaits them one after the other.  A member of a group may be a *)
(* group, whose plugin spawns tasks in its turn.                           *)
(*                                                                         *)
(* The tasks are detached: a handle that is dropped, by a caller that goes *)
(* away or by the time-out of a group's task, leaves its task running.  A  *)
(* time-out itself drops the plugin's call in the middle, and what the     *)
(* call has sent may still arrive.                                         *)
(*                                                                         *)
(* A plugin's Ok is taken at its word here; TuyaSession and MysaSession    *)
(* have what it is worth.  Registering and unregistering are one step      *)
(* each; DeviceStore has the writes they are made of.                      *)
(***************************************************************************)
EXTENDS Integers, FiniteSets, Sequences

CONSTANTS
  Devices, Groups, Rooms,
  Callers,      \* REST calls to a group's or a room's command
  Values,       \* what a command sets
  Lists,        \* bound: the lists a request may name for a group or a room
  Supporting,   \* devices whose plugin knows the command
  Cloudy,       \* devices whose plugin reports failures as Unreachable
  None,         \* absent
  MaxTasks,     \* bound: tasks in all
  MaxEdits      \* bound: changes of rooms, groups and devices

Targets == Devices \cup Groups
TaskIds == 1..MaxTasks

(* A command in progress or over.                                          *)
Calls == [to : Groups \cup Rooms, st : {"waiting", "over"}]

ASSUME FanOutAssumption ==
  /\ Devices \cap Groups = {} /\ Rooms \cap Targets = {} /\ Callers \cap Int = {}
  /\ None \notin Calls /\ None \notin {"ok", "err", "gone"}
  /\ Supporting \subseteq Devices /\ Cloudy \subseteq Devices
  /\ \A x \in Groups \cup Rooms : Lists[x] \subseteq Seq(Targets)
  /\ MaxTasks \in Nat /\ MaxEdits \in Nat

VARIABLES
  there,    \* devices and groups that are stored and registered
  members,  \* per group: member_ids of its plugin
  rooms,    \* per room: the stored device_ids, or None
  call,     \* per caller: what it commands, or None before and Gone after
  answer,   \* per caller: what it was told
  tasks,    \* the member tasks in the order they were spawned
  afloat,   \* tasks dropped by a time-out whose command is still under way
  done,     \* tasks whose device has carried the command out
  shows,    \* per device: what it was last set to
  edits     \* changes so far

stores == <<there, members, rooms>>
calls == <<call, answer>>
vars == <<stores, calls, tasks, afloat, done, shows, edits>>

Results == {"ok", "unsupported", "unreachable", "error", "timeout"}

Tasks == [by : Callers \cup TaskIds, root : Callers, to : Targets, val : Values,
          st : Results \cup {"spawned", "running", "aborted"}]

TypeOK ==
  /\ there \subseteq Targets
  /\ members \in [Groups -> Seq(Targets)]
  /\ rooms \in [Rooms -> Seq(Targets) \cup {None}]
  /\ call \in [Callers -> Calls \cup {None}]
  /\ answer \in [Callers -> {None, "ok", "err", "gone"}]
  /\ tasks \in Seq(Tasks) /\ Len(tasks) <= MaxTasks
  /\ afloat \subseteq DOMAIN tasks /\ done \subseteq DOMAIN tasks
  /\ shows \in [Devices -> Values \cup {None}]
  /\ edits \in 0..MaxEdits

(* Devices are registered; groups and rooms start as any list allows.      *)
Init ==
  /\ there = Targets
  /\ members \in {f \in [Groups -> UNION {Lists[g] : g \in Groups}] :
                    \A g \in Groups : f[g] \in Lists[g]}
  /\ rooms \in {f \in [Rooms -> UNION {Lists[r] : r \in Rooms}] :
                  \A r \in Rooms : f[r] \in Lists[r]}
  /\ call = [c \in Callers |-> None] /\ answer = [c \in Callers |-> None]
  /\ tasks = <<>> /\ afloat = {} /\ done = {}
  /\ shows = [d \in Devices |-> None]
  /\ edits = 0

-----------------------------------------------------------------------------
(* Spawning.                                                               *)

Kids(x) == {n \in DOMAIN tasks : tasks[n].by = x}

(* One task for each entry of the list, in its order, duplicates included. *)
Spawned(x, c, v, list) ==
  [k \in 1..Len(list) |->
     [by |-> x, root |-> c, to |-> list[k], val |-> v, st |-> "spawned"]]

(* The call's list: a group's plugin has its own, a room's is in the db.   *)
ListOf(x) == IF x \in Groups THEN members[x] ELSE rooms[x]

(* execute_command of a group or of a room: the member tasks are spawned.  *)
Command(c, x, v) ==
  /\ call[c] = None
  /\ IF x \in Groups THEN x \in there ELSE rooms[x] # None
  /\ Len(tasks) + Len(ListOf(x)) <= MaxTasks
  /\ call' = [call EXCEPT ![c] = [to |-> x, st |-> "waiting"]]
  /\ tasks' = tasks \o Spawned(c, c, v, ListOf(x))
  /\ UNCHANGED <<stores, answer, afloat, done, shows, edits>>

(* No plugin, or no room of that id.                                       *)
CommandFails(c, x) ==
  /\ call[c] = None
  /\ IF x \in Groups THEN x \notin there ELSE rooms[x] = None
  /\ call' = [call EXCEPT ![c] = [to |-> x, st |-> "over"]]
  /\ answer' = [answer EXCEPT ![c] = "err"]
  /\ UNCHANGED <<stores, tasks, afloat, done, shows, edits>>

(* A task is polled first: registry.execute_command looks its member up.   *)
Begin(n) ==
  LET t == tasks[n]
      reached == [tasks EXCEPT ![n].st = "running"]
  IN
  /\ t.st = "spawned"
  /\ IF t.to \notin there
     THEN tasks' = [tasks EXCEPT ![n].st = "unreachable"]
     ELSE IF t.to \in Devices
     THEN tasks' = reached
     ELSE /\ Len(tasks) + Len(members[t.to]) <= MaxTasks
          /\ tasks' = reached \o Spawned(n, t.root, t.val, members[t.to])
  /\ UNCHANGED <<stores, calls, afloat, done, shows, edits>>

-----------------------------------------------------------------------------
(* What becomes of a task.                                                 *)

(* The device does what it is told, in time or after a time-out.           *)
CarryOut(n) ==
  LET t == tasks[n] IN
  /\ t.to \in Supporting /\ n \notin done
  /\ t.st = "running" \/ n \in afloat
  /\ shows' = [shows EXCEPT ![t.to] = t.val]
  /\ done' = done \cup {n} /\ afloat' = afloat \ {n}
  /\ UNCHANGED <<stores, calls, tasks, edits>>

(* What a device's plugin may report.                                      *)
Reports(n) ==
  IF tasks[n].to \notin Supporting THEN {"unsupported"}
  ELSE (IF n \in done THEN {"ok"} ELSE {}) \cup
       {IF tasks[n].to \in Cloudy THEN "unreachable" ELSE "error"}

PluginReturns(n) ==
  /\ tasks[n].st = "running" /\ tasks[n].to \in Devices
  /\ \E r \in Reports(n) : tasks' = [tasks EXCEPT ![n].st = r]
  /\ UNCHANGED <<stores, calls, afloat, done, shows, edits>>

(* Mutant of GroupErrors: members that did not answer in time are passed   *)
(* over.                                                                   *)
GroupErrorsInTime(x) == {n \in Kids(x) : tasks[n].st \notin {"ok", "timeout"}}

(* A group's errors: every member that did not answer Ok.                  *)
GroupErrors(x) == {n \in Kids(x) : tasks[n].st # "ok"}

(* A room's: unsupported commands and unreachable devices are skipped.     *)
RoomErrors(x) == {n \in Kids(x) : tasks[n].st \notin {"ok", "unsupported", "unreachable"}}

Collected(x) == \A n \in Kids(x) : tasks[n].st \in Results

(* The handles of a group within a group have all been awaited.            *)
GroupReturns(n) ==
  /\ tasks[n].st = "running" /\ tasks[n].to \in Groups /\ Collected(n)
  /\ tasks' = [tasks EXCEPT ![n].st = IF GroupErrors(n) = {} THEN "ok" ELSE "error"]
  /\ UNCHANGED <<stores, calls, afloat, done, shows, edits>>

(* Mutant of InTime: a member's plugin is waited for.                      *)
InTimeAlways(n) == TRUE

(* A member's five seconds have not passed; they may at any time.          *)
InTime(n) == FALSE

(* The plugin's call is dropped, with what it has sent under way or not;   *)
(* the tasks that a group's plugin has spawned go on.                      *)
TimeOut(n) ==
  /\ tasks[n].st = "running" /\ ~InTime(n)
  /\ tasks' = [tasks EXCEPT ![n].st = "timeout"]
  /\ afloat' \in {afloat} \cup (IF n \in done THEN {} ELSE {afloat \cup {n}})
  /\ UNCHANGED <<stores, calls, done, shows, edits>>

(* All handles have been awaited and the call is answered.                 *)
Answer(c) ==
  LET errors == IF call[c].to \in Groups THEN GroupErrors(c) ELSE RoomErrors(c) IN
  /\ call[c] # None /\ call[c].st = "waiting" /\ Collected(c)
  /\ call' = [call EXCEPT ![c].st = "over"]
  /\ answer' = [answer EXCEPT ![c] = IF errors = {} THEN "ok" ELSE "err"]
  /\ UNCHANGED <<stores, tasks, afloat, done, shows, edits>>

(* Mutant of LeftRunning: tasks end with their handles.                    *)
Aborted(ns) ==
  tasks' = [n \in DOMAIN tasks |->
    IF n \in ns /\ tasks[n].st \notin Results THEN [tasks[n] EXCEPT !.st = "aborted"]
    ELSE tasks[n]]

(* Dropping a JoinHandle detaches its task.                                *)
LeftRunning(ns) == UNCHANGED tasks

(* The HTTP client goes away and the handler's future is dropped.          *)
CallerGone(c) ==
  /\ call[c] # None /\ call[c].st = "waiting"
  /\ call' = [call EXCEPT ![c].st = "over"]
  /\ answer' = [answer EXCEPT ![c] = "gone"]
  /\ LeftRunning(Kids(c))
  /\ UNCHANGED <<stores, afloat, done, shows, edits>>

-----------------------------------------------------------------------------
(* The handlers that change rooms, groups and devices.                     *)

Edit == edits < MaxEdits /\ edits' = edits + 1
        /\ UNCHANGED <<calls, tasks, afloat, done, shows>>

Stored(list) == \A k \in DOMAIN list : list[k] \in there

(* create_room and patch_room: every device exists; a 404 changes nothing. *)
SaveRoom(r, list) ==
  /\ Stored(list) /\ rooms' = [rooms EXCEPT ![r] = list]
  /\ Edit /\ UNCHANGED <<there, members>>

DeleteRoom(r) ==
  /\ rooms[r] # None /\ rooms' = [rooms EXCEPT ![r] = None]
  /\ Edit /\ UNCHANGED <<there, members>>

(* deregister waits for the calls that hold the entry.                     *)
Unused(x) ==
  /\ \A n \in DOMAIN tasks : tasks[n].to = x => tasks[n].st # "running"
  /\ \A c \in Callers : call[c] # [to |-> x, st |-> "waiting"]

(* create_group of an id of its own, and patch_group with the members it   *)
(* names, itself included: the plugin is replaced.                         *)
SaveGroup(g, list) ==
  /\ Stored(list) /\ Unused(g) /\ (g \notin there => list # <<>>)
  /\ members' = [members EXCEPT ![g] = list] /\ there' = there \cup {g}
  /\ Edit /\ UNCHANGED rooms

(* unregister_device and delete_group: rooms and groups keep the id.       *)
Unregister(x) ==
  /\ x \in there /\ Unused(x) /\ there' = there \ {x}
  /\ Edit /\ UNCHANGED <<members, rooms>>

-----------------------------------------------------------------------------
Member(n) ==
  Begin(n) \/ CarryOut(n) \/ PluginReturns(n) \/ GroupReturns(n) \/ TimeOut(n)

Caller(c) ==
  \/ \E x \in Groups \cup Rooms :
       CommandFails(c, x) \/ \E v \in Values : Command(c, x, v)
  \/ Answer(c)
  \/ CallerGone(c)

Editor ==
  \/ \E r \in Rooms : DeleteRoom(r) \/ \E list \in Lists[r] : SaveRoom(r, list)
  \/ \E g \in Groups, list \in UNION {Lists[h] : h \in Groups} :
       list \in Lists[g] /\ SaveGroup(g, list)
  \/ \E x \in Targets : Unregister(x)

Next ==
  \/ \E n \in DOMAIN tasks : Member(n)
  \/ \E c \in Callers : Caller(c)
  \/ Editor

Spec == Init /\ [][Next]_vars

(* The runtime runs the tasks that can run and the timers fire; neither a  *)
(* device nor its plugin need ever answer.                                 *)
FairSpec ==
  /\ Spec
  /\ \A n \in TaskIds :
       WF_vars(n \in DOMAIN tasks /\ (Begin(n) \/ GroupReturns(n) \/ TimeOut(n)))
  /\ \A c \in Callers : WF_vars(Answer(c))

-----------------------------------------------------------------------------
(* What a fan-out promises.                                                *)

(* An Ok is the truth about every device below: a group's means that each  *)
(* of them, through groups within groups, has carried the command out; a   *)
(* room's excepts its own devices that were skipped.                       *)
OkMeansDone ==
  \A c \in Callers : answer[c] = "ok" =>
    \A n \in DOMAIN tasks : tasks[n].root = c /\ tasks[n].to \in Devices =>
      \/ n \in done
      \/ /\ call[c].to \in Rooms /\ tasks[n].by = c
         /\ tasks[n].st \in {"unsupported", "unreachable"}

(* Every member is tried: once the tasks are spawned each gets to its      *)
(* member, whatever becomes of the caller, of the other members and of the *)
(* group in between.                                                       *)
EveryMemberTried ==
  \A n \in TaskIds :
    (n \in DOMAIN tasks /\ tasks[n].st = "spawned")
      ~> (n \in DOMAIN tasks /\ tasks[n].st \in Results)

(* A call that waits is answered, even if no device ever answers.          *)
CallsEnd ==
  \A c \in Callers : (call[c] # None /\ call[c].st = "waiting") ~> answer[c] # None

(* Checked by hand, and violated: a device that is registered and knows    *)
(* the command is skipped when its plugin reports a failure as Unreachable.*)
RoomOkIsDone ==
  \A c \in Callers : answer[c] = "ok" =>
    \A n \in Kids(c) : n \in done \/ tasks[n].to \notin there \cap Supporting

(* Checked by hand, and violated: what was reported as timed out is done   *)
(* later, over a newer command.                                            *)
TimedOutIsUndone ==
  [][\A n \in DOMAIN tasks : tasks[n].st = "timeout" => (n \in done' <=> n \in done)]_vars

(* Checked by hand, and violated: two commands to a group leave its        *)
(* members apart.                                                          *)
MembersAgree ==
  (\A c \in Callers : answer[c] = "ok") =>
    \A m, n \in done : shows[tasks[m].to] = shows[tasks[n].to]

(* Checked by hand, and violated for a group that is a member of itself:   *)
(* its tasks spawn tasks for ever.                                         *)
FanOutIsFinite == Len(tasks) < MaxTasks
=============================================================================
