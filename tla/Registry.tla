------------------------------ MODULE Registry ------------------------------
(***************************************************************************)
(* The plugin registry of synaptex-core: PluginRegistry with its poll      *)
(* supervisors, the state cache they fill and the persist task that merges *)
(* bus events into that cache (plugin/registry.rs, cache/mod.rs, bus.rs).  *)
(*                                                                         *)
(* Only the lifecycle is modelled here: a cached state is represented by   *)
(* the plugin instance that produced it.  What the fields of a state look  *)
(* like, and how they are merged and persisted, is module StateFlow.       *)
(*                                                                         *)
(* entries is a DashMap, a table of shards with a reader-writer lock each. *)
(* execute_command and poll_device keep the read guard of their shard      *)
(* across the plugin's await; register and deregister take the write lock, *)
(* which blocks the worker thread they run on (there is no await in it).   *)
(* A tokio task occupies one of the Workers threads from the moment it is  *)
(* resumed to its next await.                                              *)
(***************************************************************************)
EXTENDS Naturals, Sequences, FiniteSets

CONSTANTS
  Devices,       \* device ids
  Requests,      \* tasks that call the registry: REST handlers, syncs, routines
  OpsOf,         \* OpsOf[r]: the operations task r may perform
  Shards,        \* shards of the entries table
  ShardOf,       \* ShardOf[d]: the shard device d hashes to
  NoPlugin,      \* no plugin instance, no cached state
  Workers,       \* worker threads of the runtime
  BusCapacity,   \* capacity of the broadcast bus (256 in the code)
  MaxInstances,  \* bound: plugin instances built for one device
  MaxRequests    \* bound: requests ever started

(***************************************************************************)
(* What a caller does with the registry.                                   *)
(*   command, poll   execute_command, poll_device                          *)
(*   unregister      deregister (unregister_device, delete_group)          *)
(*   patch           deregister then register a rebuilt plugin             *)
(*                   (patch_device, patch_group, import_cloud_devices)     *)
(*   add             register at once (main, register_device, create_group)*)
(*   sync            register unless is_registered (the Bond, Mysa syncs)  *)
(***************************************************************************)
Calls == {"command", "poll"}
OpNames == Calls \cup {"unregister", "patch", "add", "sync"}

Instances == Devices \X (1..MaxInstances)
DeviceOf(i) == i[1]

ASSUME RegistryAssumption ==
  /\ Devices # {}
  /\ OpsOf \in [Requests -> SUBSET OpNames]
  /\ ShardOf \in [Devices -> Shards]
  /\ NoPlugin \notin Instances
  /\ Workers \in Nat \ {0}
  /\ BusCapacity \in Nat \ {0}
  /\ MaxRequests \in Nat
  /\ MaxInstances \in Nat \ {0}

VARIABLES
  entries,     \* entries[d]: the registered plugin instance
  supervisor,  \* supervisor[i]: the poll task spawned for instance i
  detached,    \* history: instances whose entry another registration replaced
  cache,       \* cache[d]: the instance whose state is cached
  bus,         \* events the persist task has not received yet
  made,        \* made[d]: instances of d built so far
  pc, op, dev, plug,  \* per task: where it is, what it does, to which device,
                      \* with which instance
  started      \* requests started so far

reqVars == <<pc, op, dev, plug, started>>
vars == <<entries, supervisor, detached, cache, bus, made, reqVars>>

SupervisorStates ==
  {"none", "sleeping", "polling", "holding", "aborting", "dead", "panicked"}
Stages == {"idle", "awaiting", "store", "deregister", "evict", "spawn", "link"}

TypeOK ==
  /\ entries \in [Devices -> Instances \cup {NoPlugin}]
  /\ supervisor \in [Instances -> SupervisorStates]
  /\ detached \subseteq Instances
  /\ cache \in [Devices -> Instances \cup {NoPlugin}]
  /\ bus \in Seq(Instances) /\ Len(bus) <= BusCapacity
  /\ made \in [Devices -> 0..MaxInstances]
  /\ pc \in [Requests -> Stages]
  /\ op \in [Requests -> OpNames]
  /\ dev \in [Requests -> Devices]
  /\ plug \in [Requests -> Instances \cup {NoPlugin}]
  /\ started \in 0..MaxRequests

(***************************************************************************)
(* An instance's supervisor will go on polling: spawned, not aborted and   *)
(* not panicked.                                                           *)
(***************************************************************************)
Running(i) == supervisor[i] \in {"sleeping", "polling", "holding"}

(* Mutants of Guards: the entry is cloned out of the table instead of      *)
(* pinned; a guard outlives its call.                                      *)
GuardsDropped(s) == {}
GuardsLeaked(s) ==
  {r \in Requests : op[r] \in Calls /\ plug[r] # NoPlugin /\ ShardOf[dev[r]] = s}

(* The read guards on shard s: calls awaiting their plugin, or a poll that *)
(* is writing the cache before it returns.                                 *)
Guards(s) == {r \in Requests : pc[r] \in {"awaiting", "store"} /\ ShardOf[dev[r]] = s}

(* Tasks between two awaits, blocked on a write lock or not.               *)
Occupied ==
  Cardinality({r \in Requests : pc[r] \notin {"idle", "awaiting"}})
    + Cardinality({i \in Instances : supervisor[i] \in {"holding", "aborting"}})
WorkerFree == Occupied < Workers

(* Mutant of Publish: an unbounded channel.                                *)
PublishUnbounded(i) == bus' = Append(bus, i)

(* A broadcast send: a full channel drops its oldest event, which the      *)
(* receiver learns as Lagged and only logs.                                *)
Publish(i) ==
  bus' = Append(IF Len(bus) < BusCapacity THEN bus ELSE Tail(bus), i)
MayPublish(i) == Publish(i) \/ UNCHANGED bus

(* main has registered the devices that are stored, whichever they are.    *)
Init ==
  /\ \E stored \in SUBSET Devices :
       /\ entries = [d \in Devices |-> IF d \in stored THEN <<d, 1>> ELSE NoPlugin]
       /\ supervisor = [i \in Instances |->
            IF DeviceOf(i) \in stored /\ i[2] = 1 THEN "sleeping" ELSE "none"]
       /\ made = [d \in Devices |-> IF d \in stored THEN 1 ELSE 0]
  /\ detached = {}
  /\ cache = [d \in Devices |-> NoPlugin]
  /\ bus = <<>>
  /\ pc = [r \in Requests |-> "idle"]
  /\ op = [r \in Requests |-> "command"]
  /\ dev = [r \in Requests |-> CHOOSE d \in Devices : TRUE]
  /\ plug = [r \in Requests |-> NoPlugin]
  /\ started = 0

-----------------------------------------------------------------------------
(* Tasks that call the registry.                                           *)

Begin(r, d, o, stage, p) ==
  /\ pc[r] = "idle" /\ WorkerFree
  /\ started < MaxRequests
  /\ o \in OpsOf[r]
  /\ started' = started + 1
  /\ pc' = [pc EXCEPT ![r] = stage]
  /\ op' = [op EXCEPT ![r] = o]
  /\ dev' = [dev EXCEPT ![r] = d]
  /\ plug' = [plug EXCEPT ![r] = p]
  /\ UNCHANGED <<entries, supervisor, detached, cache, bus, made>>

(* execute_command and poll_device up to the plugin's await: look the      *)
(* entry up, keeping its guard; an unregistered id fails at once.          *)
Call(r, d, o) ==
  /\ o \in Calls
  /\ entries[d] # NoPlugin
  /\ Begin(r, d, o, "awaiting", entries[d])

(* The bound on instances: there is room for one more, with those that     *)
(* requests in progress will still build.                                  *)
MayBuild(d) ==
  made[d] < MaxInstances - Cardinality({r \in Requests :
    /\ dev[r] = d /\ op[r] \in {"patch", "add", "sync"}
    /\ pc[r] \in {"deregister", "evict", "spawn"}})

(* deregister as the last or the first step of the caller.                 *)
StartDeregister(r, d, o) ==
  /\ o = "unregister" \/ (o = "patch" /\ MayBuild(d))
  /\ Begin(r, d, o, "deregister", NoPlugin)

(* register, by a caller that does not look whether d is registered.       *)
StartAdd(r, d) == MayBuild(d) /\ Begin(r, d, "add", "spawn", NoPlugin)

(* register, by a sync that skips the devices is_registered reports.       *)
StartSync(r, d) ==
  /\ entries[d] = NoPlugin /\ MayBuild(d)
  /\ Begin(r, d, "sync", "spawn", NoPlugin)

(* The plugin answers a command, with an echo on the bus or without, or    *)
(* fails; the guard is dropped.                                            *)
CommandReturns(r) ==
  /\ pc[r] = "awaiting" /\ op[r] = "command" /\ WorkerFree
  /\ pc' = [pc EXCEPT ![r] = "idle"]
  /\ MayPublish(plug[r])
  /\ UNCHANGED <<entries, supervisor, detached, cache, made, op, dev, plug, started>>

PollReturns(r) ==
  /\ pc[r] = "awaiting" /\ op[r] = "poll" /\ WorkerFree
  /\ pc' = [pc EXCEPT ![r] = "store"]
  /\ MayPublish(plug[r])
  /\ UNCHANGED <<entries, supervisor, detached, cache, made, op, dev, plug, started>>

PollFails(r) ==
  /\ pc[r] = "awaiting" /\ op[r] = "poll" /\ WorkerFree
  /\ pc' = [pc EXCEPT ![r] = "idle"]
  /\ UNCHANGED <<entries, supervisor, detached, cache, bus, made, op, dev, plug, started>>

(* poll_device inserts the state it got while it still holds the guard.    *)
PollStores(r) ==
  /\ pc[r] = "store"
  /\ cache' = [cache EXCEPT ![dev[r]] = plug[r]]
  /\ pc' = [pc EXCEPT ![r] = "idle"]
  /\ UNCHANGED <<entries, supervisor, detached, bus, made, op, dev, plug, started>>

(* The HTTP client goes away, and the handler's future is dropped at its   *)
(* await, or the plugin panics: the guard goes with the task's stack.      *)
ClientGone(r) ==
  /\ pc[r] = "awaiting" /\ WorkerFree
  /\ pc' = [pc EXCEPT ![r] = "idle"]
  /\ UNCHANGED <<entries, supervisor, detached, cache, bus, made, op, dev, plug, started>>

AfterDeregister(r) == IF op[r] = "patch" THEN "spawn" ELSE "idle"

(* Mutant of Aborted: the entry's JoinHandle is only dropped.              *)
Detached(s) == s

(* abort() kills a task at its await; one that is running keeps the thread *)
(* up to its next await, so a poll result it holds is still inserted.      *)
Aborted(s) ==
  CASE s \in {"sleeping", "polling"} -> "dead"
    [] s = "holding" -> "aborting"
    [] OTHER -> s

(* Mutant of Deregister: entries.get where the code has entries.remove.    *)
DeregisterKeeps(r) ==
  /\ pc[r] = "deregister" /\ entries[dev[r]] # NoPlugin
  /\ supervisor' = [supervisor EXCEPT ![entries[dev[r]]] = "dead"]
  /\ plug' = [plug EXCEPT ![r] = entries[dev[r]]]
  /\ pc' = [pc EXCEPT ![r] = "evict"]
  /\ UNCHANGED <<entries, detached, cache, bus, made, op, dev, started>>

(* deregister takes the entry out under the shard's write lock, then       *)
(* aborts the supervisor stored with it.                                   *)
Deregister(r) ==
  /\ pc[r] = "deregister"
  /\ Guards(ShardOf[dev[r]]) = {}
  /\ entries[dev[r]] # NoPlugin
  /\ entries' = [entries EXCEPT ![dev[r]] = NoPlugin]
  /\ plug' = [plug EXCEPT ![r] = entries[dev[r]]]
  /\ supervisor' = [supervisor EXCEPT ![entries[dev[r]]] = Aborted(@)]
  /\ pc' = [pc EXCEPT ![r] = "evict"]
  /\ UNCHANGED <<detached, cache, bus, made, op, dev, started>>

DeregisterAbsent(r) ==
  /\ pc[r] = "deregister"
  /\ Guards(ShardOf[dev[r]]) = {}
  /\ entries[dev[r]] = NoPlugin
  /\ pc' = [pc EXCEPT ![r] = AfterDeregister(r)]
  /\ UNCHANGED <<entries, supervisor, detached, cache, bus, made, op, dev, plug, started>>

Evict(r) ==
  /\ pc[r] = "evict"
  /\ cache' = [cache EXCEPT ![dev[r]] = NoPlugin]
  /\ pc' = [pc EXCEPT ![r] = AfterDeregister(r)]
  /\ UNCHANGED <<entries, supervisor, detached, bus, made, op, dev, plug, started>>

(* register spawns the supervisor before it waits for the write lock.      *)
SpawnSupervisor(r) ==
  LET d == dev[r]
      i == <<d, made[d] + 1>>
  IN  /\ pc[r] = "spawn"
      /\ made[d] < MaxInstances
      /\ made' = [made EXCEPT ![d] = @ + 1]
      /\ supervisor' = [supervisor EXCEPT ![i] = "sleeping"]
      /\ plug' = [plug EXCEPT ![r] = i]
      /\ pc' = [pc EXCEPT ![r] = "link"]
      /\ UNCHANGED <<entries, detached, cache, bus, op, dev, started>>

(* entries.insert: an entry already there is dropped, which detaches its   *)
(* supervisor instead of aborting it.                                      *)
Link(r) ==
  /\ pc[r] = "link"
  /\ Guards(ShardOf[dev[r]]) = {}
  /\ entries' = [entries EXCEPT ![dev[r]] = plug[r]]
  /\ detached' = detached \cup ({entries[dev[r]]} \ {NoPlugin})
  /\ pc' = [pc EXCEPT ![r] = "idle"]
  /\ UNCHANGED <<supervisor, cache, bus, made, op, dev, plug, started>>

-----------------------------------------------------------------------------
(* Supervisors and the persist task.                                       *)

SupervisorStep(i, from, to) ==
  /\ supervisor[i] = from
  /\ supervisor' = [supervisor EXCEPT ![i] = to]
  /\ UNCHANGED <<entries, detached, made, reqVars>>

(* The start-up jitter or the poll interval is over.                       *)
SupervisorWakes(i) ==
  WorkerFree /\ SupervisorStep(i, "sleeping", "polling") /\ UNCHANGED <<cache, bus>>

SupervisorPolled(i) ==
  WorkerFree /\ SupervisorStep(i, "polling", "holding") /\ MayPublish(i) /\ UNCHANGED cache

(* Mutant of SupervisorPollFails: a failed poll ends the loop.             *)
SupervisorGivesUp(i) ==
  WorkerFree /\ SupervisorStep(i, "polling", "dead") /\ UNCHANGED <<cache, bus>>

SupervisorPollFails(i) ==
  WorkerFree /\ SupervisorStep(i, "polling", "sleeping") /\ UNCHANGED <<cache, bus>>

(* poll_state may panic: parse_frame slices past its buffer when a frame   *)
(* states a length shorter than its trailer.  The panic ends the task, and *)
(* nobody looks at its JoinHandle: the entry stays.                        *)
SupervisorPanics(i) ==
  WorkerFree /\ SupervisorStep(i, "polling", "panicked") /\ UNCHANGED <<cache, bus>>

SupervisorInserts(i) ==
  /\ \/ SupervisorStep(i, "holding", "sleeping")
     \/ SupervisorStep(i, "aborting", "dead")
  /\ cache' = [cache EXCEPT ![DeviceOf(i)] = i]
  /\ UNCHANGED bus

(* The persist task merges the next event into the cache, creating the     *)
(* entry if there is none.                                                 *)
PersistEvent ==
  /\ bus # <<>> /\ WorkerFree
  /\ cache' = [cache EXCEPT ![DeviceOf(Head(bus))] = Head(bus)]
  /\ bus' = Tail(bus)
  /\ UNCHANGED <<entries, supervisor, detached, made, reqVars>>

-----------------------------------------------------------------------------
(* Steps of a task that has the processor, and steps that resume it.       *)
Continue(r) ==
  \/ PollStores(r)
  \/ Deregister(r) \/ DeregisterAbsent(r) \/ Evict(r)
  \/ SpawnSupervisor(r) \/ Link(r)
Resume(r) == CommandReturns(r) \/ PollReturns(r) \/ PollFails(r)
ResumeSupervisor(i) ==
  \/ SupervisorWakes(i) \/ SupervisorPolled(i)
  \/ SupervisorPollFails(i) \/ SupervisorPanics(i)

Start(r) ==
  \E d \in Devices :
     \/ \E o \in OpNames : Call(r, d, o) \/ StartDeregister(r, d, o)
     \/ StartAdd(r, d)
     \/ StartSync(r, d)

Next ==
  \/ \E r \in Requests : Start(r) \/ Resume(r) \/ Continue(r) \/ ClientGone(r)
  \/ \E i \in Instances : ResumeSupervisor(i) \/ SupervisorInserts(i)
  \/ PersistEvent

Spec == Init /\ [][Next]_vars

(***************************************************************************)
(* Fairness.  A thread that is inside a step goes on; the runtime's run    *)
(* queue gives every task that can be resumed its turn, even if threads    *)
(* are only free from time to time (strong fairness); timers fire; and a   *)
(* plugin operation ends, by an answer, an error or a timeout.  Requests   *)
(* need not arrive and clients need not go away.  A waiting writer has     *)
(* weak fairness only: the lock prefers readers.                           *)
(***************************************************************************)
Fairness ==
  /\ \A r \in Requests : WF_vars(Continue(r)) /\ SF_vars(Resume(r))
  /\ \A i \in Instances :
       WF_vars(SupervisorInserts(i)) /\ SF_vars(ResumeSupervisor(i))
  /\ SF_vars(PersistEvent)

FairSpec == Spec /\ Fairness

-----------------------------------------------------------------------------
(* Safety.                                                                 *)

(* A call in flight pins its entry: while a command or a poll runs through *)
(* the registry, the plugin it uses stays registered under its device      *)
(* (execute_command and poll_device keep the guard, deregister and         *)
(* register wait for it), so no call ever runs on a disconnected plugin    *)
(* and no poll_device fills the cache of a deregistered device.            *)
GuardPinsEntry ==
  \A r \in Requests : pc[r] \in {"awaiting", "store"} => entries[dev[r]] = plug[r]

(* A registered plugin is being polled: whatever deregisters and registers *)
(* interleave, deregister only aborts the supervisor of the entry it took  *)
(* out, never the one of an entry that replaced it.  A supervisor that     *)
(* panicked is the one that may have ended before its entry.               *)
RegisteredIsSupervised ==
  \A d \in Devices : entries[d] # NoPlugin =>
    Running(entries[d]) \/ supervisor[entries[d]] = "panicked"

(* A supervisor that runs belongs to the registered plugin, to the one a   *)
(* register call is about to link, or to one whose entry was replaced by   *)
(* another registration: deregister, whatever it overlaps, leaves none.    *)
Linking(i) == \E r \in Requests : pc[r] = "link" /\ plug[r] = i
OrphansWereReplaced ==
  \A i \in Instances :
    Running(i) => entries[DeviceOf(i)] = i \/ Linking(i) \/ i \in detached

(* Violated, by a register of what is registered: no supervisor is         *)
(* orphaned, so a device has one poller, and none once it is deregistered. *)
NoOrphan ==
  \A i \in Instances :
    Running(i) => entries[DeviceOf(i)] = i \/ Linking(i)

(* Checked by hand, and violated.  Deregistering is final: with no call,   *)
(* supervisor or event of d left in flight, an unregistered device has no  *)
(* cached state.                                                           *)
Settled(d) ==
  /\ entries[d] = NoPlugin
  /\ \A r \in Requests : dev[r] = d => pc[r] = "idle"
  /\ \A i \in Instances : DeviceOf(i) = d => supervisor[i] \in {"none", "dead", "panicked"}
  /\ \A k \in 1..Len(bus) : DeviceOf(bus[k]) # d
EvictedStaysEvicted == \A d \in Devices : Settled(d) => cache[d] = NoPlugin

(* Liveness.                                                               *)

(* Every thread is blocked by a task that waits for a shard somebody else  *)
(* holds.  The call that holds it finds no thread to go on with, so this   *)
(* is for ever.                                                            *)
Blocked(r) == pc[r] \in {"deregister", "link"} /\ Guards(ShardOf[dev[r]]) # {}
Starved == Cardinality({r \in Requests : Blocked(r)}) >= Workers

(* Every request ends, unless as many register and deregister calls as     *)
(* there are threads wait for shards: no call waits for ever for a thread, *)
(* a guard or a plugin.                                                    *)
RequestsEnd == \A r \in Requests : pc[r] # "idle" ~> (pc[r] = "idle" \/ Starved)

(* A device that stays registered is polled again and again, until its     *)
(* supervisor panics or the threads are starved.                           *)
KeepsPolling ==
  \A d \in Devices :
    [](entries[d] # NoPlugin =>
         <>(\/ entries[d] = NoPlugin
            \/ supervisor[entries[d]] \in {"polling", "panicked"}
            \/ Starved))

(* Checked by hand, and violated: a register call that started returns.    *)
RegisterReturns == \A r \in Requests : pc[r] = "link" ~> pc[r] # "link"

(* Checked by hand, and violated: the supervisor of a device that stays    *)
(* registered handles all subsequent periodic polls.                       *)
PollsForever ==
  \A d \in Devices :
    [](entries[d] # NoPlugin =>
         <>(entries[d] = NoPlugin \/ supervisor[entries[d]] = "polling" \/ Starved))
=============================================================================
