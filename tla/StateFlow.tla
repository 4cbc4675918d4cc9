------------------------------ MODULE StateFlow ------------------------------
(***************************************************************************)
(* How the state of one Tuya device reaches the cache and the sled state   *)
(* tree (tuya/plugin.rs, plugin/registry.rs, cache/mod.rs, bus.rs and the  *)
(* hydration in main.rs).                                                  *)
(*                                                                         *)
(* A poll, by the supervisor or by poll_device, puts the full state it     *)
(* received on the bus and also returns it; its caller inserts it into the *)
(* cache.  A command changes the device, which may echo the changed field; *)
(* the echo goes to the bus only.  A failed poll returns an all-None       *)
(* offline state, which is inserted but not published.  The persist task   *)
(* merges each event into the cache and puts it, as it is, into sled.      *)
(* A restart fills the cache from sled.                                    *)
(*                                                                         *)
(* A value of a field is the number of times the device has changed it.    *)
(***************************************************************************)
EXTENDS Naturals, Sequences

CONSTANTS
  Fields,       \* the optional fields of DeviceState this device reports
  Pollers,      \* tasks that poll: the supervisor, poll_device calls
  Commanders,   \* tasks that send commands
  Unknown,      \* the field is None
  Absent,       \* no state
  BusCapacity,  \* capacity of the broadcast bus
  MaxChanges,   \* bound: changes of a field of the device
  MaxFaults,    \* bound: polls that fail
  MaxRestarts   \* bound: restarts of the daemon

(* "mode" is DeviceState.mode and each switch a key of the map             *)
(* DeviceState.switches; "power" stands for the other optional fields.     *)
Switches == {"switch1", "switch2"}

Movers == Pollers \cup Commanders
FieldValues == Nat \cup {Unknown}
States == [online : BOOLEAN, val : [Fields -> FieldValues]]

ASSUME StateFlowAssumption ==
  /\ Fields \subseteq {"power", "mode"} \cup Switches
  /\ Pollers \cap Commanders = {}
  /\ Unknown \notin Nat /\ Absent \notin States
  /\ BusCapacity \in Nat \ {0}
  /\ MaxChanges \in Nat /\ MaxFaults \in Nat /\ MaxRestarts \in Nat

VARIABLES
  phys,      \* phys[f]: the device's own value of f
  stage,     \* stage[t]: "idle", "wire" (the reply is on its way), "hand"
  got,       \* got[t]: the state task t received or is about to receive
  bus,       \* events the persist task has not received
  cache,     \* the StateCache entry
  store,     \* the entry of the sled state tree
  faults, restarts

flowVars == <<phys, stage, got, bus, cache, store, faults, restarts>>

FlowTypeOK ==
  /\ phys \in [Fields -> 0..MaxChanges]
  /\ stage \in [Movers -> {"idle", "wire", "hand"}]
  /\ got \in [Movers -> States \cup {Absent}]
  /\ \A t \in Movers : got[t] = Absent <=> stage[t] = "idle"
  /\ bus \in Seq(States) /\ Len(bus) <= BusCapacity
  /\ cache \in States \cup {Absent}
  /\ store \in States \cup {Absent}
  /\ faults \in 0..MaxFaults
  /\ restarts \in 0..MaxRestarts

FullState == [online |-> TRUE, val |-> phys]
EchoState(f) ==
  [online |-> TRUE, val |-> [g \in Fields |-> IF g = f THEN phys[f] + 1 ELSE Unknown]]
OfflineState == [online |-> FALSE, val |-> [f \in Fields |-> Unknown]]

(* Mutant of Merge: every field is taken over, known or not.               *)
MergeAll(old, new) == new

(* The fields of an event StateCache::merge copies: the known ones; all    *)
(* switches if the event has any (the map is replaced); never the mode.    *)
Known(s) == IF s = Absent THEN {} ELSE {f \in Fields : s.val[f] # Unknown}
Copied(new) ==
  (Known(new) \cup (IF Known(new) \cap Switches = {} THEN {} ELSE Switches)) \ {"mode"}

(* StateCache::merge of an event into the cached state.                    *)
Merge(old, new) ==
  IF old = Absent THEN new
  ELSE [online |-> new.online,
        val |-> [f \in Fields |-> IF f \in Copied(new) THEN new.val[f] ELSE old.val[f]]]

FlowInit ==
  /\ phys = [f \in Fields |-> 0]
  /\ stage = [t \in Movers |-> "idle"]
  /\ got = [t \in Movers |-> Absent]
  /\ bus = <<>>
  /\ cache = Absent /\ store = Absent
  /\ faults = 0 /\ restarts = 0

-----------------------------------------------------------------------------
(* The device.                                                             *)

(* Somebody uses the device's own switch or another app.                   *)
DeviceChanges(f) ==
  /\ phys[f] < MaxChanges
  /\ phys' = [phys EXCEPT ![f] = @ + 1]
  /\ UNCHANGED <<stage, got, bus, cache, store, faults, restarts>>

(* The device reads its values to answer a poll.                           *)
PollAnswered(p) ==
  /\ stage[p] = "idle"
  /\ stage' = [stage EXCEPT ![p] = "wire"]
  /\ got' = [got EXCEPT ![p] = FullState]
  /\ UNCHANGED <<phys, bus, cache, store, faults, restarts>>

(* The device carries a command out and echoes the field it changed.       *)
CommandApplied(c, f) ==
  /\ stage[c] = "idle"
  /\ phys[f] < MaxChanges
  /\ phys' = [phys EXCEPT ![f] = @ + 1]
  /\ got' = [got EXCEPT ![c] = EchoState(f)]
  /\ stage' = [stage EXCEPT ![c] = "wire"]
  /\ UNCHANGED <<bus, cache, store, faults, restarts>>

-----------------------------------------------------------------------------
(* The plugin and its callers.                                             *)

(* Mutant of Publish: an unbounded channel.                                *)
PublishUnbounded(s) == bus' = Append(bus, s)

(* A broadcast send; a full channel drops its oldest event.                *)
Publish(s) == bus' = Append(IF Len(bus) < BusCapacity THEN bus ELSE Tail(bus), s)

(* poll_state publishes the state and returns it.                          *)
PollReceived(p) ==
  /\ stage[p] = "wire"
  /\ Publish(got[p])
  /\ stage' = [stage EXCEPT ![p] = "hand"]
  /\ UNCHANGED <<phys, got, cache, store, faults, restarts>>

(* No connection, an error, a timeout or the back-off: poll_state answers  *)
(* Ok with the offline state.                                              *)
PollLost(p) ==
  /\ stage[p] \in {"idle", "wire"} /\ faults < MaxFaults
  /\ faults' = faults + 1
  /\ got' = [got EXCEPT ![p] = OfflineState]
  /\ stage' = [stage EXCEPT ![p] = "hand"]
  /\ UNCHANGED <<phys, bus, cache, store, restarts>>

(* Mutant of PollInserts: merge where the code has insert.                 *)
PollMerges(p) ==
  /\ stage[p] = "hand"
  /\ cache' = Merge(cache, got[p])
  /\ stage' = [stage EXCEPT ![p] = "idle"]
  /\ got' = [got EXCEPT ![p] = Absent]
  /\ UNCHANGED <<phys, bus, store, faults, restarts>>

(* The supervisor, or poll_device, replaces the cached state.              *)
PollInserts(p) ==
  /\ stage[p] = "hand"
  /\ cache' = got[p]
  /\ stage' = [stage EXCEPT ![p] = "idle"]
  /\ got' = [got EXCEPT ![p] = Absent]
  /\ UNCHANGED <<phys, bus, store, faults, restarts>>

EchoReceived(c) ==
  /\ stage[c] = "wire"
  /\ Publish(got[c])
  /\ stage' = [stage EXCEPT ![c] = "idle"]
  /\ got' = [got EXCEPT ![c] = Absent]
  /\ UNCHANGED <<phys, cache, store, faults, restarts>>

(* No echo within a second: execute_command answers Ok all the same.       *)
EchoLost(c) ==
  /\ stage[c] = "wire"
  /\ stage' = [stage EXCEPT ![c] = "idle"]
  /\ got' = [got EXCEPT ![c] = Absent]
  /\ UNCHANGED <<phys, bus, cache, store, faults, restarts>>

-----------------------------------------------------------------------------
(* The cache, the persist task and a restart.                              *)

PersistEvent ==
  /\ bus # <<>>
  /\ cache' = Merge(cache, Head(bus))
  /\ store' = Head(bus)
  /\ bus' = Tail(bus)
  /\ UNCHANGED <<phys, stage, got, faults, restarts>>

(* The daemon stops at any point and starts again.                         *)
Restart ==
  /\ restarts < MaxRestarts
  /\ restarts' = restarts + 1
  /\ cache' = store
  /\ bus' = <<>>
  /\ stage' = [t \in Movers |-> "idle"]
  /\ got' = [t \in Movers |-> Absent]
  /\ UNCHANGED <<phys, store, faults>>

-----------------------------------------------------------------------------
Poll(p) == PollAnswered(p) \/ PollReceived(p) \/ PollInserts(p)

FlowNext ==
  \/ \E f \in Fields : DeviceChanges(f)
  \/ \E p \in Pollers : Poll(p) \/ PollLost(p)
  \/ \E c \in Commanders, f \in Fields : CommandApplied(c, f)
  \/ \E c \in Commanders : EchoReceived(c) \/ EchoLost(c)
  \/ PersistEvent
  \/ Restart

FlowSpec == FlowInit /\ [][FlowNext]_flowVars

(* Polls follow one another for ever (Registry!KeepsPolling) and, but for  *)
(* MaxFaults of them, are answered; the persist task takes every event; an *)
(* echo arrives or times out.                                              *)
FlowFairSpec ==
  /\ FlowSpec
  /\ \A p \in Pollers : WF_flowVars(Poll(p))
  /\ \A c \in Commanders : WF_flowVars(EchoReceived(c) \/ EchoLost(c))
  /\ WF_flowVars(PersistEvent)

-----------------------------------------------------------------------------
(* A partial echo never makes a known field unknown: only a poll that is   *)
(* inserted, or a restart, can (cache/mod.rs:22-25).                       *)
EchoKeepsKnown ==
  [][bus # <<>> /\ bus' = Tail(bus) /\ UNCHANGED <<stage, restarts>>
       => Known(cache) \subseteq Known(cache')]_flowVars

(* Once the device stays as it is and answers its polls, the cache comes   *)
(* to hold exactly the device's values and keeps them, whatever stale      *)
(* events, lost echoes, offline states and restarts came before.           *)
EventuallyFresh ==
  <>[](cache # Absent /\ cache = [online |-> TRUE, val |-> phys])

(* All optional fields an event carries are taken over (cache/mod.rs:22).  *)
EventTakenOver ==
  [][bus # <<>> /\ bus' = Tail(bus) /\ UNCHANGED <<stage, restarts>>
       => \A f \in Known(Head(bus)) : cache'.val[f] = Head(bus).val[f]]_flowVars

(* sled is the write-behind store of the cache (cache/mod.rs:6-7): with no *)
(* event left to persist and no result to insert, a restart would find     *)
(* every field the cache knows.                                            *)
WriteBehind ==
  bus = <<>> /\ (\A t \in Movers : stage[t] = "idle") => Known(cache) \subseteq Known(store)

(* A device that goes offline keeps its last known state (devices.rs:92).  *)
OfflineKeepsKnown ==
  [][\A p \in Pollers :
       stage[p] = "hand" /\ stage'[p] = "idle" /\ ~got[p].online /\ UNCHANGED restarts
         => Known(cache) \subseteq Known(cache')]_flowVars
=============================================================================
