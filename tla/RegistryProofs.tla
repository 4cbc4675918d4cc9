--------------------------- MODULE RegistryProofs ---------------------------
(***************************************************************************)
(* Proofs about Registry, for any devices, tasks, sharding, number of      *)
(* worker threads and bounds.                                              *)
(***************************************************************************)
EXTENDS Registry, TLAPS

(* GuardPinsEntry and RegisteredIsSupervised are not inductive alone.  A   *)
(* call's instance is a real one; an entry holds an instance of its own    *)
(* device that was built before; an instance between spawn_supervisor and  *)
(* entries.insert was not aborted, is in no entry and in no other call.    *)
Lives(i) == Running(i) \/ supervisor[i] = "panicked"
CallHasPlugin ==
  \A r \in Requests : pc[r] \in {"awaiting", "store"} => plug[r] \in Instances
EntryIsOwn ==
  \A d \in Devices : entries[d] # NoPlugin =>
    DeviceOf(entries[d]) = d /\ entries[d][2] <= made[d]
LinkIsOwn ==
  \A r \in Requests : pc[r] = "link" =>
    /\ plug[r] \in Instances
    /\ DeviceOf(plug[r]) = dev[r] /\ plug[r][2] <= made[dev[r]]
    /\ Lives(plug[r])
    /\ entries[dev[r]] # plug[r]
LinkIsAlone ==
  \A q, r \in Requests :
    pc[q] = "link" /\ pc[r] = "link" /\ plug[q] = plug[r] => q = r

IInv ==
  /\ TypeOK
  /\ GuardPinsEntry
  /\ RegisteredIsSupervised
  /\ CallHasPlugin
  /\ EntryIsOwn
  /\ LinkIsOwn
  /\ LinkIsAlone

(* The broadcast channel never holds more than its capacity and keeps      *)
(* well-typed events.                                                      *)
LEMMA PublishType ==
  ASSUME TypeOK, NEW i \in Instances, MayPublish(i)
  PROVE  bus' \in Seq(Instances) /\ Len(bus') <= BusCapacity
<1>1. CASE UNCHANGED bus
  BY <1>1 DEF TypeOK
<1>2. CASE Publish(i)
  <2>1. CASE Len(bus) < BusCapacity
    BY <1>2, <2>1, RegistryAssumption DEF Publish, TypeOK
  <2>2. CASE ~(Len(bus) < BusCapacity)
    <3>1. Len(bus) \in Nat /\ Len(bus) > 0
      BY <2>2, RegistryAssumption DEF TypeOK
    <3>2. Tail(bus) \in Seq(Instances) /\ Len(Tail(bus)) = Len(bus) - 1
      BY <3>1 DEF TypeOK
    <3>3. bus' = Append(Tail(bus), i)
      BY <1>2, <2>2 DEF Publish
    <3> QED
      BY <3>1, <3>2, <3>3, RegistryAssumption DEF TypeOK
  <2> QED
    BY <2>1, <2>2
<1> QED
  BY <1>1, <1>2 DEF MayPublish

LEMMA InitIInv == Init => IInv
<1> SUFFICES ASSUME Init PROVE IInv
  OBVIOUS
<1>1. PICK stored \in SUBSET Devices :
        /\ entries = [d \in Devices |-> IF d \in stored THEN <<d, 1>> ELSE NoPlugin]
        /\ supervisor = [i \in Instances |->
             IF DeviceOf(i) \in stored /\ i[2] = 1 THEN "sleeping" ELSE "none"]
        /\ made = [d \in Devices |-> IF d \in stored THEN 1 ELSE 0]
  BY DEF Init
<1>2. \A d \in Devices : <<d, 1>> \in Instances
  BY RegistryAssumption DEF Instances
<1>3. TypeOK
  <2>1. /\ entries \in [Devices -> Instances \cup {NoPlugin}]
        /\ supervisor \in [Instances -> SupervisorStates]
        /\ made \in [Devices -> 0..MaxInstances]
    BY <1>1, <1>2, RegistryAssumption DEF SupervisorStates
  <2> QED
    BY <2>1, RegistryAssumption DEF Init, TypeOK, Stages, OpNames, Calls
<1>4. \A d \in Devices : entries[d] # NoPlugin =>
        entries[d] = <<d, 1>> /\ made[d] = 1 /\ supervisor[<<d, 1>>] = "sleeping"
  BY <1>1, <1>2 DEF DeviceOf
<1>5. RegisteredIsSupervised /\ EntryIsOwn
  <2>1. RegisteredIsSupervised
    BY <1>4 DEF RegisteredIsSupervised, Running
  <2>2. ASSUME NEW d \in Devices, entries[d] # NoPlugin
        PROVE  DeviceOf(entries[d]) = d /\ entries[d][2] <= made[d]
    <3>1. entries[d] = <<d, 1>> /\ made[d] = 1
      BY <1>4, <2>2
    <3> QED
      BY <3>1 DEF DeviceOf
  <2> QED
    BY <2>1, <2>2 DEF EntryIsOwn
<1> QED
  BY <1>3, <1>5 DEF Init, IInv, GuardPinsEntry, CallHasPlugin, LinkIsOwn, LinkIsAlone

(* One lemma per kind of step: a request that starts, a call that goes on, *)
(* deregister, register, a supervisor, the persist task.                   *)

LEMMA StartStep ==
  ASSUME IInv, NEW r \in Requests, Start(r)
  PROVE  IInv'
<1> USE DEF IInv
<1>1. PICK d \in Devices, o \in OpNames, stage \in {"awaiting", "deregister", "spawn"},
           p \in Instances \cup {NoPlugin} :
        /\ Begin(r, d, o, stage, p)
        /\ stage = "awaiting" => p = entries[d] /\ p # NoPlugin
  BY DEF Start, Call, StartDeregister, StartAdd, StartSync, OpNames, Calls, TypeOK
<1> USE <1>1 DEF Begin
<1>2. TypeOK'
  BY RegistryAssumption DEF TypeOK, Stages
<1>3. GuardPinsEntry' /\ CallHasPlugin'
  BY DEF GuardPinsEntry, CallHasPlugin, TypeOK
<1>4. RegisteredIsSupervised' /\ EntryIsOwn'
  BY DEF RegisteredIsSupervised, EntryIsOwn, Running, Lives
<1>5. LinkIsOwn' /\ LinkIsAlone'
  BY DEF LinkIsOwn, LinkIsAlone, Running, Lives, TypeOK
<1>6. QED
  BY <1>2, <1>3, <1>4, <1>5

LEMMA CallStep ==
  ASSUME IInv, NEW r \in Requests, Resume(r) \/ PollStores(r) \/ ClientGone(r)
  PROVE  IInv'
<1> USE DEF IInv
<1>1. /\ UNCHANGED <<entries, supervisor, detached, made, op, dev, plug, started>>
      /\ pc[r] \in {"awaiting", "store"}
      /\ \/ pc' = [pc EXCEPT ![r] = "idle"]
         \/ pc[r] = "awaiting" /\ pc' = [pc EXCEPT ![r] = "store"]
  BY DEF Resume, CommandReturns, PollReturns, PollFails, PollStores, ClientGone
<1>2. bus' \in Seq(Instances) /\ Len(bus') <= BusCapacity
  <2>1. plug[r] \in Instances
    BY <1>1 DEF CallHasPlugin
  <2>2. MayPublish(plug[r])
    BY DEF Resume, CommandReturns, PollReturns, PollFails, PollStores, ClientGone, MayPublish
  <2> QED
    BY <2>1, <2>2, PublishType
<1>3. cache' \in [Devices -> Instances \cup {NoPlugin}]
  BY DEF Resume, CommandReturns, PollReturns, PollFails, PollStores, ClientGone, TypeOK
<1>4. TypeOK'
  BY <1>1, <1>2, <1>3 DEF TypeOK, Stages
<1>5. GuardPinsEntry' /\ CallHasPlugin'
  BY <1>1 DEF GuardPinsEntry, CallHasPlugin, TypeOK
<1>6. RegisteredIsSupervised' /\ EntryIsOwn'
  BY <1>1 DEF RegisteredIsSupervised, EntryIsOwn, Running, Lives
<1>7. \A q \in Requests : pc'[q] = "link" <=> pc[q] = "link"
  BY <1>1 DEF TypeOK
<1>8. LinkIsOwn' /\ LinkIsAlone'
  BY <1>1, <1>7 DEF LinkIsOwn, LinkIsAlone, Running, Lives
<1>9. QED
  BY <1>4, <1>5, <1>6, <1>8

(* A task that takes the write lock of its device's shard finds no call in *)
(* flight on that device.                                                  *)
LEMMA WriterAlone ==
  ASSUME NEW r \in Requests, Guards(ShardOf[dev[r]]) = {},
         NEW q \in Requests, dev[q] = dev[r]
  PROVE  pc[q] \notin {"awaiting", "store"}
BY DEF Guards

LEMMA DeregisterStep ==
  ASSUME IInv, NEW r \in Requests, Deregister(r) \/ DeregisterAbsent(r) \/ Evict(r)
  PROVE  IInv'
<1> USE DEF IInv
<1>1. CASE Deregister(r)
  <2> DEFINE d == dev[r]
             i == entries[d]
  <2>1. /\ d \in Devices /\ i \in Instances
        /\ entries' = [entries EXCEPT ![d] = NoPlugin]
        /\ supervisor' = [supervisor EXCEPT ![i] = Aborted(@)]
        /\ pc' = [pc EXCEPT ![r] = "evict"]
        /\ plug' = [plug EXCEPT ![r] = i]
        /\ pc[r] = "deregister"
        /\ UNCHANGED <<detached, cache, bus, made, op, dev, started>>
    BY <1>1 DEF Deregister, TypeOK
  <2>2. \A s \in SupervisorStates : Aborted(s) \in SupervisorStates
    BY DEF Aborted, SupervisorStates
  <2>3. TypeOK'
    BY <2>1, <2>2 DEF TypeOK, Stages
  <2>4. \A q \in Requests : pc[q] \in {"awaiting", "store"} => dev[q] # d
    BY <1>1, WriterAlone DEF Deregister
  <2>5. GuardPinsEntry' /\ CallHasPlugin'
    BY <2>1, <2>4 DEF GuardPinsEntry, CallHasPlugin, TypeOK
  <2>6. \A j \in Instances : j # i => supervisor'[j] = supervisor[j]
    BY <2>1 DEF TypeOK
  <2>7. RegisteredIsSupervised'
    <3> SUFFICES ASSUME NEW e \in Devices, entries'[e] # NoPlugin
                 PROVE  Lives(entries[e])'
      BY DEF RegisteredIsSupervised, Lives
    <3>1. e # d /\ entries'[e] = entries[e] /\ entries[e] \in Instances
      BY <2>1 DEF TypeOK
    <3>2. entries[e] # i
      BY <1>1, <2>1, <3>1 DEF EntryIsOwn, Deregister
    <3>3. supervisor'[entries[e]] = supervisor[entries[e]]
      BY <2>6, <3>1, <3>2
    <3>4. Lives(entries[e])
      BY <3>1 DEF RegisteredIsSupervised, Lives
    <3> QED
      BY <3>1, <3>3, <3>4 DEF Running, Lives
  <2>8. EntryIsOwn'
    BY <2>1 DEF EntryIsOwn, TypeOK
  <2>9. LinkIsOwn'
    <3> SUFFICES ASSUME NEW q \in Requests, pc'[q] = "link"
                 PROVE  /\ plug'[q] \in Instances
                        /\ DeviceOf(plug'[q]) = dev'[q] /\ plug'[q][2] <= made'[dev'[q]]
                        /\ supervisor'[plug'[q]] \in {"sleeping", "polling", "holding", "panicked"}
                        /\ entries'[dev'[q]] # plug'[q]
      BY DEF LinkIsOwn, Running, Lives
    <3>1. q # r /\ pc[q] = "link" /\ plug'[q] = plug[q]
      BY <2>1 DEF TypeOK
    <3>2. /\ plug[q] \in Instances /\ DeviceOf(plug[q]) = dev[q]
          /\ plug[q][2] <= made[dev[q]] /\ entries[dev[q]] # plug[q]
          /\ supervisor[plug[q]] \in {"sleeping", "polling", "holding", "panicked"}
      BY <3>1 DEF LinkIsOwn, Running, Lives
    <3>3. plug[q] # i
      BY <1>1, <2>1, <3>2 DEF EntryIsOwn, Deregister
    <3>4. entries'[dev[q]] # plug[q]
      BY <2>1, <3>2, RegistryAssumption DEF TypeOK
    <3> QED
      BY <2>1, <2>6, <3>1, <3>2, <3>3, <3>4
  <2>10. LinkIsAlone'
    BY <2>1 DEF LinkIsAlone, TypeOK
  <2> QED
    BY <2>3, <2>5, <2>7, <2>8, <2>9, <2>10
<1>2. CASE DeregisterAbsent(r) \/ Evict(r)
  <2>1. /\ UNCHANGED <<entries, supervisor, detached, bus, made, op, dev, plug, started>>
        /\ pc[r] \in {"deregister", "evict"}
        /\ pc' = [pc EXCEPT ![r] = AfterDeregister(r)]
        /\ cache' \in [Devices -> Instances \cup {NoPlugin}]
    BY <1>2 DEF DeregisterAbsent, Evict, TypeOK
  <2>2. AfterDeregister(r) \in {"spawn", "idle"}
    BY DEF AfterDeregister
  <2>3. TypeOK'
    BY <2>1, <2>2 DEF TypeOK, Stages
  <2>4. GuardPinsEntry' /\ CallHasPlugin'
    BY <2>1, <2>2 DEF GuardPinsEntry, CallHasPlugin, TypeOK
  <2>5. RegisteredIsSupervised' /\ EntryIsOwn'
    BY <2>1 DEF RegisteredIsSupervised, EntryIsOwn, Running, Lives
  <2>6. LinkIsOwn' /\ LinkIsAlone'
    BY <2>1, <2>2 DEF LinkIsOwn, LinkIsAlone, Running, Lives, TypeOK
  <2> QED
    BY <2>3, <2>4, <2>5, <2>6
<1> QED
  BY <1>1, <1>2

LEMMA RegisterStep ==
  ASSUME IInv, NEW r \in Requests, SpawnSupervisor(r) \/ Link(r)
  PROVE  IInv'
<1> USE DEF IInv
<1> DEFINE d == dev[r]
<1>1. CASE SpawnSupervisor(r)
  <2> DEFINE i == <<d, made[d] + 1>>
  <2>1. /\ d \in Devices /\ i \in Instances /\ made[d] \in Nat
        /\ made' = [made EXCEPT ![d] = made[d] + 1]
        /\ made[d] + 1 \in 0..MaxInstances
        /\ supervisor' = [supervisor EXCEPT ![i] = "sleeping"]
        /\ plug' = [plug EXCEPT ![r] = i]
        /\ pc' = [pc EXCEPT ![r] = "link"]
        /\ pc[r] = "spawn"
        /\ UNCHANGED <<entries, detached, cache, bus, op, dev, started>>
    BY <1>1, RegistryAssumption DEF SpawnSupervisor, TypeOK, Instances
  <2>2. TypeOK'
    BY <2>1 DEF TypeOK, Stages, SupervisorStates
  <2>3. GuardPinsEntry' /\ CallHasPlugin'
    BY <2>1 DEF GuardPinsEntry, CallHasPlugin, TypeOK
  <2>4. \A e \in Devices : made[e] \in Nat /\ made'[e] \in Nat /\ made[e] <= made'[e]
    BY <2>1, RegistryAssumption DEF TypeOK
  <2>5. \A j \in Instances : Lives(j) => Lives(j)'
    BY <2>1 DEF Running, Lives, TypeOK
  <2>6. RegisteredIsSupervised'
    BY <2>1, <2>5 DEF RegisteredIsSupervised, TypeOK, Running, Lives
  <2>7. EntryIsOwn'
    <3> SUFFICES ASSUME NEW e \in Devices, entries[e] # NoPlugin
                 PROVE  DeviceOf(entries[e]) = e /\ entries[e][2] <= made'[e]
      BY <2>1 DEF EntryIsOwn
    <3>1. DeviceOf(entries[e]) = e /\ entries[e][2] <= made[e]
      BY DEF EntryIsOwn
    <3>2. entries[e][2] \in Nat
      BY RegistryAssumption DEF TypeOK, Instances
    <3> QED
      BY <2>4, <3>1, <3>2
  <2>8. \A q \in Requests : pc[q] = "link" => plug[q] # i
    BY <2>1 DEF LinkIsOwn, DeviceOf
  <2>9. entries[d] # i
    BY <2>1, RegistryAssumption DEF EntryIsOwn
  <2>10. LinkIsOwn'
    <3> SUFFICES ASSUME NEW q \in Requests, pc'[q] = "link"
                 PROVE  /\ plug'[q] \in Instances
                        /\ DeviceOf(plug'[q]) = dev[q] /\ plug'[q][2] <= made'[dev[q]]
                        /\ supervisor'[plug'[q]] \in {"sleeping", "polling", "holding", "panicked"}
                        /\ entries[dev[q]] # plug'[q]
      BY <2>1 DEF LinkIsOwn, Running, Lives
    <3>1. CASE q = r
      <4>1. plug'[q] = i /\ i[1] = d /\ i[2] = made[d] + 1 /\ made'[d] = made[d] + 1
        BY <2>1, <3>1 DEF TypeOK
      <4>2. supervisor'[i] = "sleeping"
        BY <2>1 DEF TypeOK
      <4> QED
        BY <2>1, <2>9, <3>1, <4>1, <4>2 DEF DeviceOf, Running, Lives
    <3>2. CASE q # r
      <4>1. plug'[q] = plug[q] /\ pc[q] = "link" /\ dev[q] \in Devices
        BY <2>1, <3>2 DEF TypeOK
      <4>2. /\ plug[q] \in Instances /\ DeviceOf(plug[q]) = dev[q]
            /\ plug[q][2] <= made[dev[q]] /\ entries[dev[q]] # plug[q]
            /\ Lives(plug[q])
        BY <4>1 DEF LinkIsOwn
      <4>3. plug[q][2] \in Nat
        BY <4>2 DEF Instances
      <4>4. plug[q][2] <= made'[dev[q]]
        BY <2>4, <4>1, <4>2, <4>3
      <4> QED
        BY <2>5, <4>1, <4>2, <4>4 DEF Running, Lives
    <3> QED
      BY <3>1, <3>2
  <2>11. LinkIsAlone'
    BY <2>1, <2>8 DEF LinkIsAlone, TypeOK
  <2> QED
    BY <2>2, <2>3, <2>6, <2>7, <2>10, <2>11
<1>2. CASE Link(r)
  <2>1. /\ d \in Devices /\ plug[r] \in Instances
        /\ entries' = [entries EXCEPT ![d] = plug[r]]
        /\ detached' = detached \cup ({entries[d]} \ {NoPlugin})
        /\ pc' = [pc EXCEPT ![r] = "idle"]
        /\ pc[r] = "link"
        /\ UNCHANGED <<supervisor, cache, bus, made, op, dev, plug, started>>
    BY <1>2 DEF Link, LinkIsOwn, TypeOK
  <2>2. TypeOK'
    BY <2>1 DEF TypeOK, Stages
  <2>3. \A q \in Requests : pc[q] \in {"awaiting", "store"} => dev[q] # d
    BY <1>2, WriterAlone DEF Link
  <2>4. GuardPinsEntry' /\ CallHasPlugin'
    BY <2>1, <2>3 DEF GuardPinsEntry, CallHasPlugin, TypeOK
  <2>5. RegisteredIsSupervised' /\ EntryIsOwn'
    BY <2>1 DEF RegisteredIsSupervised, EntryIsOwn, LinkIsOwn, Running, Lives, TypeOK
  <2>6. LinkIsOwn'
    <3> SUFFICES ASSUME NEW q \in Requests, pc'[q] = "link"
                 PROVE  /\ plug[q] \in Instances
                        /\ DeviceOf(plug[q]) = dev[q] /\ plug[q][2] <= made[dev[q]]
                        /\ Lives(plug[q])
                        /\ entries'[dev[q]] # plug[q]
      BY <2>1 DEF LinkIsOwn, Running, Lives
    <3>1. q # r /\ pc[q] = "link"
      BY <2>1 DEF TypeOK
    <3>2. plug[q] # plug[r]
      BY <2>1, <3>1 DEF LinkIsAlone
    <3> QED
      BY <2>1, <3>1, <3>2 DEF LinkIsOwn, TypeOK
  <2>7. LinkIsAlone'
    BY <2>1 DEF LinkIsAlone, TypeOK
  <2> QED
    BY <2>2, <2>4, <2>5, <2>6, <2>7
<1> QED
  BY <1>1, <1>2

(* A supervisor's own step never aborts a supervisor, nor starts one.      *)
LEMMA SupervisorKeepsRunning ==
  ASSUME TypeOK, NEW i \in Instances,
         ResumeSupervisor(i) \/ SupervisorInserts(i)
  PROVE  /\ supervisor' \in [Instances -> SupervisorStates]
         /\ \A j \in Instances : Lives(j) => Lives(j)'
         /\ \A j \in Instances : Running(j)' => Running(j)
BY DEF TypeOK, SupervisorStates, Lives, Running, ResumeSupervisor, SupervisorInserts,
       SupervisorWakes, SupervisorPolled, SupervisorPollFails, SupervisorPanics,
       SupervisorStep

(* What the background tasks leave alone, and what they keep.              *)
BackgroundEffect ==
  /\ UNCHANGED <<entries, detached, made, pc, op, dev, plug, started>>
  /\ cache' \in [Devices -> Instances \cup {NoPlugin}]
  /\ bus' \in Seq(Instances) /\ Len(bus') <= BusCapacity
  /\ supervisor' \in [Instances -> SupervisorStates]
  /\ \A j \in Instances : Lives(j) => Lives(j)'

LEMMA BackgroundStep ==
  ASSUME IInv,
         PersistEvent \/ \E i \in Instances : ResumeSupervisor(i) \/ SupervisorInserts(i)
  PROVE  IInv'
<1> USE DEF IInv
<1>1. BackgroundEffect
  <2>1. CASE PersistEvent
    <3>1. Head(bus) \in Instances /\ Tail(bus) \in Seq(Instances)
          /\ Len(Tail(bus)) <= BusCapacity
      BY <2>1, RegistryAssumption DEF PersistEvent, TypeOK
    <3> QED
      BY <2>1, <3>1 DEF BackgroundEffect, PersistEvent, TypeOK, Lives, Running, reqVars
  <2>2. ASSUME NEW i \in Instances, ResumeSupervisor(i) \/ SupervisorInserts(i)
        PROVE  BackgroundEffect
    <3>1. DeviceOf(i) \in Devices
      BY DEF Instances, DeviceOf
    <3>2. cache' \in [Devices -> Instances \cup {NoPlugin}]
      BY <2>2, <3>1 DEF ResumeSupervisor, SupervisorInserts, SupervisorWakes,
         SupervisorPolled, SupervisorPollFails, SupervisorPanics, TypeOK
    <3>3. MayPublish(i)
      BY <2>2 DEF ResumeSupervisor, SupervisorInserts, SupervisorWakes,
         SupervisorPolled, SupervisorPollFails, SupervisorPanics, MayPublish
    <3>4. UNCHANGED <<entries, detached, made, pc, op, dev, plug, started>>
      BY <2>2 DEF ResumeSupervisor, SupervisorInserts, SupervisorWakes,
         SupervisorPolled, SupervisorPollFails, SupervisorPanics, SupervisorStep, reqVars
    <3> QED
      BY <2>2, <3>2, <3>3, <3>4, PublishType, SupervisorKeepsRunning DEF BackgroundEffect
  <2> QED
    BY <2>1, <2>2
<1> USE <1>1 DEF BackgroundEffect
<1>2. TypeOK'
  BY <1>1 DEF TypeOK
<1>3. GuardPinsEntry' /\ CallHasPlugin'
  BY <1>1 DEF GuardPinsEntry, CallHasPlugin
<1>4. RegisteredIsSupervised' /\ EntryIsOwn'
  BY <1>1 DEF RegisteredIsSupervised, EntryIsOwn, TypeOK, Lives, Running
<1>5. LinkIsOwn' /\ LinkIsAlone'
  BY <1>1 DEF LinkIsOwn, LinkIsAlone, Running, Lives
<1> QED
  BY <1>2, <1>3, <1>4, <1>5

LEMMA StepIInv == IInv /\ [Next]_vars => IInv'
<1> SUFFICES ASSUME IInv, [Next]_vars PROVE IInv'
  OBVIOUS
<1>1. ASSUME NEW r \in Requests, Start(r) \/ Resume(r) \/ Continue(r) \/ ClientGone(r)
      PROVE  IInv'
  BY <1>1, StartStep, CallStep, DeregisterStep, RegisterStep DEF Continue
<1>2. CASE PersistEvent \/ \E i \in Instances : ResumeSupervisor(i) \/ SupervisorInserts(i)
  BY <1>2, BackgroundStep
<1>3. CASE UNCHANGED vars
  BY <1>3 DEF vars, reqVars, IInv, TypeOK, GuardPinsEntry, RegisteredIsSupervised,
     CallHasPlugin, EntryIsOwn, LinkIsOwn, LinkIsAlone, Running, Lives
<1> QED
  BY <1>1, <1>2, <1>3 DEF Next

(* The registry's inductive invariant holds in every reachable state.      *)
THEOREM Inductive == Spec => []IInv
BY InitIInv, StepIInv, PTL DEF Spec

(* Type correctness.                                                       *)
THEOREM TypeCorrect == Spec => []TypeOK
<1>1. IInv => TypeOK
  BY DEF IInv
<1> QED
  BY <1>1, Inductive, PTL

(* While a command or a poll is in flight its plugin stays registered.     *)
THEOREM CallsArePinned == Spec => []GuardPinsEntry
<1>1. IInv => GuardPinsEntry
  BY DEF IInv
<1> QED
  BY <1>1, Inductive, PTL

(* A registered plugin always has a supervisor that no deregister aborted. *)
THEOREM Supervised == Spec => []RegisteredIsSupervised
<1>1. IInv => RegisteredIsSupervised
  BY DEF IInv
<1> QED
  BY <1>1, Inductive, PTL
-----------------------------------------------------------------------------
(* What an instance's supervisor runs for: its entry, a register call that *)
(* is about to link it, or nothing since it was replaced.                  *)

OInv == IInv /\ OrphansWereReplaced

(* Steps that change no entry and start no supervisor.                     *)
LEMMA OrphanQuiet ==
  ASSUME OInv, UNCHANGED <<entries, detached>>,
         \A i \in Instances : Running(i)' => Running(i),
         \A i \in Instances : Linking(i) => Linking(i)'
  PROVE  OrphansWereReplaced'
BY DEF OrphansWereReplaced, OInv

LEMMA OrphanStart ==
  ASSUME OInv, NEW r \in Requests, Start(r)
  PROVE  OrphansWereReplaced'
<1>1. PICK d \in Devices, o \in OpNames, stage \in Stages, p \in Instances \cup {NoPlugin} :
        Begin(r, d, o, stage, p)
  BY DEF Start, Call, StartDeregister, StartAdd, StartSync, OpNames, Calls, Stages,
     OInv, IInv, TypeOK
<1>2. \A i \in Instances : Linking(i) => Linking(i)'
  BY <1>1 DEF Begin, Linking, OInv, IInv, TypeOK
<1> QED
  BY <1>1, <1>2, OrphanQuiet DEF Begin, Running

LEMMA OrphanCall ==
  ASSUME OInv, NEW r \in Requests, Resume(r) \/ PollStores(r) \/ ClientGone(r)
  PROVE  OrphansWereReplaced'
<1>1. /\ UNCHANGED <<entries, supervisor, detached, plug>>
      /\ pc[r] \in {"awaiting", "store"}
      /\ pc' = [pc EXCEPT ![r] = "idle"] \/ pc' = [pc EXCEPT ![r] = "store"]
  BY DEF Resume, CommandReturns, PollReturns, PollFails, PollStores, ClientGone
<1>2. \A i \in Instances : Linking(i) => Linking(i)'
  BY <1>1 DEF Linking, OInv, IInv, TypeOK
<1> QED
  BY <1>1, <1>2, OrphanQuiet DEF Running

(* deregister aborts the supervisor of the entry it takes out.             *)
LEMMA OrphanDeregister ==
  ASSUME OInv, NEW r \in Requests, Deregister(r) \/ DeregisterAbsent(r) \/ Evict(r)
  PROVE  OrphansWereReplaced'
<1>1. TypeOK /\ EntryIsOwn
  BY DEF OInv, IInv
<1>2. CASE Deregister(r)
  <2>0. PICK i \in Instances : i = entries[dev[r]]
    BY <1>1, <1>2 DEF Deregister, TypeOK
  <2>1. /\ dev[r] \in Devices /\ DeviceOf(i) = dev[r] /\ UNCHANGED detached
        /\ entries' = [entries EXCEPT ![dev[r]] = NoPlugin]
        /\ supervisor' = [supervisor EXCEPT ![i] = Aborted(@)]
        /\ plug' = [plug EXCEPT ![r] = i] /\ pc' = [pc EXCEPT ![r] = "evict"]
        /\ pc[r] = "deregister"
    BY <1>1, <1>2, <2>0 DEF Deregister, TypeOK, EntryIsOwn
  <2>2. ~Running(i)'
    BY <1>1, <2>1 DEF TypeOK, Running, Aborted
  <2>3. \A j \in Instances \ {i} : Running(j)' => Running(j)
    BY <1>1, <2>1 DEF TypeOK, Running
  <2>4. \A j \in Instances : Linking(j) => Linking(j)'
    BY <1>1, <2>1 DEF Linking, TypeOK
  <2>5. \A j \in Instances \ {i} :
          entries[DeviceOf(j)] = j => entries'[DeviceOf(j)] = j
    BY <1>1, <2>0, <2>1 DEF TypeOK, Instances, DeviceOf
  <2> QED
    BY <2>1, <2>2, <2>3, <2>4, <2>5 DEF OrphansWereReplaced, OInv
<1>3. CASE DeregisterAbsent(r) \/ Evict(r)
  <2>1. /\ UNCHANGED <<entries, supervisor, detached, plug>>
        /\ pc[r] # "link" /\ pc' = [pc EXCEPT ![r] = AfterDeregister(r)]
    BY <1>3 DEF DeregisterAbsent, Evict
  <2>2. \A j \in Instances : Linking(j) => Linking(j)'
    BY <1>1, <2>1 DEF Linking, TypeOK
  <2> QED
    BY <2>1, <2>2, OrphanQuiet DEF Running
<1> QED
  BY <1>2, <1>3

(* register spawns for an instance it then links; what it replaces is      *)
(* detached.                                                               *)
LEMMA OrphanRegister ==
  ASSUME OInv, NEW r \in Requests, SpawnSupervisor(r) \/ Link(r)
  PROVE  OrphansWereReplaced'
<1>1. TypeOK /\ LinkIsOwn
  BY DEF OInv, IInv
<1>2. CASE SpawnSupervisor(r)
  <2>0. PICK i \in Instances : i = <<dev[r], made[dev[r]] + 1>>
    BY <1>1, <1>2, RegistryAssumption DEF SpawnSupervisor, TypeOK, Instances
  <2>1. /\ UNCHANGED <<entries, detached>> /\ pc[r] = "spawn"
        /\ pc' = [pc EXCEPT ![r] = "link"] /\ plug' = [plug EXCEPT ![r] = i]
        /\ supervisor' = [supervisor EXCEPT ![i] = "sleeping"]
    BY <1>2, <2>0 DEF SpawnSupervisor
  <2>2. Linking(i)'
    BY <1>1, <2>1 DEF Linking, TypeOK
  <2>3. \A j \in Instances : Linking(j) => Linking(j)'
    BY <1>1, <2>1 DEF Linking, TypeOK
  <2>4. \A j \in Instances : j # i => (Running(j)' => Running(j))
    BY <1>1, <2>1 DEF TypeOK, Running
  <2> QED
    BY <2>1, <2>2, <2>3, <2>4 DEF OrphansWereReplaced, OInv
<1>3. CASE Link(r)
  <2>1. /\ UNCHANGED <<supervisor, plug>> /\ pc[r] = "link"
        /\ pc' = [pc EXCEPT ![r] = "idle"]
        /\ entries' = [entries EXCEPT ![dev[r]] = plug[r]]
        /\ detached' = detached \cup ({entries[dev[r]]} \ {NoPlugin})
        /\ dev[r] \in Devices /\ plug[r] \in Instances /\ DeviceOf(plug[r]) = dev[r]
    BY <1>1, <1>3 DEF Link, LinkIsOwn, TypeOK
  <2>2. SUFFICES ASSUME NEW j \in Instances, Running(j)
                 PROVE  entries'[DeviceOf(j)] = j \/ Linking(j)' \/ j \in detached'
    BY <2>1 DEF OrphansWereReplaced, Running
  <2>3. CASE entries[DeviceOf(j)] = j
    <3>1. CASE DeviceOf(j) = dev[r]
      BY <2>1, <2>3, <3>1, RegistryAssumption
    <3>2. CASE DeviceOf(j) # dev[r]
      BY <1>1, <2>1, <2>3, <3>2 DEF TypeOK
    <3> QED
      BY <3>1, <3>2
  <2>4. CASE Linking(j)
    <3>1. PICK q \in Requests : pc[q] = "link" /\ plug[q] = j
      BY <2>4 DEF Linking
    <3>2. CASE q = r
      BY <1>1, <2>1, <3>1, <3>2 DEF TypeOK
    <3>3. CASE q # r
      BY <1>1, <2>1, <3>1, <3>3 DEF Linking, TypeOK
    <3> QED
      BY <3>2, <3>3
  <2>5. CASE j \in detached
    BY <2>1, <2>5
  <2> QED
    BY <2>2, <2>3, <2>4, <2>5 DEF OrphansWereReplaced, OInv
<1> QED
  BY <1>2, <1>3

LEMMA OrphanBackground ==
  ASSUME OInv,
         PersistEvent \/ \E i \in Instances : ResumeSupervisor(i) \/ SupervisorInserts(i)
  PROVE  OrphansWereReplaced'
<1>1. /\ UNCHANGED <<entries, detached, pc, plug>>
      /\ \A j \in Instances : Running(j)' => Running(j)
  <2>1. CASE PersistEvent
    BY <2>1 DEF PersistEvent, reqVars, Running
  <2>2. ASSUME NEW i \in Instances, ResumeSupervisor(i) \/ SupervisorInserts(i)
        PROVE  <1>1
    <3>1. UNCHANGED <<entries, detached, pc, plug>>
      BY <2>2 DEF ResumeSupervisor, SupervisorInserts, SupervisorWakes,
         SupervisorPolled, SupervisorPollFails, SupervisorPanics, SupervisorStep, reqVars
    <3> QED
      BY <2>2, <3>1, SupervisorKeepsRunning DEF OInv, IInv
  <2> QED
    BY <2>1, <2>2
<1> QED
  BY <1>1, OrphanQuiet DEF Linking

(* Whatever tasks register, blindly or not, deregister and patch at once:  *)
(* a supervisor that runs without an entry is of a registration that       *)
(* another one replaced.  deregister never leaves one behind, and where    *)
(* nothing is registered twice a device has one poller at most.            *)
THEOREM OrphansOnlyFromReplacing == Spec => []OrphansWereReplaced
<1>1. Init => OInv
  <2> SUFFICES ASSUME Init PROVE OrphansWereReplaced
    BY InitIInv DEF OInv
  <2> QED
    BY DEF Init, OrphansWereReplaced, Running, Instances, DeviceOf
<1>2. OInv /\ [Next]_vars => OInv'
  <2> SUFFICES ASSUME OInv, [Next]_vars
               PROVE  OrphansWereReplaced'
    BY StepIInv DEF OInv
  <2>1. ASSUME NEW r \in Requests, Start(r) \/ Resume(r) \/ Continue(r) \/ ClientGone(r)
        PROVE  OrphansWereReplaced'
    BY <2>1, OrphanStart, OrphanCall, OrphanDeregister, OrphanRegister DEF Continue
  <2>2. CASE PersistEvent \/ \E i \in Instances : ResumeSupervisor(i) \/ SupervisorInserts(i)
    BY <2>2, OrphanBackground
  <2>3. CASE UNCHANGED vars
    BY <2>3 DEF vars, reqVars, OInv, OrphansWereReplaced, Running, Linking
  <2> QED
    BY <2>1, <2>2, <2>3 DEF Next
<1>3. OInv => OrphansWereReplaced
  BY DEF OInv
<1> QED
  BY <1>1, <1>2, <1>3, PTL DEF Spec
=============================================================================
