# Synaptex in TLA+

Synaptex is a self-hosted smart home controller: `synaptex-core` drives the
devices and serves a REST API, `synaptex-router` finds devices on the network
and manages their addresses, and a hook inside the Kea DHCP server holds the
reservations. This directory models its stateful core in TLA+, checks it with
TLC on small instances, and proves with TLAPS what matters most for every
instance. All definitions are translations of the Rust and C++ code; paths
below are relative to `src/crates/` unless they start with `src/`.

Contents: [inventory](#inventory), [modules](#modules), [runs](#runs),
[fairness](#fairness), [proofs](#proofs),
[what does not hold](#what-does-not-hold),
[what is not modelled](#what-is-not-modelled), [plan](#plan),
[how to run](#how-to-run).

## Inventory

### synaptex-core

| Component | State | Operations | Talks to |
|---|---|---|---|
| Plugin registry (`plugin/registry.rs`) | `entries`: device id -> plugin and poll task | register, deregister, execute_command, poll_device, supervisor loop | plugins, cache; called by REST handlers, syncs, routines, groups |
| State cache (`cache/mod.rs`) | device id -> DeviceState | insert, merge, remove | supervisors, poll_device, persist task |
| State bus and persist task (`bus.rs`) | broadcast channel of 256 events; sled `state` tree | send, recv, merge and persist | plugins send; persist task, group watchers and SSE streams receive |
| Routine runner (`routine/mod.rs`) | `running`, `cron_tasks`: routine id -> task; sled `routines` tree | create, put, delete, trigger, cancel, cron tick, steps, revival at start-up | registry, rooms |
| Device store (`db/mod.rs`, `rest/handlers/devices.rs`, `groups.rs`, `rooms.rs`, `pairing.rs`, `hubs.rs`) | sled trees `registry`, `configs`, `rooms`, `config` | register, patch, unregister, import, register_managed, hub registration | registry, cloud client, router client |
| Hub syncs (`bond_sync.rs`, `mysa_sync.rs`) | none of their own | discover, register what is new, every five minutes for Bond | device store, registry |
| Router client (`router_client.rs`) | cache of discovered devices, version hints, backoff | the discovery loop, sync of stored configs | router RPCs, device store |
| Groups and rooms (`group/mod.rs`, `room.rs`) | members | fan out a command with a time-out per member, compute a state | registry, cache |
| REST surface, cloud client | none | routing, conversion, signing | all of the above |

### Plugins

| Component | State | Operations |
|---|---|---|
| Tuya (`synaptex-tuya`) | sequence number, last version, poll backoff; a connection per operation | probe and negotiate a session, poll, command, decode data points |
| Bond (`synaptex-bond`) | a cached connected flag | an action per command, the state a poll reads, speed conversions |
| Mysa (`synaptex-mysa`) | Cognito session behind a lock, the worker's channel, device cache, MQTT session | authenticate and refresh, publish or post, poll, add a device, subscribe, reconnect |

### synaptex-router and the Kea hook

| Component | State | Operations | Talks to |
|---|---|---|---|
| Device records (`db.rs`) | trees `devices`, `mac_to_id`, `native_to_id` | upsert, look-ups | listeners, RPCs |
| Address pool (`db.rs`) | tree `allocated_ips` | allocate_ip, reserve_ip | listeners, register_device |
| Listeners (`discovery.rs`) | the discovery channel | parse a broadcast, find or create the record, push the reservation, announce | records, pool, Kea client, core |
| RPC service (`rpc/mod.rs`) | none | register_device, DHCP reservations, watch_discovery | records, pool, Kea client |
| Kea client (`dhcp.rs`, `kea.rs`) | `CmdState`: one connection behind a mutex | send a command and read its reply, take over a new connection, sync at start-up | the hook |
| Kea hook (`src/src/kea-hook/src/synaptex_hook.cc`) | hosts in memory by MAC | connect, apply commands, classify packets | router, Kea |

### What is hard here

- *Locks across awaits.* The registry keeps a shard's read guard while a plugin
  talks to its device, and a writer blocks its worker thread on the same lock.
  `send` keeps a mutex across a network read with no time-out.
- *Tasks that outlive their owner.* Supervisors, cron loops and executions are
  detached when their `JoinHandle` is dropped and only end when it is aborted.
- *Several single-step operations where one atomic one is meant.* Every sled
  and DashMap operation is atomic, and none of the code combines two of them:
  allocation, look-up then create, save then start.
- *Two paths for the same fact.* A device's state reaches the cache both from
  the caller of a poll and through the bus; echoes are partial.
- *Crashes and restarts* of core, router and Kea, each with its own recovery.
- *Lossy channels*: the state bus and the discovery channel drop their oldest
  events, RPC futures are dropped by clients that go away, MQTT publishes have
  QoS 0.
- *Time-outs that do not cancel*: a member's plugin is dropped in the middle of a
  call, and what it has sent still arrives.

### What makes each component correct

| Component | Properties |
|---|---|
| Registry | a call in flight pins its plugin; a registered plugin is supervised and polled for ever; nothing polls an unregistered one, unless it was registered twice; every request ends |
| Cache, bus, persist | what is known is not forgotten by a partial event; the cache converges to the device |
| Records and pool | one record per device, one owner per address, no leak, stable addresses, allocation implements its specification, reservations arrive; where handlers meet on one object this is lost, and only there |
| Kea channel | an answer belongs to its command and is true; both sides find one connection again; calls end; stored reservations are in force |
| Routines | no cron loop is lost; loops and saved schedules agree; one execution per routine |
| Device store | plugins run with what is stored; the trees agree but for a stop in the middle and a managed registration; a hub's devices come back |
| Groups and rooms | an Ok is the truth about every member; every member is tried; the call ends |
| Discovery stream | the core comes to know every device's present address |
| Tuya sessions | a reply is of this call; no number is used twice; a failed command was not carried out; polls come to show the device |
| Mysa sessions | every known device is subscribed; no expired token is handed out; the cache comes to have every setpoint |
| Conversions (data points, speeds, REST commands, frames) | a device reports back what a command set; frames are cut whole however the reads end |

## Modules

A component is a module with one action per operation, step between two awaits
or atomic map operation; an `MC...` module defines its instances for TLC, and a
`...Proofs` module holds its theorems. Three of them hold several components':
`ChannelProofs` those of `KeaChannel` and `DiscoveryStream`, `CommandProofs` those
of `FanOut`, `StateFlow`, `CommandDto` and `Bond`, `TuyaSessionProofs` also those of
`TuyaFrames` and `DpMap`. `DiscoveryStream` and `StateFlow` therefore write their
component's name before `Init`, `Next`, `Spec` and `TypeOK`.

**`Registry`** - the registry, its supervisors and the guards they hold.
`entries`, `supervisor`, `cache` and `bus` are the code's; a plugin instance is
a pair of a device and a number, and a cached state is represented by the
instance it came from. `Guards` are the shard guards calls hold; `Occupied` and
`WorkerFree` are the runtime's threads: a task takes one from when it is resumed
to its next await, and a writer that waits for a shard keeps its thread;
`Starved` says that all of them do. `SupervisorPanics` is a panic in `poll_state`,
which ends the supervisor's task and leaves its entry (`parse_frame` slices past its
buffer when a frame states a length shorter than its trailer). `detached` remembers
the instances whose entry another registration replaced. `Init` has any of the
devices registered, as `main` does with those it finds stored.
`Begin` ... `CommandReturns`, `PollStores` are the two calls; `Deregister`,
`Evict`, `SpawnSupervisor`, `Link` the two halves of deregister and register;
`PersistEvent` the persist task. The composition of patch (deregister, then
register), sync (register unless registered) and add is what the handlers do.

**`StateFlow`** - one device's state between the device, the wire, the bus, the
cache and sled, field by field. A field's value is the number of times the
device changed it. `PollReceived` publishes and then returns (`PollInserts`)
the same state; `EchoReceived` publishes one field; `PollLost` returns the
all-None offline state; `Merge` is `StateCache::merge`, which copies neither
the mode nor single switches; `Restart` hydrates the cache from sled.
It assumes of the registry what `Registry` shows: polls follow one another for
ever.

**`RouterPool`** - the device records, their indexes and the pool. A handler is
a listener that handles a broadcast or a `register_device` call; it moves
through `lookup`, `scan`, `check`, `claim`, `upsert`, `index` and `push`, one
tree operation each, and any number of them interleave between any two. The
database may hold records of an older version, which have no managed address
(`OldDbs`); a request asks for one of `Pins` or for any address. `SyncStarts` and
`SyncPush` are the start-up sync; `Restart` drops every handler where it stands. The
channel to Kea is abstracted to pushes that arrive, are lost, or find no
connection yet (`PushUnconnected`); `KeaChannel` has its detail. Four history
variables remember what handlers did to one object at once: hosts that handlers of
two devices had found free (`contested`), Tuya ids two listeners made a record for
(`split`), records without an address that two handlers worked on (`shared`), and
records a stop kept from being written after their host was claimed (`stopped`).
**`Allocator`** is the abstract specification of the pool: a device looks at a host
that nobody or itself holds (`Look`) and may then be granted it (`Grant`), a stop
forgets who has looked (`Forget`), and a host that only its holder wants stays its
holder's (`SettledStays`). `AllocatorSpec` states that `RouterPool` implements it,
with the handlers at `claim` for those that have looked.

**`KeaChannel`** - the command channel. `cmd`, `holder` are a caller's command
and the mutex; `cmdState`, `accepted` and `hook` the connections each side is
on; `toHook` and `toRouter` the lines in flight. `Write` and `Read` are the two
halves of `send`, `Abandon` drops an RPC's future between them, `Connect`,
`Announce` and `HangUp` are the life of a connection, `Apply` is the hook,
`SyncLists` and `SyncNext` the start-up task, `KeaRestart` and `RouterRestart`
stop one side at any moment.

**`Routines`** - the runner with its REST handlers. A handler or a cron loop is
an agent with a list of the operations it has left (`todo`), one atomic map or
tree operation each; two agents interleave between any two. `AbortCron` and
`AbortRun` are `JoinHandle::abort`: a task that waits ends at once, one that is
being polled at its next await. `Save` also has `start_cron`'s refusal of a
schedule that does not parse, since nothing happens in between. `Restart`
revives the saved schedules.

**`DeviceStore`** - the trees `registry` (`infos`) and `configs`, the plugins
built from them (`live`), and everything that writes them: the handlers of
devices, groups, imports and hubs, the hub syncs, the discovery loop's write, and
`main`. As in `Routines`, an agent has a list of operations left. A handler's
action (`RegisterDevice`, `PatchDevice`, `Import` ...) gives it that list with
what the code read first; `PutInfo`, `PutConfig`, `Deregister`, `Register` ...
carry it out, and `Load`, `Members`, `Rename`, `Reload`, `Known` and `Check` are
the reads in the middle that decide how it goes on. `RegisterManaged` writes a
`DeviceInfo` without capabilities over whatever the device has, as the code does
not look. A sync or an import that
goes through several devices is one job per device. `Restart` is a stop between
any two operations, followed by what `main` starts. A config is reduced to the
fields different writers change: the key (cloud), the profile or the members
(operator) and the address (router).

**`DiscoveryStream`** - a Tuya device's address on its way from a broadcast to
the core's stored config. `Hear`, `ResolveMac`, `Upsert`, `Send` are a listener's
turn; between `Upsert` and `Send` it talks to Kea. `WatchDiscovery` subscribes,
`ListRecord` is one step of the iterator that lists the records, `Receive` the
core's handling of one event with `sync_device_from_router`. The channel has
`Capacity` entries and drops its oldest (`Enqueue`). `Move` gives a device
another address; a stream breaks, or dies without a word, and both sides restart.
`LastWordIs` says what the core will have once it has read all that is under way.

**`TuyaSession`** - the calls of one Tuya plugin, each on a TCP connection of its
own: the version, the negotiation of 3.4 and 3.5, the one data frame, the reads
until data points come. Calls share the sequence counter, the version hint and
the poll back-off. `FailOpen` and `FailAwait` are the two halves of an error: a
command fails until its frame is written and is taken for done afterwards. The
device is external and modelled from what the code expects of it: it answers
frames of its version, pushes changes on its open connections, and within
`MaxFaults` stays silent, refuses, closes or resets. Its state is the number of
changes it has gone through.

**`MysaSession`** - one account: the shared Cognito session (`Renew` and
`Exchange` are the two halves of a refresh under the write lock, after which a token
whose expiry cannot be read counts as expired), the worker that
connects, takes a snapshot of the ids, subscribes, serves its channel and
reconnects, and the calls of the plugin, which queue a publish or post it over
HTTP, fill the cache and add devices. The cloud delivers to the topics the
present connection has subscribed.

**`FanOut`** - commands to groups and rooms. A task per member, each with a
time-out; a group within a group has tasks of its own, and dropped handles leave
tasks running. `GroupErrors` and `RoomErrors` are the two rules for the answer;
`TimeOut` drops the plugin's call in the middle (`afloat`: what was sent and may
still arrive). `SaveRoom`, `SaveGroup`, `Unregister` are the handlers that edit
the lists and the devices between a command's steps.

**`DpMap`**, **`Bond`**, **`CommandDto`**, **`TuyaFrames`** - pure algorithms,
without variables: the data point maps of every Tuya profile in both directions,
Bond's actions and speeds, the REST form of a command, and how frames are cut out
of a stream of bytes. `MCData` makes each input a state and composes them: a
command is written as a DTO, read again, turned into data points, and read back
through the map of the device that took it.

The modules are separate because their components share no variable other than
through the calls named above; where one relies on another the assumption is
named in its comment (`FlowFairSpec` of `StateFlow`, pushes in `RouterPool`, a
plugin's Ok in `FanOut`).

## Runs

| Run | Instance | Shows |
|---|---|---|
| `registry_calls` | one device; a task that unregisters, patches, adds and syncs, one that unregisters, commands and polls, and one that commands; two threads, a bus of one event, three requests, two instances | `GuardPinsEntry`: no call ever runs on a plugin that was replaced, no poll_device stores after a deregister; `RegisteredIsSupervised`: a deregister never aborts the supervisor of a later registration; `OrphansWereReplaced`: a supervisor without an entry is of a registration that another replaced; `RequestsEnd`: guards, threads and plugins make no cycle but the one of `Starved`, which three requests on two threads do reach; `KeepsPolling`, until a panic |
| `registry_orphan` | two tasks that register without looking | violated: see below |
| `state_flow` | a mode and a switch, two pollers, a commander, a bus of two events, one change per field, one failed poll, one restart | `EchoKeepsKnown`; `EventuallyFresh`: whatever stale event, lost echo, offline state or restart came before, the cache comes to equal the device for good |
| `pool_handlers` | two handlers at once, a listener and one that listens or serves; a Tuya id, an operator's MAC, pinned to the first host; an empty database or a record of before that has the operator's MAC; two hosts, a lost push, a restart anywhere | `ManagedIsOwn`, `OneRecordPerNative`, `NoLeak`, `ManagedIsStable`: what handlers do to different objects, or one after the other to the same, never goes wrong; `AllocatorSpec`; `EventuallyReserved` |
| `kea_calls` | a listener, an RPC, the start-up task; a good and a bad MAC; a dropped future; one restart of each side | `AbandonedCallsLag`: lines in flight are exactly the call in progress and the abandoned ones; `AnswersInForce`: without abandoned calls an answer is one's own and true; `ChannelHeals`; `StoredAreReserved` |
| `routines_calls` | two handlers, two cron loops, two executions, one routine, three bodies (no schedule, one for ever, one that ends), restarts without bound | `TypeOK`; `NoLostCron`; `CronFollowsSaved`; `OneRun` |
| `store_calls` | a Tuya device, a Bond device, a Mysa device and a group; two handlers, a sync, the discovery loop; two requests that write, one change in the cloud, one stop | `TypeOK`; `LiveIsStored`: a plugin runs with the stored key and profile; `StoreAgrees`: what has a config is listed, with the right capabilities or, after a managed registration, none, and runs; `HubHeals`: after a stop anywhere a Bond hub's devices are complete again |
| `data_inputs` | every profile; every brightness 0..1000 and temperature 2700..6500 K; colours from a grid of seven bytes; every patch; Bond fans with 3 to 100 speeds; two frames of each form, whole or damaged, over three reads that end anywhere | `CommandsReadBack`: a device reports what a command set, a patch leaves the light in the mode that shows it, a fan with a light keeps the other half, a command survives its REST form; `FramesWhole` |
| `tuya_calls` | the supervisor and a request, a device of version 3.4 whose config says 3.3 or one of 3.3 whose config says nothing, one change, one fault | `TypeOK`; `SeqFresh`: frames of overlapping connections carry different numbers; `FailedIsUntouched`: a command that fails was not carried out and never will be; `ReplyIsOfThisCall`: what a call reports is no older than its beginning; `Heals`: polls come to show the device, after a wrong version or a back-off too |
| `mysa_account` | one thermostat, the worker and a caller, a channel with room for one, two messages in flight, one change, one fault, one expiry of either token and of the refresh token | `NothingUnsubscribed`: on a live connection a known device is subscribed or about to be, unless the channel was full; `CredentialsFresh`: no expired token is handed out, also after half a refresh, and where the new one's expiry cannot be read; `SetpointHeals` |
| `discovery_calls` | two Tuya devices that move once each and a managed one, a listener, a channel of one event, one break, death without a word or restart of either side | `NothingMissed`: an open stream that has not lagged ends at the router's records; `CoreLearns`: the stored config comes to have the address for good |
| `fanout_calls` | a caller; three devices: two that know the command, of which one answers Unreachable to every failure, and one that does not; a group of the two, a group of that group, a room with it or with all three devices; members that fail or time out; two edits | `OkMeansDone`: an Ok is the truth about every device below; `EveryMemberTried`, whatever becomes of the caller and the other members; `CallsEnd`, even if no device answers |

Bounds. Names (devices, MACs, tasks) come in the smallest number that lets two
actors meet on one object and, where it matters, a third exist beside them: two
devices compete for a host, two MACs let an answer be the wrong one, two
Tuya devices share a listener. Counters that would grow without end are bounded by
constants named `Max...` (requests, instances, changes, faults, restarts,
abandoned calls, records); each bound allows the event the properties are about,
and every mutant in `PROJECT.json` breaks its property within them. Task ids, connections and uuids are reused
once nothing names them, so their number bounds what exists at one time and not
the length of a behaviour. The bus has room for one or two events, so that it
overflows early; its real capacity is 256.

In `TuyaSession` the sequence counter starts again once no connection is open,
since numbers matter between open connections only, and `MaxSeq` bounds how far
it gets between two such moments. In `MCData` the brightnesses, temperatures and
reads are all there are; the colours are every order of three bytes taken from
both ends, the middle and values between. Frames carry 0, 1 or 16 bytes: below,
at and beyond what a header takes for granted.

`CHECK_DEADLOCK FALSE` appears in the runs of `Registry`, `RouterPool`,
`DeviceStore` and `FanOut`: requests, records and edits are bounded there, so a
behaviour may end for lack of new requests. That nobody waits for ever is a
property of its own (`RequestsEnd`, `HubHeals`, `EventuallyReserved`, `CallsEnd`).
The other runs check for deadlock.

`CronFollowsSaved` and `OneRun` except routines on which two handlers were at
work at once, or that were triggered in the middle of a trigger: the variables
`mixed` and `raced` remember these. `NoLostCron` excepts nothing.
`LiveIsStored` and `HubHeals` except devices on which a handler and another
agent were at work at once, up to the next start, which cures the mixture:
`main` builds every plugin from what is stored. `StoreAgrees` excepts these
and what a stop found half written for good. Without the exceptions each of
them is false: `LiveIsListed` below shows how.
`StoredAreReserved` excepts devices whose reservation an operator changes by
hand, and MACs the hook cannot parse.
`SetpointHeals` and `NothingUnsubscribed` except devices that found the worker's
channel full (`skipped`), and `SetpointHeals` accounts whose refresh token has
expired, since it is never replaced. `NothingMissed` and `CoreLearns` except a
stream that has lagged, or that is gone without the core knowing.
`pool_handlers` has the router's handlers at once, and its properties except exactly
the objects that handlers met on: `ManagedIsOwn` the hosts in `contested`,
`OneRecordPerNative` the ids in `split`, `ManagedIsStable` the records in `shared`,
`NoLeak` these and the ones in `stopped`. The code loses these: without an exception
each property is false on the same instance (`AlwaysOwn`, `AlwaysOneRecord`,
`AlwaysStable` below). Everything else on the router at that moment is covered, and
so is the same object before and after. `EventuallyReserved` holds unless a push is
lost: a push is tried only when the record changed (`discovery.rs:470`), so a lost one
waits for a restart of the router, though the comment at `discovery.rs:472` expects
the device to migrate on its next renewal.
In `registry_calls`, `RequestsEnd` and `KeepsPolling` hold until as many tasks wait for
a shard as there are threads (`Starved`), a deadlock the instance reaches: it is
for ever, since the call that holds the shard has no thread to go on with.
`RegisteredIsSupervised` and `KeepsPolling` except a supervisor that panicked, which
nothing replaces. Without these they are false (`RegisterReturns`, `PollsForever`).

## Fairness

- `Registry`: tokio's run queue gives each task that can be resumed its turn,
  even if a thread is free only from time to time, hence strong fairness of
  resuming; a thread inside a step goes on (weak). Plugin operations end: every
  wait for a Tuya device's reply and every Bond and Mysa request has a time-out,
  and a connection attempt has the system's (only Mysa's login requests rely on
  the server to answer or hang up). A writer waiting for a shard
  has weak fairness only: the lock lets readers pass.
- `StateFlow`: polls are repeated and answered but for `MaxFaults` of them, the
  persist task takes every event. Device changes, commands, restarts and failures
  are never forced.
- `RouterPool`: a handler that runs goes on; devices broadcast periodically, and
  each address they may resolve to is seen again and again; Kea connects after a
  start of the router, since the hook retries.
- `KeaChannel`: tokio's mutex is first come, first served, so a waiting sender or
  announcement gets it (strong fairness on those two); the hook's thread and its
  retries go on (weak). Nothing forces a restart or a dropped future.
- `DeviceStore`: an agent that works goes on (weak). The periodic sync comes to
  each device of a Bond hub again and again (strong: it needs the hub to answer
  from time to time). The sync of a Mysa account is not repeated and gets none.
- `TuyaSession`: reads, time-outs and the ten minutes of the back-off go on, the
  supervisor polls again, the discovery loop brings the device's version, and a
  device that has not lost a frame answers it (weak).
- `MysaSession`: tasks go on, also one that waits for the session's lock, which
  tokio hands out in order (strong: others come in between); the worker's select
  serves each of its branches (strong); the stored devices are added at start-up;
  a thermostat reports its telemetry on a connection that stays (strong).
- `DiscoveryStream`: tasks that can run do, the loop connects again (weak), and a
  device that broadcasts for ever is heard again and again by each of its
  listeners (strong: a listener may be busy with another).
- `FanOut`: tasks that can run do and timers fire (weak). Neither a device nor its
  plugin is taken to answer.
- `Routines` states fairness (`FairSpec`) for `DeletedGoesQuiet` only, which is
  run by hand.

## Proofs

Proved with TLAPS for all values of the constants that satisfy the modules'
assumptions. The assumptions say that names of different kinds differ (in
`DeviceStore` also that a hub's devices are neither Tuya devices nor groups, in
`TuyaSession` that the tasks are finitely many), that bounds are naturals, that a
bus has room for an event, and in `RouterPool` that the hosts fit an octet: nothing
the code does not give. What a theorem takes for granted beyond them is in its row.

| Theorem | States | Argument |
|---|---|---|
| `RegistryProofs!TypeCorrect`, `CallsArePinned`, `Supervised` | `TypeOK`, `GuardPinsEntry`, `RegisteredIsSupervised` | `IInv` |
| `RegistryProofs!OrphansOnlyFromReplacing` | `OrphansWereReplaced`, whoever registers, blindly or not | `IInv` |
| `CommandProofs!FlowTypeCorrect` | `FlowTypeOK` of `StateFlow` | inductive as it stands |
| `CommandProofs!EchoesKeepKnown` | `EchoKeepsKnown`, for devices with at most one switch | `FlowTypeOK` |
| `RouterPoolProofs!TypeCorrect` | `TypeOK` | `TInv` |
| `RouterPoolProofs!NamedAddressesAreClaimed` | `NamedIsClaimed`, any handlers, restarts and faults | `CInv` |
| `RouterPoolProofs!Owns`, `OneRecord`, `IsStable`, `LeaksNothing` | `ManagedIsOwn`, `OneRecordPerNative`, `ManagedIsStable`, `NoLeak`, any handlers and restarts | `OInv`, `NInv`, `LInv`, `UInv` |
| `RouterPoolProofs!Allocates`, `HoldersStay` | the refinement of `Allocator`, and its `SettledStays`, any handlers and restarts | step by step, from `TInv` |
| `ChannelProofs!TypeCorrect`, `OnlyAbandonedCallsLag`, `CleanAnswersInForce` | `TypeOK`, `AbandonedCallsLag`, `AnswersInForce` of `KeaChannel` | `KeaInv` |
| `ChannelProofs!DiscoveryTypeCorrect` | `DiscoveryTypeOK` of `DiscoveryStream` | `Heeded` |
| `ChannelProofs!NothingIsMissed` | `NothingMissed`, if no Tuya device is in hearing of two listeners | `DInv` |
| `RoutinesProofs!TypeCorrect`, `NoCronLoopIsLost`, `LoopFollowsTree`, `OneExecution` | `TypeOK`, `NoLostCron`, `CronFollowsSaved`, `OneRun` | `IInv` |
| `TuyaSessionProofs!TypeCorrect`, `NumbersAreFresh`, `ErrorsAreSafe`, `RepliesAreRecent` | `TypeOK`, `SeqFresh`, `FailedIsUntouched`, `ReplyIsOfThisCall` | `IInv` |
| `DeviceStoreProofs!TypeCorrect`, `LiveMatchesStore`, `TreesAgree` | `TypeOK`, `LiveIsStored`, `StoreAgrees` | `IInv` |
| `MysaSessionProofs!TypeCorrect`, `NoDeviceIsForgotten`, `NoExpiredCredentials` | `TypeOK`, `NothingUnsubscribed`, `CredentialsFresh` | `IInv`; `Refreshing` for the last |
| `CommandProofs!TypeCorrect`, `OkIsTrue` | `TypeOK` of `FanOut`; `OkMeansDone`, groups within themselves included | `IInv`, and the first task of which it would not be true |
| `CommandProofs!CommandsSurviveDto` | a command that is written as a DTO and read again is the same, whatever its values | by the kind of the command |
| `CommandProofs!BondReadsBack` | `BondShows`: a fan reports the command and keeps its other half, with 3 to 127 speeds | by the action, and `SpeedReadsBack` |
| `TuyaSessionProofs!BrightnessReadsBack`, `ColorTempReadsBack` | a brightness of 0 to 1000, a temperature of 2700 K to 6500 K is read back within 1 + half a step of the device, whatever its range | `RoundsBack` |
| `TuyaSessionProofs!FramesAreCutWhole` | one turn of the read loop takes a frame exactly when its last byte is there, whatever its length | `ParsesWhole` |

*Registry.* Neither pinning nor supervision is inductive alone. `IInv` adds that
the instance of a call in flight exists, that an entry holds an instance of its
own device that was built before (so a new instance is in no entry), and that
the instance between `SpawnSupervisor` and `Link` runs, is in no entry and in no
other task's hands. Then an abort always hits the instance that was taken out. A supervisor lives
(`Lives`) until it is aborted, a panic included: what has to be shown is that nobody
else's deregister ended it. `OrphansWereReplaced` is inductive beside `IInv`: a
deregister takes out the entry whose supervisor it aborts, and the one step that
leaves a running supervisor without its entry is a `Link` over another entry, which
`detached` remembers. It needs nothing of the tasks; that such a `Link` happens is
what `registry_orphan` shows.

*StateFlow.* `TypeOK` contains the one fact a proof needs, that a task has a
state in hand exactly when it is not idle. `Merge` keeps a known field for each
case of what an event may carry; with two switches it does not.

*RouterPool.* `TInv` adds to the types that a handler's draft is ready for its
stage and that indexes name records. `CInv` carries "this address is claimed"
through drafts, records, the list of the start-up sync and the reservations;
claims are never taken back. The other four invariants speak of one object each
and of all handlers, so that they hold next to any number of them. `OInv`: of a host that
is not contested, the records and drafts that name it are its holder's, and those
about to claim it are handlers of one device, its holder's if it has one.
`NInv`: a Tuya id that is not split has one uuid among its records and drafts, which
is the indexed one; before it is indexed a record of it has a handler about to do so.
`LInv`: of a record that is not shared there is one handler that builds it, unless it
has its address already; one that has still to allocate found none, and one about to
write writes the address that is there. `UInv` adds `NoLeak`, which `LInv` carries over a
record's rewrite. A step of a handler leaves the others alone (`Alone`), and
which steps there are is said once (`Works`, `Steps`). The refinement needs `TInv`
only: a passed test is a `Look`, a claim is the `Grant` that follows it, a stop is
`Forget`.

*KeaChannel.* (`KeaInv`) Connections that were not announced yet are empty (`FreshConns`),
and on the shared one without abandoned calls there is nothing, the command of
the call in progress, or its reply, which is true if ok (`OneCall`).
`AbandonedCallsLag` is inductive beside these.

*Routines.* A handler or a loop is always in the middle of one of eleven lists, and
what its job holds fits the operations left: a task it spawned, exactly while that
task is yet to be put into a map (`Programs`). Every handle is in one place, the map
or one agent's hands (`Handles`), and the id of what is saved, loops or is worked on
is given (`Given`), so a new id is nobody's. `CronFollowsSaved` is then a statement
per list (`Progress`): before the loop is stopped, tree and loop agree; between stop
and spawn there is no loop; afterwards only the one in the handler's hands, which
runs the body that was saved. `OneRun` is the same for triggers (`OneTrigger`). The
lists' heads, tails and lengths are lemmas of their own; nothing else looks inside a
list.

*TuyaSession.* `SeqFresh` needs that the numbers in flight are below the counter
(`Fresh`). `FailedIsUntouched` needs that a control is the last frame of its call, is
on a connection only while the call awaits its answer, and that before it is written
the command is not done (`Orderly`). `ReplyIsOfThisCall` needs that what lies unread
on a connection is not older than the call that opened it (`Aged`); a push of the
device may come at any time, an older state never. That the bounds are not exceeded,
and so `TypeOK`, takes two counts of finite sets: the frames the calls in progress
may still write, three for one that has not yet connected (`EnoughNumbers`), and the
commands that have yet to reach the device (`EnoughChanges`).

*DeviceStore.* As in `Routines` an agent is in the middle of a list, here one of
twenty-two (`Programs`). A hub's device has one possible info and one possible
config (`HubValues`; the info may also be the one without capabilities that
`register_managed_device` writes), so it does not matter which of two overlapping
syncs writes last. Of a device that is not in `mixed`, either one handler or the loop is at work,
or syncs only (`Apart`); how far a handler has brought the trees and the plugin is
`Progress`, a sync `SyncProgress`; and when neither a handler nor the loop works on it
the plugin runs as stored, what has a config is listed, and runs or is about to be
registered by a sync (`Settled`). A stop of the daemon drops all agents; `main` then
builds the plugins from the trees, which `Progress` has left such that `Settled`
holds unless the device is in `torn`.

*FanOut.* A task was spawned by the call or by a group's task before it, which got to
its plugin (`Lineage`); an "ok" is about one level: of a device, that the command was
carried out, of a group, that its members answered ok (`Truthful`), of a call, the
same of the tasks it spawned itself (`AnswersHold`). `OkMeansDone` is about all
levels. Suppose a task below an answered call were not ok and none the room skipped:
take the first one, which exists as `<` is well founded on the naturals (`WFMin` of
`WellFoundedInduction`, for the relation as a set). It is not the call's own, so a
group's task before it spawned it; that one is ok, and so was its member.

*MysaSession.* A device a caller works on is known once the caller is past adding it
(`CallsKnown`), and a subscription in the channel is of a known device
(`QueueKnown`). Then, on a connection that lives and whose worker has taken its
snapshot, every known device has its topic, has found the channel full, or has its
subscription in the channel or in the hands of a caller about to send it
(`Covered`). It is stronger than `NothingUnsubscribed` where a caller stands between
the insert and the message, and it is what a snapshot taken in between leaves
true. `CredentialsFresh` needs that one task at a time refreshes, under the write
lock, and that between the two halves it has an id token that has not expired
(`Refreshing`); any other task leaves `ensure_auth` in the step in which it has
looked at both tokens.

*DiscoveryStream.* `NothingMissed` is about the list and the channel together; each
needs an invariant of its own. The last event on a device in the channel is of its
record, unless the listener that wrote the record has yet to send
(`ChangesCurrent`); where the channel has no word on it, the record is still to be
listed, or the last word of the list is of it, or the core has it (`Carried`). A
write of a record that was listed already makes `ChangesCurrent` take over, since
the stream subscribed first. `ListenersWrote`, that the record is what its listener
wrote until it has sent it, is where two listeners of one device would break it: the
one that wrote first may send last, and then the last event is the older.
`MCDiscoveryStream_heard.cfg` shows that; hence the hypothesis `OneListenerEach`,
which `DiscoveryTypeCorrect` does without.

*Conversions.* A value that is scaled to a device's range, rounded and scaled back
is off by no more than half a step of the range, rounded again (`RoundsBack`, from
what integer division is); from 2700 K to 6500 K nothing is clamped on the way. The
Bond theorem is for speeds up to 127, beyond which the product in `SpeedFromBond`
would leave a u8. A frame is parsed from any number of bytes at its beginning
(`ParsesWhole`), by the form of its session; so a turn of the loop neither takes a
byte too many nor stops before a frame's last one.

`NamedIsClaimed`, `DiscoveryTypeOK`, `FlowTypeOK` and the `TypeOK` of
`Registry`, `RouterPool`, `KeaChannel`, `MysaSession` and `FanOut` are in no passing
run; with the config of their module's run they hold, and were checked by hand before
they were proved, as was `Alloc!SettledStays` with that of `pool_handlers`. The
inductive invariants were checked with TLC before they were proved.

Left to TLC:

- all liveness: fairness and ENABLED are beyond the prover here;
- `FramesWhole` for a whole stream: the reads are folded over it, and that a fold
  keeps what one turn keeps takes an induction over the sequence. The turn is proved;
- of `CommandsReadBack` the colours, whose conversion divides by a maximum and a
  difference of the bytes themselves (nonlinear, by six sectors of the hue), and
  the composition of a whole command with the map of each profile. Its numbers, the
  DTOs and the fans are proved; `MCData`'s inputs are exhaustive where a number is all that varies;
- `NothingMissed` for devices heard by several listeners holds in no form: see below.

## What does not hold

`registry_orphan` shows the code disagreeing with a comment, which `findings` in
`PROJECT.json` quotes: register of an id that is registered drops the old entry's
`JoinHandle`, which detaches the old supervisor. It polls for ever.

Others were met on the way. Each is a named property, to be run by hand; TLC finds
the behaviour within seconds. Where the second column names a run's config, the
property takes the place of that config's properties, as an INVARIANT if it is a
state predicate and as a PROPERTY otherwise.

| Property | Config | What happens |
|---|---|---|
| `EchoKeepsKnown` | `MCStateFlow_switches` | of a device with two switches, the echo of one replaces the whole map |
| `EvictedStaysEvicted` | `MCRegistry_calls` | an event of a deregistered device, consumed later, recreates its cache entry |
| `RegisterReturns` | `MCRegistry_calls` | as many registers and deregisters waiting for a shard as there are threads: the call that holds the guard finds no thread to go on with |
| `PollsForever` | `MCRegistry_calls` | a panic in `poll_state` ends the supervisor, and the device stays registered without one |
| `EventTakenOver` | `MCStateFlow_converges` | merge does not copy the mode |
| `WriteBehind` | `MCStateFlow_converges` | the partial state of an echo replaces the full one in sled |
| `OfflineKeepsKnown` | `MCStateFlow_converges` | a failed poll wipes the cached fields |
| `AlwaysOwn` | `MCRouterPool_handlers` | `allocate_ip` tests and claims in two steps; two handlers give one address to two devices |
| `AlwaysOneRecord` | `MCRouterPool_handlers` | two listeners create two records of one new device, or a stop before the index does |
| `AlwaysStable` | `MCRouterPool_handlers` | two handlers backfill the address of one record, and the later write replaces the first one's |
| `AnswerIsReserved` | `MCRouterPool_answer` | a record found by its MAC that lost it to an unresolved broadcast: the answer's reservation carries another MAC |
| `AnswersAreOwn` | `MCKeaChannel_calls` | after a dropped future every later call reads the answer before its own |
| `ReservationsReturn` | `MCKeaChannel_calls` | nothing pushes the reservations again after a restart of Kea alone |
| `OneRunAlways` | `MCRoutines_calls` | two overlapping triggers leave two executions, one of them beyond cancel |
| `RefusedIsNotSaved` | `MCRoutines_calls` | create and put save before the schedule is looked at; the 400 leaves it saved |
| `DeletedIsQuiet` | `MCRoutines_calls` | a cron loop in the middle of a trigger starts a run after delete's cancel |
| `KeyIsKept` | `MCDeviceStore_calls` | a write of a config that was read earlier puts back an older key: register, patch and import each write the whole of their copy |
| `CapsOfProfile` | `MCDeviceStore_calls` | `register_managed_device` writes over the `DeviceInfo` of a device that has a config, and its capabilities are gone |
| `LiveIsListed` | `MCDeviceStore_calls` | an unregister that overlaps a sync leaves a plugin without entries; the sync skips what is registered |
| `LiveHasStoredIp` | `MCDeviceStore_calls` | `sync_device_from_router` stores a new address and does not rebuild the plugin, which goes on connecting to the old one until it is patched or the daemon restarts |
| `OkIsDone` | `MCTuyaSession_calls` | after the frame is written an error or a time-out is an Ok: the device may have refused or lost the command |
| `PollIsWhole` | `MCTuyaSession_calls` | the first data points a poll hears are its answer, a pushed change too, which has a part of the fields only |
| `ModeHeals` | `MCMysaSession_account` | a mode that changed while the connection was down is never heard: telemetry carries the setpoint only |
| `KnownIsSubscribed` | `MCMysaSession_account` | add_device found the worker's channel full; the device has no subscription before the next connection |
| `ConnectedIsFresh` | `MCMysaSession_account` | a cached state outlives the session that is_connected's comment couples it with |
| `AccountHeals` | `MCMysaSession_account` | a refresh token that has expired is tried again for ever; the password is not used again |
| `CoreLearns` | `MCDiscoveryStream_heard` | two listeners hear one device and upsert and send in different orders: the last event is the older |
| `AlwaysLearns` | `MCDiscoveryStream_calls` | a lag is passed over in silence, and a connection that dies without a word is read for ever |
| `NeverBack` | `MCDiscoveryStream_calls` | the list is followed by the events sent while it was read, which may be older than it |
| `ManagedAreSeen` | `MCDiscoveryStream_calls` | register_device sends no event |
| `MacIsKept` | `MCDiscoveryStream_mac` | an unresolved MAC overwrites a known one (`discovery.rs:400`) |
| `RoomOkIsDone` | `MCFanOut_calls` | a room skips members whose plugin answers Unreachable; Bond and Mysa report every failure so |
| `TimedOutIsUndone` | `MCFanOut_calls` | a member reported as timed out carries the command out later |
| `MembersAgree` | `MCFanOut_apart` | two commands at once leave a group's members in different states for good |
| `FanOutIsFinite` | `MCFanOut_itself` | patch_group accepts the group itself as a member: its tasks spawn tasks for ever |
| `CutFanIsOff` | `MCData_inputs` | a report with the speed beside the power that is cut shows the fan running |
| `WhiteCommandsSetMode` | `MCData_inputs` | a brightness or a temperature alone does not set the mode |
| `MalformedIsAnError` | `MCData_inputs` | a length shorter than the trailer makes a slice end before its start |
| `BondPowerShows` | `MCData_inputs` | the power of a fan with a light is read from the light |

These hold and are run by hand as well: `HandlersEnd` (`MCRouterPool_handlers`), `DeletedGoesQuiet` (`MCRoutines_ends`: what
such a cron loop starts comes to an end), `CallsEnd` (`MCKeaChannel_ends`: without
abandoned calls every call ends), and the properties of `fanout_calls` with two
callers at once (`MCFanOut_pairs`, of which `OkMeansDone` is also proved). `HueHalf` and `DenormalizeFromZero` of `DpMap`,
`SpeedInThirds` of `Bond` and `ToDtoImplied` of `CommandDto` are further mutants of
which each violates `CommandsReadBack`.

One disagreement has no state to model: `list_dhcp_reservations`
(`synaptex-router/src/rpc/mod.rs:129-148`) is described as listing the
reservations pushed to Kea and reports each record's observed `ip`, while the
address that is pushed is `managed_ip`. Another is a comment about timing, which
no model here has: the deduplication of broadcasts to one in 30 seconds that
`synaptex-router/src/discovery.rs:25-27` describes is not in the code. The watcher
that publishes a group's state is started by `GroupPlugin::connect`
(`synaptex-core/src/group/mod.rs:109`), which nothing calls, so a group's state is
computed when it is asked for and never announced.

## What is not modelled

- Packet classification in the hook and in `kea.rs`: a pure function of a packet,
  with no promise to compare it with.
- Ciphers, keys and check sums of the Tuya and Mysa protocols, SRP and request
  signing: arithmetic of libraries. `TuyaFrames` has a frame's length and whether
  its check value is right.
- `firewall.rs`, `tls.rs`: external programs run once at start-up.
- REST routing, authentication, conversions and error codes; the command line
  client and the Android application, which make one REST call per action;
  packaging. They keep no state.
- The cloud client: HTTP calls, an input of the import. Of the REST conversions
  `CommandDto` has the commands; the others copy fields.
- Within the modelled components: errors of sled itself, and sled's own window
  before it flushes to disk (in `DeviceStore` losing the last writes is the same
  as an earlier stop; elsewhere a restart keeps every finished write);
  migration of old records; in `DiscoveryStream` active scans and the transport's
  own buffer; in `TuyaSession` the debug tool's raw data points and the name of the
  last version; in `MysaSession` a thermostat's temperature, which travels with the
  setpoint; in `FanOut` the computed state of a group;
  `release_ip`, which has no caller; uuids are numbers
  nothing names any more; an index and the record it names are read in one step,
  and the two index trees written in one.

## Plan

All modules are written, and every state invariant of the runs is proved but the two
of `MCData`, of which the parts named under [proofs](#proofs) are. What is left:

1. Colours: a bound on the error of HSV and back for all bytes, sector by sector.
2. The fold of `TuyaFrames` over the reads, once the prover has induction.
3. Active scans as a second writer of `DiscoveryStream`'s records.

## How to run

    tlc -workers 2 -config MCRegistry_calls.cfg MCRegistry
    tlapm RegistryProofs.tla

and likewise for the others. Every run takes at most about three minutes. The largest
are `routines_calls` (1.9 million states), `pool_handlers` (719,000), `tuya_calls`
(325,000) and `discovery_calls` (284,000), on which liveness takes most of the time.
