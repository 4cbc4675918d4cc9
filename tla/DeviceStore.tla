---------------------------- MODULE DeviceStore ----------------------------
(***************************************************************************)
(* How devices and groups are registered in synaptex-core: the sled trees  *)
(* registry and configs (db/mod.rs), the plugins built from them, the REST *)
(* handlers (rest/handlers/devices.rs, groups.rs, pairing.rs, hubs.rs),    *)
(* the hub syncs (bond_sync.rs, mysa_sync.rs), the discovery loop's write  *)
(* (router_client.rs) and the start-up (main.rs).                          *)
(*                                                                         *)
(* Each operation on a tree or on the plugin registry is atomic; nothing   *)
(* makes two of them atomic together.  Handlers, syncs and the loop run on *)
(* a multi-threaded runtime and interleave between any two, and the daemon *)
(* may stop between any two.  An agent is one of them; its todo list is    *)
(* the operations it has left on one device.  A sync or an import goes     *)
(* through its devices one by one; here each device is an agent's job of   *)
(* its own, between which any time may pass.                               *)
(*                                                                         *)
(* Supervisors and the cache are module Registry's.  Errors of the cloud   *)
(* and of the router's RPCs end a handler before its first write; they and *)
(* the errors of sled are left out.  A stop of the daemon may lose the     *)
(* last writes to sled, a suffix of them over all trees: what it leaves is *)
(* what an earlier stop would have left.                                   *)
(***************************************************************************)
EXTENDS Naturals, Sequences

CONSTANTS
  Handlers,   \* REST handlers at work at one time
  Tuyas,      \* ids of Tuya devices
  Bonds,      \* ids of the devices behind a Bond hub
  Mysas,      \* ids of the devices of a Mysa account
  Groups,     \* ids of groups
  Syncs,      \* the tasks that sync the hub's devices
  Loop,       \* the discovery loop
  Profiles,   \* dp_profile of a Tuya device, the members of a group
  NoCaps,     \* the capabilities of a managed device
  Ips,        \* addresses of Tuya devices
  None,       \* no entry, no plugin
  NoJob,
  MaxChanges,  \* bound: changes of a device's name or key in the cloud
  MaxRequests, \* bound: requests that write
  MaxCrashes   \* bound: restarts of the daemon

HubDevices == Bonds \cup Mysas
Devices == Tuyas \cup HubDevices \cup Groups
Agents == Handlers \cup Syncs \cup {Loop}
Versions == 0..MaxChanges

(* What Tuya's cloud says of the devices.                                  *)
Cloud == [name : Versions, key : Versions]

(* DeviceInfo and PluginConfig; hub devices have the same ones always.     *)
Info == [name : Versions, caps : Profiles \cup {NoCaps}]
Config == [key : Versions, profile : Profiles, ip : Ips]

Ops == {"load", "members", "rename", "reload", "known", "check",
        "putInfo", "putConfig", "removeInfo", "removeConfig", "deregister", "register"}
Job == [id : Devices, info : Info \cup {None}, config : Config \cup {None}, cloud : Cloud]

ASSUME DeviceStoreAssumption ==
  /\ Profiles # {} /\ Ips # {} /\ NoCaps \notin Profiles
  /\ None \notin Info \cup Config /\ NoJob \notin Job
  /\ Handlers \cap Syncs = {} /\ Loop \notin Handlers \cup Syncs
  /\ HubDevices \cap (Tuyas \cup Groups) = {}
  /\ MaxChanges \in Nat /\ MaxRequests \in Nat /\ MaxCrashes \in Nat

VARIABLES
  infos,    \* tree registry: device id -> DeviceInfo
  configs,  \* tree configs: device id -> PluginConfig
  live,     \* the config the registered plugin was built from
  hubs,     \* the kinds of hub that are registered (tree config)
  syncing,  \* the Bond sync tasks that were spawned
  due,      \* the Mysa devices the sync of the account has still to come to
  cloud,    \* the name and key of the Tuya devices in the cloud
  todo,     \* todo[a]: the operations agent a has left
  job,      \* job[a]: the device it works on, and what it has read
  requests, crashes,
  mixed,    \* history: devices a handler and another agent worked on at once
            \* since the daemon started
  torn      \* history: devices an agent worked on when the daemon stopped,
            \* and those that were mixed
vars == <<infos, configs, live, hubs, syncing, due, cloud, todo, job, requests,
          crashes, mixed, torn>>
store == <<infos, configs, live>>
history == <<crashes, mixed, torn>>
tasks == <<hubs, syncing, due>>
others == <<tasks, cloud, requests, history>>

(* Every variable keeps its type.                                          *)
TypeOK ==
  /\ infos \in [Devices -> Info \cup {None}]
  /\ configs \in [Devices -> Config \cup {None}]
  /\ live \in [Devices -> Config \cup {None}]
  /\ hubs \subseteq {"bond", "mysa"} /\ syncing \subseteq Syncs /\ due \subseteq Mysas
  /\ cloud \in Cloud
  /\ todo \in [Agents -> Seq(Ops)]
  /\ job \in [Agents -> Job \cup {NoJob}]
  /\ requests \in 0..MaxRequests /\ crashes \in 0..MaxCrashes
  /\ mixed \subseteq Devices /\ torn \subseteq Devices

Init ==
  /\ infos = [d \in Devices |-> None] /\ configs = infos /\ live = infos
  /\ hubs = {} /\ syncing = {} /\ due = {} /\ cloud = [name |-> 0, key |-> 0]
  /\ todo = [a \in Agents |-> <<>>] /\ job = [a \in Agents |-> NoJob]
  /\ requests = 0 /\ crashes = 0 /\ mixed = {} /\ torn = {}

Busy(a) == todo[a] # <<>>
AtWorkOn(d) == \E a \in Agents : Busy(a) /\ job[a].id = d
AnyConfig == [key |-> 0, profile |-> CHOOSE p \in Profiles : TRUE, ip |-> CHOOSE i \in Ips : TRUE]
AnyInfo == [name |-> 0, caps |-> AnyConfig.profile]

-----------------------------------------------------------------------------
(* The operations.                                                         *)

Does(a, op) == Busy(a) /\ Head(todo[a]) = op

(* Agent a has done one; rest is what it has left.                         *)
Left(a, rest) ==
  /\ todo' = [todo EXCEPT ![a] = rest]
  /\ job' = IF rest = <<>> THEN [job EXCEPT ![a] = NoJob] ELSE job
  /\ UNCHANGED others

(* It has read something, too: j is its job now.                           *)
LeftWith(a, rest, j) ==
  /\ todo' = [todo EXCEPT ![a] = rest]
  /\ job' = [job EXCEPT ![a] = IF rest = <<>> THEN NoJob ELSE j]
  /\ UNCHANGED <<store, others>>

(* The operations that store a device and start its plugin, or start it    *)
(* anew.                                                                   *)
New == <<"putInfo", "putConfig", "register">>
Replace == <<"putInfo", "putConfig", "deregister", "register">>

(* Mutant of Load: the capabilities stay.                                  *)
LoadOnly(a) ==
  /\ Does(a, "load")
  /\ LeftWith(a, IF infos[job[a].id] = None THEN <<>> ELSE Tail(todo[a]),
              [job[a] EXCEPT !.info = infos[job[a].id]])

(* patch_device reads the DeviceInfo, or answers 404.                      *)
Load(a) ==
  /\ Does(a, "load")
  /\ LET j == job[a] IN
       LeftWith(a, IF infos[j.id] = None THEN <<>> ELSE Tail(todo[a]),
                [j EXCEPT !.info = [infos[j.id] EXCEPT !.caps = j.config.profile]])

(* patch_group without members keeps those of the config, or answers 404.  *)
Members(a) ==
  /\ Does(a, "members")
  /\ LET j == job[a] IN
       LeftWith(a, IF configs[j.id] = None THEN <<>> ELSE Tail(todo[a]),
                [j EXCEPT !.config = configs[j.id]])

(* The import compares the name with the cloud's, then the key it read     *)
(* before with the cloud's.                                                *)
Rename(a) ==
  /\ Does(a, "rename")
  /\ LET j       == job[a]
         renames == infos[j.id] # None /\ infos[j.id].name # j.cloud.name
         rekeys  == j.config.key # j.cloud.key
     IN LeftWith(a, (IF renames THEN <<"putInfo">> ELSE <<>>) \o
                    (IF rekeys THEN <<"putConfig", "reload", "deregister", "register">>
                     ELSE <<>>),
                 [j EXCEPT !.config.key = j.cloud.key,
                           !.info = IF renames
                                    THEN [infos[j.id] EXCEPT !.name = j.cloud.name]
                                    ELSE None])

(* The import rebuilds the plugin of a device that is still listed.        *)
Reload(a) ==
  /\ Does(a, "reload")
  /\ LeftWith(a, IF infos[job[a].id] = None THEN <<>> ELSE Tail(todo[a]), job[a])

(* Mutant of Known: a device that is listed needs nothing.                 *)
KnownSkips(a) ==
  /\ Does(a, "known")
  /\ LeftWith(a, IF infos[job[a].id] = None THEN Tail(todo[a]) ELSE <<>>, job[a])

(* A sync writes the DeviceInfo of what is new to sled only.               *)
Known(a) ==
  /\ Does(a, "known")
  /\ LET rest   == Tail(todo[a])
         listed == (IF Head(rest) = "check" THEN <<"check">> ELSE <<>>) \o Tail(New)
     IN LeftWith(a, IF infos[job[a].id] = None THEN rest ELSE listed, job[a])

(* A sync leaves a registered device alone.                                *)
Check(a) ==
  /\ Does(a, "check")
  /\ LeftWith(a, IF live[job[a].id] = None THEN Tail(todo[a]) ELSE <<>>, job[a])

PutInfo(a) ==
  /\ Does(a, "putInfo")
  /\ infos' = [infos EXCEPT ![job[a].id] = job[a].info]
  /\ Left(a, Tail(todo[a]))
  /\ UNCHANGED <<configs, live>>

(* Mutant of PutConfig: the entry of the other tree.                       *)
PutConfigInfo(a) ==
  /\ Does(a, "putConfig")
  /\ configs' = [configs EXCEPT ![job[a].id] = job[a].info]
  /\ Left(a, Tail(todo[a]))
  /\ UNCHANGED <<infos, live>>

PutConfig(a) ==
  /\ Does(a, "putConfig")
  /\ configs' = [configs EXCEPT ![job[a].id] = job[a].config]
  /\ Left(a, Tail(todo[a]))
  /\ UNCHANGED <<infos, live>>

RemoveInfo(a) ==
  /\ Does(a, "removeInfo")
  /\ infos' = [infos EXCEPT ![job[a].id] = None]
  /\ Left(a, Tail(todo[a]))
  /\ UNCHANGED <<configs, live>>

RemoveConfig(a) ==
  /\ Does(a, "removeConfig")
  /\ configs' = [configs EXCEPT ![job[a].id] = None]
  /\ Left(a, Tail(todo[a]))
  /\ UNCHANGED <<infos, live>>

Deregister(a) ==
  /\ Does(a, "deregister")
  /\ live' = [live EXCEPT ![job[a].id] = None]
  /\ Left(a, Tail(todo[a]))
  /\ UNCHANGED <<infos, configs>>

Register(a) ==
  /\ Does(a, "register")
  /\ live' = [live EXCEPT ![job[a].id] = job[a].config]
  /\ Left(a, Tail(todo[a]))
  /\ UNCHANGED <<infos, configs>>

Operate(a) ==
  \/ Load(a) \/ Members(a) \/ Rename(a) \/ Reload(a) \/ Known(a) \/ Check(a)
  \/ PutInfo(a) \/ PutConfig(a) \/ RemoveInfo(a) \/ RemoveConfig(a)
  \/ Deregister(a) \/ Register(a)

-----------------------------------------------------------------------------
(* Requests, syncs and the discovery loop: what an agent takes up.         *)

Meets(a, b, d) == Busy(b) /\ job[b].id = d /\ (a \notin Syncs \/ b \notin Syncs)

Begin(a, d, info, config, program) ==
  /\ ~Busy(a)
  /\ todo' = [todo EXCEPT ![a] = program]
  /\ job' = [job EXCEPT ![a] = [id |-> d, info |-> info, config |-> config, cloud |-> cloud]]
  /\ mixed' = IF \E b \in Agents : Meets(a, b, d) THEN mixed \cup {d} ELSE mixed
  /\ UNCHANGED <<store, hubs, syncing, cloud, crashes, torn>>

Request(h) ==
  /\ h \in Handlers
  /\ requests < MaxRequests /\ requests' = requests + 1
  /\ UNCHANGED due

(* register_device, and register_device_into_state for an imported device  *)
(* that has no config: the name and the key are the cloud's.               *)
RegisterDevice(h, d, p, i) ==
  /\ Request(h) /\ d \in Tuyas
  /\ Begin(h, d, [name |-> cloud.name, caps |-> p],
           [key |-> cloud.key, profile |-> p, ip |-> i], New)

(* patch_device: a new dp_profile, in a copy of the config.               *)
PatchDevice(h, d, p) ==
  /\ Request(h) /\ d \in Tuyas /\ configs[d] # None
  /\ Begin(h, d, None, [configs[d] EXCEPT !.profile = p], <<"load">> \o Replace)

(* import_cloud_devices, for a device that has a config.                   *)
Import(h, d) ==
  /\ Request(h) /\ d \in Tuyas /\ configs[d] # None
  /\ Begin(h, d, None, configs[d], <<"rename">>)

(* unregister_device and delete_group: any id will do.                     *)
Unregister(h, d) ==
  /\ Request(h)
  /\ Begin(h, d, None, None, <<"deregister", "removeInfo", "removeConfig">>)

(* register_managed_device: a DeviceInfo without capabilities and no       *)
(* config.  It takes any MAC and looks at nothing that is stored, so that  *)
(* it also writes over the DeviceInfo of a device that has a config.       *)
ManagedInfo == [name |-> 0, caps |-> NoCaps]
RegisterManaged(h, d) ==
  /\ Request(h)
  /\ Begin(h, d, ManagedInfo, None, <<"putInfo">>)

(* create_group; the id is a new one.                                      *)
CreateGroup(h, g, p) ==
  /\ Request(h) /\ g \in Groups
  /\ ~AtWorkOn(g) /\ infos[g] = None /\ configs[g] = None /\ live[g] = None
  /\ Begin(h, g, [name |-> 0, caps |-> p], [AnyConfig EXCEPT !.profile = p], New)

(* patch_group, with members and without.                                  *)
PatchGroup(h, g, p) ==
  /\ Request(h) /\ g \in Groups /\ infos[g] # None
  /\ Begin(h, g, [infos[g] EXCEPT !.caps = p], [AnyConfig EXCEPT !.profile = p], Replace)

RenameGroup(h, g) ==
  /\ Request(h) /\ g \in Groups /\ infos[g] # None
  /\ Begin(h, g, infos[g], None, <<"members">> \o Replace)

(* register_hub saves the hub and spawns a task that syncs it, again and   *)
(* again; register_mysa_hub one that syncs the account once.               *)
RegisterHub ==
  /\ requests < MaxRequests /\ requests' = requests + 1
  /\ hubs' = hubs \cup {"bond"}
  /\ \E s \in Syncs \ syncing : syncing' = syncing \cup {s}
  /\ UNCHANGED <<store, due, cloud, todo, job, history>>

RegisterMysaHub ==
  /\ requests < MaxRequests /\ requests' = requests + 1
  /\ hubs' = hubs \cup {"mysa"} /\ due' = Mysas
  /\ UNCHANGED <<store, syncing, cloud, todo, job, history>>

(* sync_hub has the list of the hub's devices and comes to device d.       *)
SyncHub(s, d) ==
  /\ s \in syncing /\ d \in Bonds
  /\ Begin(s, d, AnyInfo, AnyConfig, <<"known", "check">> \o New)
  /\ UNCHANGED <<due, requests>>

(* sync_account has the list of the account's devices and comes to d.      *)
SyncAccount(s, d) ==
  /\ s \in Syncs /\ d \in due /\ due' = due \ {d}
  /\ Begin(s, d, AnyInfo, AnyConfig, <<"check", "known">> \o New)
  /\ UNCHANGED requests

(* sync_device_from_router: the router has seen device d under address i.  *)
SyncFromRouter(d, i) ==
  /\ d \in Tuyas /\ configs[d] # None /\ configs[d].ip # i
  /\ Begin(Loop, d, None, [configs[d] EXCEPT !.ip = i], <<"putConfig">>)
  /\ UNCHANGED <<due, requests>>

(* A device is renamed in the cloud, or paired anew.                       *)
CloudChanges ==
  /\ cloud.name + cloud.key < MaxChanges
  /\ \E f \in {"name", "key"} : cloud' = [cloud EXCEPT ![f] = @ + 1]
  /\ UNCHANGED <<store, tasks, todo, job, requests, history>>

(* Mutant of Started: main starts whatever has a config.                   *)
StartedAnyway(d) == configs[d]

(* What main starts: a device with a config and a DeviceInfo.              *)
Started(d) == IF infos[d] = None THEN None ELSE configs[d]

(* The daemon stops and starts again, with a sync of what is registered.   *)
Restart ==
  /\ crashes < MaxCrashes /\ crashes' = crashes + 1
  /\ live' = [d \in Devices |-> Started(d)]
  /\ IF "bond" \in hubs THEN \E s \in Syncs : syncing' = {s} ELSE syncing' = {}
  /\ due' = IF "mysa" \in hubs THEN Mysas ELSE {}
  /\ torn' = torn \cup mixed \cup {d \in Devices : AtWorkOn(d)} /\ mixed' = {}
  /\ todo' = [a \in Agents |-> <<>>] /\ job' = [a \in Agents |-> NoJob]
  /\ UNCHANGED <<infos, configs, hubs, cloud, requests>>

Next ==
  \/ \E h \in Handlers, d \in Devices :
       \/ \E p \in Profiles, i \in Ips : RegisterDevice(h, d, p, i)
       \/ \E p \in Profiles : PatchDevice(h, d, p) \/ CreateGroup(h, d, p) \/ PatchGroup(h, d, p)
       \/ Import(h, d) \/ Unregister(h, d) \/ RegisterManaged(h, d) \/ RenameGroup(h, d)
  \/ RegisterHub \/ RegisterMysaHub
  \/ \E s \in Syncs, d \in HubDevices : SyncHub(s, d) \/ SyncAccount(s, d)
  \/ \E d \in Tuyas, i \in Ips : SyncFromRouter(d, i)
  \/ \E a \in Agents : Operate(a)
  \/ CloudChanges
  \/ Restart

Spec == Init /\ [][Next]_vars

(* An agent that works goes on; the sync of a Bond hub is repeated for     *)
(* ever and comes to each of its devices again.                            *)
Fairness ==
  /\ \A a \in Agents : WF_vars(Operate(a))
  /\ \A d \in Bonds : SF_vars(\E s \in Syncs : SyncHub(s, d))

FairSpec == Spec /\ Fairness

-----------------------------------------------------------------------------
(* Properties.                                                             *)

(* A plugin runs with what is stored: unless a handler and another agent   *)
(* worked on a device at once since the daemon started, a device with a    *)
(* plugin has both entries and the plugin was built from the stored key    *)
(* and profile; also after a stop in the middle of anything, and whatever  *)
(* mixture it left (devices.rs, pairing.rs, main.rs:87-167).               *)
LiveIsStored ==
  \A d \in Devices \ mixed : ~AtWorkOn(d) /\ live[d] # None =>
    /\ infos[d] # None /\ configs[d] # None
    /\ live[d].key = configs[d].key /\ live[d].profile = configs[d].profile

(* Unless the daemon stopped in the middle, the trees agree with each      *)
(* other and with the plugins: what has a config runs and is listed, with  *)
(* the capabilities of its profile or members, or with none since          *)
(* register_managed_device (devices.rs:397-406).                           *)
StoreAgrees ==
  \A d \in Devices \ (mixed \cup torn) : ~AtWorkOn(d) /\ configs[d] # None =>
    /\ live[d] # None /\ infos[d] # None
    /\ infos[d].caps \in {configs[d].profile, NoCaps}

(* A sync that was cut short is made up for: wherever the daemon stopped,  *)
(* the devices of a registered Bond hub come to be listed, stored and      *)
(* running, and stay so once nobody unregisters them (bond_sync.rs:66-68). *)
Complete(d) == infos[d] # None /\ configs[d] # None /\ live[d] # None
HubHeals ==
  \A d \in Bonds : <>[](d \notin mixed) => <>[]("bond" \in hubs => Complete(d))

(* The next ones do not hold; no run lists them.                           *)

(* A key the import stored is not undone by a write of an older one.       *)
KeyIsKept ==
  [][\A d \in Tuyas : configs[d] # None /\ configs'[d] # None =>
       configs'[d].key >= configs[d].key]_vars

(* What has a config is listed with the capabilities of its profile.       *)
CapsOfProfile ==
  \A d \in Devices \ (mixed \cup torn) : ~AtWorkOn(d) /\ configs[d] # None =>
    infos[d].caps = configs[d].profile

(* A device that runs is listed.                                           *)
LiveIsListed == \A d \in Devices : ~AtWorkOn(d) /\ live[d] # None => infos[d] # None

(* A plugin connects to the address that is stored.                        *)
LiveHasStoredIp ==
  \A d \in Tuyas : ~AtWorkOn(d) /\ live[d] # None /\ configs[d] # None =>
    live[d].ip = configs[d].ip
=============================================================================
