---------------------------- MODULE DiscoveryStream ----------------------------
(***************************************************************************)
(* How an address travels from a Tuya device's broadcast to the core's     *)
(* stored config: the router's listen_loop tasks (synaptex-router/         *)
(* discovery.rs), its record of the device, the WatchDiscovery stream      *)
(* (rpc/mod.rs) and the core's run_discovery_loop (router_client.rs).      *)
(*                                                                         *)
(* watch_discovery subscribes to the broadcast channel, then lists the     *)
(* records, and the stream is the list followed by the channel.  A channel *)
(* that overflows drops its oldest entries, and the stream passes over the *)
(* gap in silence.  A record changes before its event is sent: between the *)
(* two the listener talks to Kea, and a stop there loses the event.        *)
(*                                                                         *)
(* Addresses are numbered in the order the device takes them.  The pool of *)
(* managed addresses and records that share a native id are RouterPool's,  *)
(* the writers of the core's configs DeviceStore's.  The transport's own   *)
(* buffer, which only adds room to the channel, and the length of the      *)
(* loop's back-off are left out.                                           *)
(***************************************************************************)
EXTENDS Integers, Sequences

CONSTANTS
  Tuyas,         \* Tuya devices, which broadcast what they are
  Managed,       \* devices without discovery, recorded by register_device
  Loops,         \* listen_loop tasks: one per port and interface
  HeardBy,       \* which listeners a Tuya device's broadcasts reach
  None,          \* the Option is None, or the map has no entry
  Firmwares,     \* the protocol versions a Tuya device may announce
  Capacity,      \* the broadcast channel's capacity; 64 in the code
  MaxMoves,      \* bound: addresses a device takes after its first
  MaxUnresolved, \* bound: times the ARP table has no MAC
  MaxFaults,     \* bound: breaks of the stream, restarts
  MaxSilent      \* bound: breaks of the stream the core does not notice

Devices == Tuyas \cup Managed

ASSUME DiscoveryAssumption ==
  /\ Tuyas \cap Managed = {}
  /\ HeardBy \in [Tuyas -> SUBSET Loops]
  /\ None \notin Firmwares /\ None \notin Int
  /\ Capacity \in Nat \ {0}
  /\ MaxMoves \in Nat /\ MaxUnresolved \in Nat /\ MaxFaults \in Nat /\ MaxSilent \in Nat

VARIABLES
  where,      \* the device's address
  firmware,   \* the version the device announces
  rec,        \* the router's record of the device, or None
  pc, heard,  \* per listener: its position and the sighting it handles
  stream,     \* the stream: absent, being listed, open, broken unnoticed
  unlisted,   \* records list_all has still to read
  initial,    \* the list's part of the stream not yet received
  changes,    \* the receiver's part of the broadcast channel
  lagged,     \* the stream has passed over a gap since it was opened
  cache,      \* the core's router_devices
  hints,      \* the core's version_hints
  config,     \* the stored config's address and protocol_version
  unresolved, faults, silent  \* the bounded events so far

routerVars == <<rec, pc, heard>>
streamVars == <<stream, unlisted, initial, changes, lagged>>
coreVars == <<cache, hints, config>>
bounds == <<unresolved, faults, silent>>
discoveryVars == <<where, firmware, routerVars, streamVars, coreVars, bounds>>

Addresses == 0..MaxMoves
Sightings == [dev : Devices, ip : Addresses, version : Firmwares \cup {None}, mac : BOOLEAN]

DiscoveryTypeOK ==
  /\ where \in [Devices -> Addresses] /\ firmware \in [Tuyas -> Firmwares]
  /\ rec \in [Devices -> Sightings \cup {None}]
  /\ pc \in [Loops -> {"recv", "resolve", "upsert", "send"}]
  /\ heard \in [Loops -> Sightings \cup {None}]
  /\ stream \in {"none", "listing", "open", "dead"}
  /\ unlisted \subseteq Devices
  /\ initial \in Seq(Sightings)
  /\ changes \in Seq(Sightings) /\ Len(changes) <= Capacity
  /\ lagged \in BOOLEAN
  /\ cache \in [Devices -> Sightings \cup {None}]
  /\ hints \in [Tuyas -> Firmwares \cup {None}]
  /\ config \in [Tuyas -> [ip : Addresses, version : Firmwares \cup {None}]]
  /\ unresolved \in 0..MaxUnresolved /\ faults \in 0..MaxFaults /\ silent \in 0..MaxSilent

DiscoveryInit ==
  /\ where = [d \in Devices |-> 0] /\ firmware \in [Tuyas -> Firmwares]
  /\ rec = [d \in Devices |-> None]
  /\ pc = [l \in Loops |-> "recv"] /\ heard = [l \in Loops |-> None]
  /\ stream = "none" /\ unlisted = {} /\ initial = <<>> /\ changes = <<>>
  /\ lagged = FALSE
  /\ cache = [d \in Devices |-> None] /\ hints = [d \in Tuyas |-> None]
  /\ config = [d \in Tuyas |-> [ip |-> 0, version |-> None]]
  /\ unresolved = 0 /\ faults = 0 /\ silent = 0

-----------------------------------------------------------------------------
(* The router.                                                             *)

(* recv_from and parse_broadcast: the broadcast names id, ip and version.  *)
Hear(l, d) ==
  /\ pc[l] = "recv" /\ l \in HeardBy[d]
  /\ heard' = [heard EXCEPT ![l] =
       [dev |-> d, ip |-> where[d], version |-> firmware[d], mac |-> FALSE]]
  /\ pc' = [pc EXCEPT ![l] = "resolve"]
  /\ UNCHANGED <<where, firmware, rec, streamVars, coreVars, bounds>>

(* resolve_mac: the ARP table's entry, after a probe if need be, or "".    *)
ResolveMac(l) ==
  /\ pc[l] = "resolve" /\ pc' = [pc EXCEPT ![l] = "upsert"]
  /\ \E found \in BOOLEAN :
       /\ heard' = [heard EXCEPT ![l].mac = found]
       /\ IF found THEN UNCHANGED unresolved
                   ELSE unresolved < MaxUnresolved /\ unresolved' = unresolved + 1
  /\ UNCHANGED <<where, firmware, rec, streamVars, coreVars, faults, silent>>

(* Mutant of Changed: a device that is known is not looked at again.       *)
ChangedIfNew(d, s) == rec[d] = None

(* upsert's answer: the record is new or differs in any field.             *)
Changed(d, s) == rec[d] # s

(* A record written while list_all runs may lie behind its cursor.         *)
ListMayMeet(d) ==
  unlisted' \in {unlisted} \cup
    (IF stream = "listing" /\ rec[d] = None THEN {unlisted \cup {d}} ELSE {})

(* The sighting replaces the record's ip, mac and version.                 *)
Upsert(l) ==
  LET s == heard[l] IN
  /\ pc[l] = "upsert"
  /\ IF Changed(s.dev, s)
     THEN /\ rec' = [rec EXCEPT ![s.dev] = s]
          /\ pc' = [pc EXCEPT ![l] = "send"]
          /\ ListMayMeet(s.dev) /\ UNCHANGED heard
     ELSE /\ pc' = [pc EXCEPT ![l] = "recv"]
          /\ heard' = [heard EXCEPT ![l] = None]
          /\ UNCHANGED <<rec, unlisted>>
  /\ UNCHANGED <<where, firmware, stream, initial, changes, lagged, coreVars, bounds>>

(* Mutant of Subscribed: watch_discovery subscribes after it has listed.   *)
SubscribedLast == stream = "open"

(* The stream has its receiver: subscribe() comes before list_all().       *)
Subscribed == stream \in {"listing", "open"}

(* A full channel makes room: the receiver lags and skips what it lost.    *)
Enqueue(s) ==
  IF Len(changes) < Capacity
  THEN changes' = Append(changes, s) /\ UNCHANGED lagged
  ELSE changes' = Append(Tail(changes), s) /\ lagged' = TRUE

(* Kea has answered or failed, and the event is sent to whoever listens.   *)
Send(l) ==
  /\ pc[l] = "send"
  /\ pc' = [pc EXCEPT ![l] = "recv"] /\ heard' = [heard EXCEPT ![l] = None]
  /\ IF Subscribed THEN Enqueue(heard[l]) ELSE UNCHANGED <<changes, lagged>>
  /\ UNCHANGED <<where, firmware, rec, stream, unlisted, initial, coreVars, bounds>>

(* register_device writes the record of a managed device; no event.        *)
RegisterDevice(d) ==
  LET s == [dev |-> d, ip |-> where[d], version |-> None, mac |-> TRUE] IN
  /\ rec[d] # s /\ rec' = [rec EXCEPT ![d] = s]
  /\ ListMayMeet(d)
  /\ UNCHANGED <<where, firmware, pc, heard, stream, initial, changes, lagged,
                 coreVars, bounds>>

-----------------------------------------------------------------------------
(* The stream and the core.                                                *)

(* Mutant of Unlisted: a stream that is opened again only has the changes. *)
UnlistedNone == {}

Unlisted == {d \in Devices : rec[d] # None}

(* connect and watch_discovery: the router subscribes, list_all begins.    *)
WatchDiscovery ==
  /\ stream = "none" /\ stream' = "listing" /\ unlisted' = Unlisted
  /\ initial' = <<>> /\ changes' = <<>> /\ lagged' = FALSE
  /\ UNCHANGED <<where, firmware, routerVars, coreVars, bounds>>

(* The iterator of list_all reads each record when it comes to it.         *)
ListRecord ==
  /\ stream = "listing"
  /\ IF unlisted = {}
     THEN stream' = "open" /\ UNCHANGED <<unlisted, initial>>
     ELSE LET d == CHOOSE e \in unlisted : TRUE IN
          /\ initial' = Append(initial, rec[d])
          /\ unlisted' = unlisted \ {d} /\ UNCHANGED stream
  /\ UNCHANGED <<where, firmware, routerVars, changes, lagged, coreVars, bounds>>

(* Mutant of Synced: the address is filled in once, like the version.      *)
SyncedOnce(c, s) ==
  [ip |-> IF c.version = None THEN s.ip ELSE c.ip,
   version |-> IF c.version = None THEN s.version ELSE c.version]

(* sync_device_from_router: the address follows the router, the version    *)
(* is filled in when the config has none.                                  *)
Synced(c, s) ==
  [ip |-> s.ip, version |-> IF c.version = None THEN s.version ELSE c.version]

(* The next event of initial.chain(changes) reaches the core.              *)
Receive ==
  /\ stream = "open" /\ initial \o changes # <<>>
  /\ LET s == Head(initial \o changes) IN
     /\ cache' = [cache EXCEPT ![s.dev] = s]
     /\ IF s.dev \in Tuyas
        THEN /\ hints' = [hints EXCEPT ![s.dev] = s.version]
             /\ config' = [config EXCEPT ![s.dev] = Synced(@, s)]
        ELSE UNCHANGED <<hints, config>>
  /\ IF initial # <<>>
     THEN initial' = Tail(initial) /\ UNCHANGED changes
     ELSE changes' = Tail(changes) /\ UNCHANGED initial
  /\ UNCHANGED <<where, firmware, routerVars, stream, unlisted, lagged, bounds>>

-----------------------------------------------------------------------------
(* The devices' network and the faults.                                    *)

(* A lease is renewed with another address.                                *)
Move(d) ==
  /\ where[d] < MaxMoves /\ where' = [where EXCEPT ![d] = @ + 1]
  /\ UNCHANGED <<firmware, routerVars, streamVars, coreVars, bounds>>

Fault == faults < MaxFaults /\ faults' = faults + 1 /\ UNCHANGED <<unresolved, silent>>

StreamTo(s) ==
  /\ stream' = s /\ unlisted' = {} /\ initial' = <<>> /\ changes' = <<>>
  /\ lagged' = FALSE

(* The connection fails and the core is told: it sleeps and connects anew. *)
StreamBreaks ==
  /\ stream \in {"listing", "open", "dead"} /\ Fault /\ StreamTo("none")
  /\ UNCHANGED <<where, firmware, routerVars, coreVars>>

(* The connection is gone and the core reads on: it sends no keep-alives.  *)
StreamDies ==
  /\ stream = "open" /\ silent < MaxSilent /\ silent' = silent + 1
  /\ StreamTo("dead")
  /\ UNCHANGED <<where, firmware, routerVars, coreVars, unresolved, faults>>

(* The records survive; the listeners and what they were doing do not.     *)
RouterRestarts ==
  /\ Fault
  /\ IF stream = "dead" THEN UNCHANGED streamVars ELSE StreamTo("none")
  /\ pc' = [l \in Loops |-> "recv"] /\ heard' = [l \in Loops |-> None]
  /\ UNCHANGED <<where, firmware, rec, coreVars>>

(* The configs survive; the cache and the hints do not.                    *)
CoreRestarts ==
  /\ Fault /\ StreamTo("none")
  /\ cache' = [d \in Devices |-> None] /\ hints' = [d \in Tuyas |-> None]
  /\ UNCHANGED <<where, firmware, routerVars, config>>

Router ==
  \/ \E l \in Loops :
       \/ \E d \in Tuyas : Hear(l, d)
       \/ ResolveMac(l)
       \/ Upsert(l)
       \/ Send(l)
  \/ \E d \in Managed : RegisterDevice(d)

Core == WatchDiscovery \/ ListRecord \/ Receive

Faulty == StreamBreaks \/ StreamDies \/ RouterRestarts \/ CoreRestarts

DiscoveryNext == Router \/ Core \/ Faulty \/ \E d \in Tuyas : Move(d)

DiscoverySpec == DiscoveryInit /\ [][DiscoveryNext]_discoveryVars

(* Tasks that can run do run, the loop connects again, and a device that   *)
(* broadcasts for ever is heard again and again by each of its listeners.  *)
DiscoveryFairSpec ==
  /\ DiscoverySpec
  /\ WF_discoveryVars(Core)
  /\ \A l \in Loops :
       /\ WF_discoveryVars(ResolveMac(l) \/ Upsert(l) \/ Send(l))
       /\ \A d \in Tuyas : SF_discoveryVars(Hear(l, d))

-----------------------------------------------------------------------------
(* What the stream promises.                                               *)

(* The last word on d in a sequence of sightings is s; there is none.      *)
EndsWith(q, d, s) ==
  \E i \in 1..Len(q) :
    /\ q[i] = s /\ s.dev = d
    /\ \A j \in 1..Len(q) : q[j].dev = d => j <= i
NoWordOn(q, d) == \A i \in 1..Len(q) : q[i].dev # d

(* The last word on d that is under way to the core, or has arrived, is s. *)
LastWordIs(d, s) ==
  \/ EndsWith(initial \o changes, d, s)
  \/ NoWordOn(initial \o changes, d) /\ cache[d] = s

Announcing(d) == \E l \in Loops : pc[l] = "send" /\ heard[l].dev = d

(* An open stream that has not lagged ends at the router's records: what   *)
(* the core will know of a Tuya device once it has read everything is the  *)
(* record, unless a listener is still about to send its change.  This is   *)
(* what subscribing before list_all is for.                                *)
NothingMissed ==
  stream = "open" /\ ~lagged =>
    \A d \in Tuyas : rec[d] = None \/ LastWordIs(d, rec[d]) \/ Announcing(d)

(* Once a device stays where it is, the core's stored config comes to have *)
(* its address for good, through restarts of either side and breaks of the *)
(* stream in any order, unless the last stream has lagged and stays open   *)
(* or is gone and the core does not know.                                  *)
CoreLearns ==
  \A d \in Tuyas : HeardBy[d] # {} =>
    <>[](config[d].ip = where[d]) \/ <>[](lagged \/ stream = "dead")

(* Checked by hand, and violated: with two listeners in hearing of one     *)
(* device, a lag, or a connection that dies unnoticed the address is wrong *)
(* for good.                                                               *)
AlwaysLearns ==
  \A d \in Tuyas : HeardBy[d] # {} => <>[](config[d].ip = where[d])

(* Checked by hand, and violated: the list is followed by the events that  *)
(* were sent while it was read, and these may be older.                    *)
NeverBack == [][\A d \in Tuyas : config'[d].ip >= config[d].ip]_config

(* Checked by hand, and violated: a managed device that is registered      *)
(* while the stream is open is not sent on it.                             *)
ManagedAreSeen ==
  \A d \in Managed : rec[d] # None ~> cache[d] # None

(* Checked by hand, and violated: a sighting without its MAC replaces one  *)
(* that has it, in the record and in what the core will import from.       *)
MacIsKept ==
  [][\A d \in Tuyas : cache[d] # None /\ cache'[d] # None /\ cache[d].mac
       => cache'[d].mac]_cache
=============================================================================
