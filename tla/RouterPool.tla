----------------------------- MODULE RouterPool -----------------------------
(***************************************************************************)
(* The device records of synaptex-router and its pool of managed           *)
(* addresses: RouterDb (db.rs), the discovery listeners (discovery.rs),    *)
(* the register_device RPC (rpc/mod.rs) and the reservations they push to  *)
(* the DHCP server (dhcp.rs).                                              *)
(*                                                                         *)
(* Each handler is a tokio task; every operation on a sled tree is atomic  *)
(* and nothing makes several of them atomic together, so handlers of the   *)
(* listeners (one per port and interface) and of RPCs interleave between   *)
(* any two.  Reading an index and the record it names is one step here,    *)
(* and so is writing the two index trees.                                  *)
(*                                                                         *)
(* What handlers do to one host, one tuya_id or one record at once is kept *)
(* in history variables, which the properties except.                      *)
(*                                                                         *)
(* A record's uuid is a number that nothing names yet.  The observed ip and *)
(* the protocol version only decide whether a record changed; the MAC      *)
(* stands for them.  The event a listener sends last is not modelled here. *)
(***************************************************************************)
EXTENDS Naturals, FiniteSets

CONSTANTS
  Listeners,   \* tasks running listen_loop, two or more
  Callers,     \* tasks serving register_device
  Natives,     \* Tuya ids
  MacsOf,      \* MacsOf[n]: what resolve_mac may report for device n
  RegMacs,     \* the MACs register_device is called with
  Pins,        \* the hosts it is asked to reserve; NoHost for any
  NoMac,       \* no ARP entry: the empty MAC
  NoNative,    \* the record is not of kind Tuya
  NoRecord,    \* no device record
  OldDbs,      \* the trees devices an older version may have left
  FirstHost, LastHost,  \* managed_host_start, managed_host_end
  MaxRecords,  \* bound: uuids in use
  MaxFaults,   \* bound: reservations that do not reach the DHCP server
  MaxRestarts  \* bound: restarts of the router

Handlers == Listeners \cup Callers
Hosts == FirstHost..LastHost
Ids == 1..MaxRecords
NoId == 0
NoHost == 0
Macs == (UNION {MacsOf[n] : n \in Natives}) \cup RegMacs \cup {NoMac}
Records == [mac : Macs, native : Natives \cup {NoNative}, managed : Hosts \cup {NoHost}]
Dbs == [Ids -> Records \cup {NoRecord}]

(* Records from before addresses were managed have none.                   *)
IsOld(db) ==
  /\ db \in Dbs
  /\ \A i \in Ids : db[i] # NoRecord => db[i].managed = NoHost
  /\ \A i, j \in {i \in Ids : db[i] # NoRecord} :
       db[i].native = db[j].native /\ db[i].native # NoNative => i = j

ASSUME RouterPoolAssumption ==
  /\ FirstHost \in Nat \ {0} /\ LastHost \in Nat /\ FirstHost <= LastHost
  /\ LastHost < 256
  /\ DOMAIN MacsOf = Natives /\ NoMac \notin RegMacs
  /\ Pins \subseteq Hosts \cup {NoHost}
  /\ NoNative \notin Natives /\ NoRecord \notin Records
  /\ \A db \in OldDbs : IsOld(db)
  /\ MaxRecords \in Nat /\ MaxFaults \in Nat /\ MaxRestarts \in Nat

VARIABLES
  devices,    \* device id -> record
  byMac,      \* mac_to_id
  byNative,   \* native_to_id
  allocated,  \* allocated_ips: host -> device id
  kea,        \* the DHCP server's reservations: MAC -> host
  pc,         \* pc[a]: where handler a is
  job,        \* job[a]: the broadcast or the request it handles
  id, rec,    \* the device_id and the RouterDevice it is building
  host,       \* the host octet allocate_ip or reserve_ip looks at
  connected,  \* the DHCP server has connected since the start
  sync,       \* records sync_from_db has still to push
  faults, restarts,
  contested,  \* history: hosts handlers of two devices had found free at once
  split,      \* history: tuya_ids two handlers made a record for at once, or
              \* whose record the router stopped before it was indexed
  shared,     \* history: records without an address that two handlers
              \* worked on at once
  stopped     \* history: records not written yet with a claimed host at a stop

trees == <<devices, byMac, byNative, allocated>>
local == <<pc, job, id, rec, host>>
system == <<connected, sync, faults, restarts>>
history == <<contested, split, shared, stopped>>
others == <<system, history>>
vars == <<trees, kea, local, others>>

NoJob == [native |-> NoNative, mac |-> NoMac, want |-> NoHost]
Jobs == [native : Natives \cup {NoNative}, mac : Macs, want : Pins \cup {NoHost}]
Stages == {"idle", "lookup", "scan", "check", "claim", "upsert", "index", "push"}

TypeOK ==
  /\ devices \in Dbs
  /\ byMac \in [Macs -> Ids \cup {NoId}]
  /\ byNative \in [Natives -> Ids \cup {NoId}]
  /\ allocated \in [Hosts -> Ids \cup {NoId}]
  /\ kea \in [Macs -> Hosts \cup {NoHost}]
  /\ pc \in [Handlers -> Stages]
  /\ job \in [Handlers -> Jobs]
  /\ id \in [Handlers -> Ids \cup {NoId}]
  /\ rec \in [Handlers -> Records \cup {NoRecord}]
  /\ host \in [Handlers -> Hosts]
  /\ connected \in BOOLEAN /\ sync \subseteq Records
  /\ faults \in 0..MaxFaults
  /\ restarts \in 0..MaxRestarts
  /\ contested \subseteq Hosts /\ split \subseteq Natives
  /\ shared \subseteq Ids /\ stopped \subseteq Ids

(* The id of one of the records, if there is any.                          *)
OneOf(ids) == IF ids = {} THEN NoId ELSE CHOOSE i \in ids : TRUE

Known == {i \in Ids : devices[i] # NoRecord}

Init ==
  /\ devices \in OldDbs
  /\ byMac = [m \in Macs |-> OneOf({i \in Known : devices[i].mac = m /\ m # NoMac})]
  /\ byNative = [n \in Natives |-> OneOf({i \in Known : devices[i].native = n})]
  /\ allocated = [h \in Hosts |-> NoId]
  /\ kea = [m \in Macs |-> NoHost]
  /\ pc = [a \in Handlers |-> "idle"]
  /\ job = [a \in Handlers |-> NoJob]
  /\ id = [a \in Handlers |-> NoId]
  /\ rec = [a \in Handlers |-> NoRecord]
  /\ host = [a \in Handlers |-> FirstHost]
  /\ connected = FALSE /\ sync = {} /\ faults = 0 /\ restarts = 0
  /\ contested = {} /\ split = {} /\ shared = {} /\ stopped = {}

Go(a, stage) == pc' = [pc EXCEPT ![a] = stage]

(* The handler goes on with the record it has; a scan is over.             *)
Goto(a, stage) ==
  /\ Go(a, stage)
  /\ host' = [host EXCEPT ![a] = FirstHost]
  /\ UNCHANGED <<trees, kea, job, id, rec, others>>

(* The handler returns; its local variables are gone.                      *)
Return(a) ==
  /\ Go(a, "idle")
  /\ job' = [job EXCEPT ![a] = NoJob]
  /\ id' = [id EXCEPT ![a] = NoId]
  /\ rec' = [rec EXCEPT ![a] = NoRecord]
  /\ host' = [host EXCEPT ![a] = FirstHost]
  /\ UNCHANGED <<trees, connected, sync, restarts, history>>

-----------------------------------------------------------------------------
(* A handler finds or makes the record.                                    *)

(* Uuids no tree and no handler has.                                       *)
Unused ==
  {i \in Ids : /\ devices[i] = NoRecord
               /\ \A h \in Hosts : allocated[h] # i
               /\ \A a \in Handlers : id[a] # i}

(* The record the indexes lead to: by tuya_id for a listener, by MAC for   *)
(* register_device.                                                        *)
Entry(j) == IF j.native # NoNative THEN byNative[j.native] ELSE byMac[j.mac]

(* A uuid is left for each handler that may need one.                      *)
Begin(a, j) ==
  /\ pc[a] = "idle"
  /\ \/ Entry(j) # NoId
     \/ Cardinality({b \in Handlers : pc[b] = "lookup"}) < Cardinality(Unused)
  /\ job' = [job EXCEPT ![a] = j]
  /\ Go(a, "lookup")
  /\ UNCHANGED <<trees, kea, id, rec, host, others>>

(* A broadcast of device n, whose address resolves to m.                   *)
Heard(l, n, m) == Begin(l, [native |-> n, mac |-> m, want |-> NoHost])

(* A register_device call, pinned to a host or not.                        *)
Register(c, m, h) == Begin(c, [native |-> NoNative, mac |-> m, want |-> h])

FromListener(a) == job[a].native # NoNative
Index(a) == Entry(job[a])

(* A handler has read its record, or made one, and not written it yet.     *)
Building(a) == pc[a] \in {"scan", "check", "claim", "upsert"}

(* Another handler is about to give record i its address.                  *)
Shares(a, i) ==
  devices[i].managed = NoHost /\ \E b \in Handlers \ {a} : Building(b) /\ id[b] = i

AllocStage(a) == IF job[a].want = NoHost THEN "scan" ELSE "check"

(* Mutant of Refreshed: the record is made of what was heard alone.        *)
RefreshedAlone(a, r) == [mac |-> job[a].mac, native |-> job[a].native, managed |-> NoHost]

(* The record a handler makes of the one it found: discovery sets the MAC, *)
(* registration the kind.                                                  *)
Refreshed(a, r) ==
  IF FromListener(a) THEN [r EXCEPT !.mac = job[a].mac]
  ELSE [r EXCEPT !.native = NoNative]

(* Mutant of FindRecord: the managed address is allocated anew each time.  *)
FindRecordAnew(a) ==
  /\ pc[a] = "lookup" /\ Index(a) # NoId
  /\ id' = [id EXCEPT ![a] = Index(a)]
  /\ rec' = [rec EXCEPT ![a] = Refreshed(a, devices[Index(a)])]
  /\ Go(a, AllocStage(a))
  /\ host' = [host EXCEPT ![a] = FirstHost]
  /\ shared' = IF Shares(a, Index(a)) THEN shared \cup {Index(a)} ELSE shared
  /\ UNCHANGED <<trees, kea, job, system, contested, split, stopped>>

FindRecord(a) ==
  /\ pc[a] = "lookup" /\ Index(a) # NoId
  /\ id' = [id EXCEPT ![a] = Index(a)]
  /\ rec' = [rec EXCEPT ![a] = Refreshed(a, devices[Index(a)])]
  /\ Go(a, IF devices[Index(a)].managed = NoHost THEN AllocStage(a) ELSE "upsert")
  /\ host' = [host EXCEPT ![a] = FirstHost]
  /\ shared' = IF Shares(a, Index(a)) THEN shared \cup {Index(a)} ELSE shared
  /\ UNCHANGED <<trees, kea, job, system, contested, split, stopped>>

(* Another handler is making a record of tuya_id n.                        *)
Doubles(a, n) == \E b \in Handlers \ {a} : pc[b] \notin {"idle", "lookup"} /\ rec[b].native = n

NewRecord(a) ==
  /\ pc[a] = "lookup" /\ Index(a) = NoId
  /\ Unused # {}
  /\ id' = [id EXCEPT ![a] = CHOOSE i \in Unused : TRUE]
  /\ rec' = [rec EXCEPT ![a] =
               [mac |-> job[a].mac, native |-> job[a].native, managed |-> NoHost]]
  /\ Go(a, AllocStage(a))
  /\ host' = [host EXCEPT ![a] = FirstHost]
  /\ split' = IF FromListener(a) /\ Doubles(a, job[a].native)
              THEN split \cup {job[a].native} ELSE split
  /\ UNCHANGED <<trees, kea, job, system, contested, shared, stopped>>

-----------------------------------------------------------------------------
(* allocate_ip and reserve_ip.                                             *)

(* allocate_ip passes over a host that is taken.                           *)
ScanTaken(a) ==
  /\ pc[a] = "scan" /\ allocated[host[a]] # NoId
  /\ host[a] < LastHost
  /\ host' = [host EXCEPT ![a] = @ + 1]
  /\ UNCHANGED <<trees, kea, pc, job, id, rec, others>>

(* The handler of another device has found host h free as well, and has    *)
(* not claimed it yet.                                                     *)
Contends(a, h) ==
  \E b \in Handlers \ {a} : pc[b] = "claim" /\ host[b] = h /\ id[b] # id[a]

(* The host passes handler a's test.                                       *)
Passes(a, h) ==
  /\ Go(a, "claim")
  /\ host' = [host EXCEPT ![a] = h]
  /\ contested' = IF Contends(a, h) THEN contested \cup {h} ELSE contested
  /\ UNCHANGED <<trees, kea, job, id, rec, system, split, shared, stopped>>

(* Mutant of ScanFree: a host is free that no record names.                *)
ScanRecords(a) ==
  pc[a] = "scan" /\ (\A i \in Known : devices[i].managed # host[a]) /\ Passes(a, host[a])

ScanFree(a) == pc[a] = "scan" /\ allocated[host[a]] = NoId /\ Passes(a, host[a])

(* No address: registering a new device fails, the others go on without.   *)
Refused(a) ==
  IF devices[id[a]] = NoRecord /\ ~FromListener(a)
  THEN Return(a) /\ UNCHANGED <<kea, faults>>
  ELSE Goto(a, "upsert")

ScanExhausted(a) ==
  /\ pc[a] = "scan" /\ allocated[host[a]] # NoId
  /\ host[a] = LastHost
  /\ Refused(a)

(* reserve_ip looks whether another device holds the host.                 *)
CheckTaken(a) ==
  /\ pc[a] = "check" /\ allocated[job[a].want] \notin {NoId, id[a]}
  /\ Refused(a)

(* Mutant of CheckFree: the request's address is taken as it is.           *)
CheckNothing(a) == pc[a] = "check" /\ Passes(a, job[a].want)

CheckFree(a) ==
  /\ pc[a] = "check" /\ allocated[job[a].want] \in {NoId, id[a]}
  /\ Passes(a, job[a].want)

(* Both insert whatever is there by now.                                   *)
Claim(a) ==
  /\ pc[a] = "claim"
  /\ allocated' = [allocated EXCEPT ![host[a]] = id[a]]
  /\ rec' = [rec EXCEPT ![a].managed = host[a]]
  /\ host' = [host EXCEPT ![a] = FirstHost]
  /\ Go(a, "upsert")
  /\ UNCHANGED <<devices, byMac, byNative, kea, job, id, others>>

-----------------------------------------------------------------------------
(* upsert and the push of the reservation.                                 *)

Upsert(a) ==
  /\ pc[a] = "upsert" /\ devices[id[a]] # rec[a]
  /\ devices' = [devices EXCEPT ![id[a]] = rec[a]]
  /\ Go(a, "index")
  /\ UNCHANGED <<byMac, byNative, allocated, kea, job, id, rec, host, others>>

(* Nothing changed: discovery stops here, register_device goes on.         *)
UpsertUnchanged(a) ==
  /\ pc[a] = "upsert" /\ devices[id[a]] = rec[a]
  /\ IF FromListener(a) THEN Return(a) /\ UNCHANGED <<kea, faults>> ELSE Goto(a, "push")

(* Mutant of UpdateIndex: only the MAC tree is written.                    *)
UpdateMacIndex(a) ==
  /\ pc[a] = "index"
  /\ byMac' = IF rec[a].mac = NoMac THEN byMac ELSE [byMac EXCEPT ![rec[a].mac] = id[a]]
  /\ Go(a, "push")
  /\ UNCHANGED <<devices, byNative, allocated, kea, job, id, rec, host, others>>

UpdateIndex(a) ==
  /\ pc[a] = "index"
  /\ byMac' = IF rec[a].mac = NoMac THEN byMac ELSE [byMac EXCEPT ![rec[a].mac] = id[a]]
  /\ byNative' = IF rec[a].native = NoNative THEN byNative
                 ELSE [byNative EXCEPT ![rec[a].native] = id[a]]
  /\ Go(a, "push")
  /\ UNCHANGED <<devices, allocated, kea, job, id, rec, host, others>>

Pushable(r) == r.managed # NoHost /\ r.mac # NoMac

(* Mutant of PushAccepted: the observed address would be pushed, here one  *)
(* outside the managed range.                                              *)
PushObserved(a) ==
  /\ pc[a] = "push" /\ Pushable(rec[a]) /\ connected
  /\ kea' = [kea EXCEPT ![rec[a].mac] = NoHost]
  /\ Return(a) /\ UNCHANGED faults

PushAccepted(a) ==
  /\ pc[a] = "push" /\ Pushable(rec[a]) /\ connected
  /\ kea' = [kea EXCEPT ![rec[a].mac] = rec[a].managed]
  /\ Return(a) /\ UNCHANGED faults

(* The DHCP server has not connected yet: an error, and only a warning.    *)
PushUnconnected(a) ==
  /\ pc[a] = "push" /\ Pushable(rec[a]) /\ ~connected
  /\ Return(a) /\ UNCHANGED <<kea, faults>>

(* Discovery skips a record without MAC or address; a registration pushes  *)
(* an empty MAC, which the hook refuses.                                   *)
PushNothing(a) ==
  pc[a] = "push" /\ ~Pushable(rec[a]) /\ Return(a) /\ UNCHANGED <<kea, faults>>

(* The channel is down or breaks, or the caller has gone: only a warning.  *)
PushLost(a) ==
  /\ pc[a] = "push" /\ Pushable(rec[a]) /\ connected
  /\ faults < MaxFaults
  /\ faults' = faults + 1
  /\ Return(a) /\ UNCHANGED kea

-----------------------------------------------------------------------------
(* Start-up: sync_from_db pushes every record once, when the DHCP server   *)
(* first connects; a restart loses the handlers and keeps the trees.       *)

SyncStarts ==
  /\ ~connected /\ connected' = TRUE
  /\ sync' = {devices[i] : i \in Known}
  /\ UNCHANGED <<trees, kea, local, faults, restarts, history>>

SyncPush(r) ==
  /\ r \in sync
  /\ sync' = sync \ {r}
  /\ \/ /\ kea' = IF Pushable(r) THEN [kea EXCEPT ![r.mac] = r.managed] ELSE kea
        /\ UNCHANGED faults
     \/ /\ Pushable(r) /\ faults < MaxFaults
        /\ faults' = faults + 1
        /\ UNCHANGED kea
  /\ UNCHANGED <<trees, local, connected, restarts, history>>

Names(i, h) == devices[i] # NoRecord /\ devices[i].managed = h

(* Handler a has claimed host h and not written its record.                *)
Holds(a, h) == pc[a] = "upsert" /\ rec[a].managed = h /\ allocated[h] = id[a]

Restart ==
  /\ restarts < MaxRestarts
  /\ restarts' = restarts + 1
  /\ pc' = [a \in Handlers |-> "idle"]
  /\ job' = [a \in Handlers |-> NoJob]
  /\ id' = [a \in Handlers |-> NoId]
  /\ rec' = [a \in Handlers |-> NoRecord]
  /\ host' = [a \in Handlers |-> FirstHost]
  /\ connected' = FALSE /\ sync' = {}
  /\ split' = split \cup {n \in Natives : byNative[n] = NoId /\ \E i \in Known : devices[i].native = n}
  /\ stopped' = stopped \cup {allocated[h] : h \in {h \in Hosts :
       \E a \in Handlers : Holds(a, h) /\ ~Names(allocated[h], h)}}
  /\ UNCHANGED <<trees, kea, faults, contested, shared>>

-----------------------------------------------------------------------------
Continue(a) ==
  \/ FindRecord(a) \/ NewRecord(a)
  \/ ScanTaken(a) \/ ScanFree(a) \/ ScanExhausted(a)
  \/ CheckTaken(a) \/ CheckFree(a) \/ Claim(a)
  \/ Upsert(a) \/ UpsertUnchanged(a) \/ UpdateIndex(a)
  \/ PushAccepted(a) \/ PushUnconnected(a) \/ PushNothing(a)

Next ==
  \/ \E l \in Listeners, n \in Natives : \E m \in MacsOf[n] : Heard(l, n, m)
  \/ \E c \in Callers, m \in RegMacs, h \in Pins : Register(c, m, h)
  \/ \E a \in Handlers : Continue(a) \/ PushLost(a)
  \/ SyncStarts
  \/ \E r \in Records : SyncPush(r)
  \/ Restart

Spec == Init /\ [][Next]_vars

(* A handler that runs goes on; every device broadcasts again and again    *)
(* and its address resolves; the DHCP server connects after a start.       *)
FairSpec ==
  /\ Spec
  /\ \A a \in Handlers : WF_vars(Continue(a))
  /\ \A n \in Natives : \A m \in MacsOf[n] \ {NoMac} :
       SF_vars(\E l \in Listeners : Heard(l, n, m))
  /\ WF_vars(SyncStarts) /\ WF_vars(\E r \in Records : SyncPush(r))

-----------------------------------------------------------------------------
(* Whatever handlers interleave and wherever the router restarts, an       *)
(* address a record or the DHCP server names is a claimed one: it is never *)
(* handed to a further device once it is written down.                     *)
NamedIsClaimed ==
  /\ \A i \in Known : devices[i].managed # NoHost => allocated[devices[i].managed] # NoId
  /\ \A m \in Macs : kea[m] # NoHost => allocated[kea[m]] # NoId

(* A device's managed address is its own: allocated_ips gives it to that   *)
(* device (db.rs:178-184), whatever handlers interleave and wherever the   *)
(* router stops, unless handlers of two devices had found the host free    *)
(* before either claimed it.                                               *)
ManagedIsOwn ==
  \A i \in Known : devices[i].managed \notin contested \cup {NoHost} =>
    allocated[devices[i].managed] = i

(* A tuya_id has one record, with one uuid, for ever (discovery.rs:395-    *)
(* 397), unless two listeners made one at once or the router stopped       *)
(* between the record and its index entry.                                 *)
OneRecordPerNative ==
  \A i, j \in Known :
    devices[i].native = devices[j].native /\ devices[i].native \notin split \cup {NoNative}
      => i = j

(* Once a device has a managed address it keeps it: the DHCP reservation,  *)
(* the core and the firewall go by it (db.rs:69-71); unless two handlers   *)
(* gave its record one at once.                                            *)
Keeps(i) == devices'[i] # NoRecord /\ devices'[i].managed = devices[i].managed
ManagedIsStable ==
  [][\A i \in Known \ shared : devices[i].managed # NoHost => i \in shared' \/ Keeps(i)]_vars

(* No address leaks: a host is claimed for the record that names it, or    *)
(* that a handler is about to write (db.rs:183-184: about as many devices  *)
(* as hosts), unless two handlers gave that record an address at once, or  *)
(* the router stopped before it was written.                               *)
InUse(h, i) == Names(i, h) \/ \E a \in Handlers : Holds(a, h)
NoLeak ==
  \A h \in Hosts : allocated[h] \in Ids \ (shared \cup stopped) => InUse(h, allocated[h])

(* allocated_ips implements the allocator: a host goes only to a device    *)
(* whose handler has found it free, or that device's, since the start      *)
(* (db.rs:178-230).                                                        *)
Claiming(h) == {a \in Handlers : pc[a] = "claim" /\ host[a] = h}
Alloc == INSTANCE Allocator
         WITH owner <- allocated, wanted <- [h \in Hosts |-> {id[a] : a \in Claiming(h)}]
AllocatorSpec == Alloc!Spec

(* A device that goes on broadcasting comes to have a record and, if there *)
(* is an address for it, a DHCP reservation (discovery.rs:472-473),        *)
(* wherever the router restarts and whatever handlers interleave; not if a *)
(* push is lost, for it is not repeated, or two handlers gave the record   *)
(* an address at once.  A device whose MAC register_device is called with, *)
(* too, may be reserved another device's address.                          *)
NoUuids(n) == byNative[n] = NoId /\ Unused = {}  \* MaxRecords is met
Reserved(n, i) ==
  \/ devices[i].managed = NoHost
  \/ \E m \in MacsOf[n] \ {NoMac} : kea[m] = devices[i].managed
RecordsOf(n) == {i \in Known : byNative[n] = i \/ devices[i].native = n}
EventuallyReserved ==
  \A n \in Natives : MacsOf[n] \cap RegMacs = {} =>
    <>[](\/ faults > 0 \/ NoUuids(n)
         \/ \E i \in RecordsOf(n) : i \in shared \/ Reserved(n, i))

-----------------------------------------------------------------------------
(* The next ones do not hold; no run lists them.                           *)

(* The same without what they except.                                      *)
AlwaysOwn ==
  \A i \in Known : devices[i].managed # NoHost => allocated[devices[i].managed] = i
AlwaysOneRecord ==
  \A i, j \in Known :
    devices[i].native = devices[j].native /\ devices[i].native # NoNative => i = j
AlwaysStable == [][\A i \in Known : devices[i].managed # NoHost => Keeps(i)]_vars

(* register_device answers with an address that is reserved for the MAC it *)
(* was called with, unless the push is lost (rpc/mod.rs:206).              *)
Answers(c) ==
  /\ pc[c] = "push" /\ pc'[c] = "idle" /\ ~FromListener(c)
  /\ rec[c].managed # NoHost /\ connected
  /\ UNCHANGED <<faults, restarts>>
AnswerIsReserved ==
  [][\A c \in Callers : Answers(c) => kea'[job[c].mac] = rec[c].managed]_vars

(* Every handler ends: the scan of the pool is finite and nobody waits.    *)
HandlersEnd == \A a \in Handlers : pc[a] # "idle" ~> pc[a] = "idle"
=============================================================================
