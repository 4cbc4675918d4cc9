-------------------------- MODULE RouterPoolProofs --------------------------
(***************************************************************************)
(* Theorems of RouterPool, for every set of listeners, callers, devices    *)
(* and MACs, every range of hosts and every bound.                         *)
(***************************************************************************)
EXTENDS RouterPool, TLAPS

(* A handler past its look-up has an id and a record; one that checks a    *)
(* host was asked for one; one that writes the indexes wrote the record.   *)
Prepared(a) ==
  /\ pc[a] \notin {"idle", "lookup"} => id[a] \in Ids /\ rec[a] \in Records
  /\ pc[a] = "check" => job[a].want \in Hosts
  /\ pc[a] = "index" => devices[id[a]] # NoRecord

(* An index names records that exist.                                      *)
IndexesKnown ==
  /\ \A m \in Macs : byMac[m] # NoId => devices[byMac[m]] # NoRecord
  /\ \A n \in Natives : byNative[n] # NoId => devices[byNative[n]] # NoRecord

TInv ==
  /\ TypeOK
  /\ \A a \in Handlers : Prepared(a)
  /\ IndexesKnown

(* The address of a record is claimed, whoever holds the record.           *)
Claimed(r) == r.managed # NoHost => allocated[r.managed] # NoId

CInv ==
  /\ TInv
  /\ \A i \in Known : Claimed(devices[i])
  /\ \A a \in Handlers : pc[a] \notin {"idle", "lookup"} => Claimed(rec[a])
  /\ \A r \in sync : Claimed(r)
  /\ \A m \in Macs : kea[m] # NoHost => allocated[kea[m]] # NoId

-----------------------------------------------------------------------------
LEMMA Sets ==
  ASSUME RouterPoolAssumption
  PROVE  /\ NoHost \notin Hosts /\ NoId \notin Ids
         /\ FirstHost \in Hosts /\ Hosts \subseteq Nat
         /\ NoMac \in Macs /\ RegMacs \subseteq Macs
         /\ \A n \in Natives : MacsOf[n] \subseteq Macs
         /\ NoRecord \notin Records /\ NoNative \notin Natives
         /\ Pins \subseteq Hosts \cup {NoHost}
         /\ NoJob \in Jobs
<1>1. NoMac \in Macs
  BY DEF Macs
<1> QED
  BY <1>1 DEF RouterPoolAssumption, NoHost, Hosts, NoId, Ids, Macs, NoJob, Jobs

(* The index entry a handler follows leads to a record.                    *)
LEMMA IndexIsKnown ==
  ASSUME TInv, NEW a \in Handlers, Index(a) # NoId
  PROVE  job[a] \in Jobs /\ Index(a) \in Ids /\ devices[Index(a)] # NoRecord
<1>1. job[a] \in Jobs
  BY DEF TInv, TypeOK
<1>2. CASE FromListener(a)
  <2>1. Index(a) = byNative[job[a].native] /\ job[a].native \in Natives
    BY <1>1, <1>2 DEF Index, Entry, FromListener, Jobs
  <2> QED
    BY <1>1, <2>1 DEF TInv, TypeOK, IndexesKnown
<1>3. CASE ~FromListener(a)
  <2>1. Index(a) = byMac[job[a].mac] /\ job[a].mac \in Macs
    BY <1>1, <1>3 DEF Index, Entry, FromListener, Jobs
  <2> QED
    BY <1>1, <2>1 DEF TInv, TypeOK, IndexesKnown
<1> QED
  BY <1>2, <1>3

LEMMA OneOfIsIn == ASSUME NEW S \in SUBSET Ids PROVE OneOf(S) \in S \cup {NoId}
  BY DEF OneOf

LEMMA InitTInv == ASSUME RouterPoolAssumption, Init PROVE TInv
<1>1. [a \in Handlers |-> NoJob] \in [Handlers -> Jobs]
  BY Sets
<1>2. devices \in Dbs
  BY DEF Init, RouterPoolAssumption, IsOld
<1>3. \A m \in Macs : byMac[m] \in Known \cup {NoId}
  <2> SUFFICES ASSUME NEW m \in Macs PROVE byMac[m] \in Known \cup {NoId}
    OBVIOUS
  <2> DEFINE S == {i \in Known : devices[i].mac = m /\ m # NoMac}
  <2>1. byMac[m] = OneOf(S) /\ S \subseteq Known /\ S \in SUBSET Ids
    BY DEF Init, Known
  <2> HIDE DEF S
  <2> QED
    BY <2>1, OneOfIsIn
<1>4. \A n \in Natives : byNative[n] \in Known \cup {NoId}
  <2> SUFFICES ASSUME NEW n \in Natives PROVE byNative[n] \in Known \cup {NoId}
    OBVIOUS
  <2> DEFINE S == {i \in Known : devices[i].native = n}
  <2>1. byNative[n] = OneOf(S) /\ S \subseteq Known /\ S \in SUBSET Ids
    BY DEF Init, Known
  <2> HIDE DEF S
  <2> QED
    BY <2>1, OneOfIsIn
<1>5. /\ byMac \in [Macs -> Ids \cup {NoId}]
      /\ byNative \in [Natives -> Ids \cup {NoId}]
      /\ allocated \in [Hosts -> Ids \cup {NoId}]
      /\ kea \in [Macs -> Hosts \cup {NoHost}]
  <2>1. Known \subseteq Ids
    BY DEF Known
  <2>2. DOMAIN byMac = Macs /\ byMac = [m \in Macs |-> byMac[m]]
        /\ byNative = [n \in Natives |-> byNative[n]]
    BY DEF Init
  <2> QED
    BY <1>3, <1>4, <2>1, <2>2 DEF Init
<1>6. /\ pc \in [Handlers -> Stages]
      /\ id \in [Handlers -> Ids \cup {NoId}]
      /\ rec \in [Handlers -> Records \cup {NoRecord}]
      /\ host \in [Handlers -> Hosts]
  BY Sets DEF Init, Stages
<1>7. /\ faults \in 0..MaxFaults /\ restarts \in 0..MaxRestarts
      /\ sync \subseteq Records
      /\ contested \subseteq Hosts /\ split \subseteq Natives
      /\ shared \subseteq Ids /\ stopped \subseteq Ids
  BY DEF Init, RouterPoolAssumption
<1>8. connected \in BOOLEAN
  BY Zenon DEF Init
<1>9. job \in [Handlers -> Jobs]
  BY <1>1 DEF Init
<1>10. TypeOK
  BY <1>2, <1>5, <1>6, <1>7, <1>8, <1>9 DEF TypeOK
<1>11. IndexesKnown
  BY <1>3, <1>4, Sets DEF IndexesKnown, Known
<1> QED
  BY <1>10, <1>11 DEF Init, TInv, Prepared

(* A job starts.                                                           *)
LEMMA StartTInv ==
  ASSUME RouterPoolAssumption, TInv, NEW a \in Handlers, NEW j \in Jobs, Begin(a, j)
  PROVE  TInv'
<1>1. TypeOK'
  BY DEF Begin, Go, TInv, TypeOK, trees, others, system, history, Stages
<1>2. \A b \in Handlers : Prepared(b)'
  BY DEF Begin, Go, TInv, TypeOK, trees, others, system, history, Prepared
<1>3. IndexesKnown'
  BY DEF Begin, TInv, trees, IndexesKnown
<1> QED
  BY <1>1, <1>2, <1>3 DEF TInv

(* A handler finds its record, or makes one.                               *)
LEMMA LookupTInv ==
  ASSUME RouterPoolAssumption, TInv, NEW a \in Handlers,
         FindRecord(a) \/ NewRecord(a)
  PROVE  TInv'
<1>1. job[a] \in Jobs
  BY DEF TInv, TypeOK
<1>2. AllocStage(a) \in {"scan", "check"} /\ (AllocStage(a) = "check" => job[a].want \in Hosts)
  BY <1>1 DEF AllocStage, Jobs
<1>3. CASE FindRecord(a)
  <2>1. Index(a) \in Ids /\ devices[Index(a)] \in Records
    BY <1>1, <1>3 DEF FindRecord, Index, Entry, FromListener, TInv, TypeOK, IndexesKnown, Jobs, Dbs
  <2>2. Refreshed(a, devices[Index(a)]) \in Records
    BY <1>1, <2>1 DEF Refreshed, Records, Jobs
  <2>3. TypeOK'
    BY <1>2, <1>3, <2>1, <2>2, Sets DEF FindRecord, Go, TInv, TypeOK, trees, others, system, history, Stages
  <2>4. \A b \in Handlers : Prepared(b)'
    BY <1>2, <1>3, <2>1, <2>2 DEF FindRecord, Go, TInv, TypeOK, trees, others, system, history, Prepared
  <2>5. IndexesKnown'
    BY <1>3 DEF FindRecord, TInv, trees, IndexesKnown
  <2> QED
    BY <2>3, <2>4, <2>5 DEF TInv
<1>4. CASE NewRecord(a)
  <2>1. [mac |-> job[a].mac, native |-> job[a].native, managed |-> NoHost] \in Records
    BY <1>1 DEF Records, Jobs
  <2>2. PICK i \in Ids : id' = [id EXCEPT ![a] = i]
    <3>1. (CHOOSE i \in Unused : TRUE) \in Ids
      BY <1>4 DEF NewRecord, Unused
    <3> QED
      BY <1>4, <3>1 DEF NewRecord
  <2>3. /\ UNCHANGED <<devices, byMac, byNative, allocated, kea, job>>
        /\ UNCHANGED <<connected, sync, faults, restarts, contested, shared, stopped>>
        /\ pc' = [pc EXCEPT ![a] = AllocStage(a)]
        /\ rec' = [rec EXCEPT ![a] =
                     [mac |-> job[a].mac, native |-> job[a].native, managed |-> NoHost]]
        /\ host' = [host EXCEPT ![a] = FirstHost]
    BY <1>4 DEF NewRecord, Go, trees, system
  <2>7. kea' = kea /\ split' \subseteq Natives
    BY <1>1, <1>4 DEF NewRecord, FromListener, Jobs, TInv, TypeOK
  <2>4. TypeOK'
    BY <1>2, <2>1, <2>2, <2>3, <2>7, Sets DEF TInv, TypeOK, Stages
  <2>5. \A b \in Handlers : Prepared(b)'
    BY <1>2, <2>1, <2>2, <2>3 DEF TInv, TypeOK, Prepared
  <2>6. IndexesKnown'
    BY <2>3 DEF TInv, IndexesKnown
  <2> QED
    BY <2>4, <2>5, <2>6 DEF TInv
<1> QED
  BY <1>3, <1>4

(* A handler moves on with the record it has.                              *)
LEMMA GotoTInv ==
  ASSUME RouterPoolAssumption, TInv, NEW a \in Handlers, pc[a] \notin {"idle", "lookup"},
         NEW stage \in {"upsert", "push"}, Goto(a, stage)
  PROVE  TInv'
<1>1. TypeOK'
  BY Sets DEF Goto, Go, TInv, TypeOK, trees, others, system, history, Stages
<1>2. \A b \in Handlers : Prepared(b)'
  BY DEF Goto, Go, TInv, TypeOK, trees, Prepared
<1>3. IndexesKnown'
  BY DEF Goto, TInv, trees, IndexesKnown
<1> QED
  BY <1>1, <1>2, <1>3 DEF TInv

(* A handler returns, having told the DHCP server or not.                  *)
LEMMA ReturnTInv ==
  ASSUME RouterPoolAssumption, TInv, NEW a \in Handlers, Return(a),
         faults' \in 0..MaxFaults, kea' \in [Macs -> Hosts \cup {NoHost}]
  PROVE  TInv'
<1>1. TypeOK'
  BY Sets DEF Return, Go, TInv, TypeOK, trees, history, Stages
<1>2. \A b \in Handlers : Prepared(b)'
  BY DEF Return, Go, TInv, TypeOK, trees, Prepared
<1>3. IndexesKnown'
  BY DEF Return, TInv, trees, IndexesKnown
<1> QED
  BY <1>1, <1>2, <1>3 DEF TInv

(* A host passes the test of allocate_ip or reserve_ip.                    *)
LEMMA PassesTInv ==
  ASSUME RouterPoolAssumption, TInv, NEW a \in Handlers, pc[a] \in {"scan", "check"},
         NEW h \in Hosts, Passes(a, h)
  PROVE  TInv'
<1>1. TypeOK'
  BY DEF Passes, Go, TInv, TypeOK, trees, system, Stages
<1>2. \A b \in Handlers : Prepared(b)'
  BY DEF Passes, Go, TInv, TypeOK, trees, Prepared
<1> QED
  BY <1>1, <1>2 DEF Passes, TInv, trees, IndexesKnown

(* The scan, the check and the claim.                                      *)
LEMMA AllocTInv ==
  ASSUME RouterPoolAssumption, TInv, NEW a \in Handlers,
         ScanTaken(a) \/ ScanFree(a) \/ CheckFree(a) \/ Claim(a)
  PROVE  TInv'
<1>1. CASE ScanTaken(a)
  <2>1. host[a] + 1 \in Hosts
    BY <1>1 DEF ScanTaken, TInv, TypeOK, Hosts, RouterPoolAssumption
  <2>2. TypeOK'
    BY <1>1, <2>1 DEF ScanTaken, TInv, TypeOK, trees, others, system, history
  <2> QED
    BY <1>1, <2>2 DEF ScanTaken, TInv, trees, Prepared, IndexesKnown
<1>2. CASE ScanFree(a) \/ CheckFree(a)
  <2>1. host[a] \in Hosts /\ (pc[a] = "check" => job[a].want \in Hosts)
    BY DEF TInv, TypeOK, Prepared
  <2> QED
    BY <1>2, <2>1, PassesTInv DEF ScanFree, CheckFree
<1>3. CASE Claim(a)
  <2>1. id[a] \in Ids /\ rec[a] \in Records /\ host[a] \in Hosts
    BY <1>3 DEF Claim, TInv, TypeOK, Prepared
  <2>2. [rec[a] EXCEPT !.managed = host[a]] \in Records
    BY <2>1 DEF Records
  <2>3. rec' = [rec EXCEPT ![a] = [rec[a] EXCEPT !.managed = host[a]]]
    BY <1>3 DEF Claim, TInv, TypeOK
  <2>4. TypeOK'
    BY <1>3, <2>1, <2>2, <2>3, Sets DEF Claim, Go, TInv, TypeOK, others, system, history, Stages
  <2>5. \A b \in Handlers : Prepared(b)'
    BY <1>3, <2>1, <2>2, <2>3 DEF Claim, Go, TInv, TypeOK, Prepared
  <2> QED
    BY <1>3, <2>4, <2>5 DEF Claim, TInv, IndexesKnown
<1> QED
  BY <1>1, <1>2, <1>3

(* The record and the indexes are written.                                 *)
LEMMA WriteTInv ==
  ASSUME RouterPoolAssumption, TInv, NEW a \in Handlers,
         Upsert(a) \/ UpdateIndex(a)
  PROVE  TInv'
<1>1. id[a] \in Ids /\ rec[a] \in Records
  BY DEF Upsert, UpdateIndex, TInv, Prepared
<1>2. CASE Upsert(a)
  <2>1. TypeOK'
    BY <1>1, <1>2 DEF Upsert, Go, TInv, TypeOK, Dbs, others, system, history, Stages
  <2>2. \A i \in Ids : devices[i] # NoRecord => devices'[i] # NoRecord
    BY <1>1, <1>2, Sets DEF Upsert, TInv, TypeOK
  <2>3. \A b \in Handlers : Prepared(b)'
    BY <1>1, <1>2, <2>2, Sets DEF Upsert, Go, TInv, TypeOK, Dbs, Prepared
  <2>4. IndexesKnown'
    BY <1>2, <2>2 DEF Upsert, TInv, TypeOK, IndexesKnown
  <2> QED
    BY <2>1, <2>3, <2>4 DEF TInv
<1>3. CASE UpdateIndex(a)
  <2>1. TypeOK'
    BY <1>1, <1>3 DEF UpdateIndex, Go, TInv, TypeOK, others, system, history, Stages, Records
  <2>2. \A b \in Handlers : Prepared(b)'
    BY <1>1, <1>3 DEF UpdateIndex, Go, TInv, TypeOK, Prepared
  <2>3. devices[id[a]] # NoRecord
    BY <1>3 DEF UpdateIndex, TInv, Prepared
  <2>4. IndexesKnown'
    BY <1>1, <1>3, <2>3 DEF UpdateIndex, TInv, TypeOK, IndexesKnown
  <2> QED
    BY <2>1, <2>2, <2>4 DEF TInv
<1> QED
  BY <1>2, <1>3

(* What a reservation puts into the DHCP server.                           *)
LEMMA PushTyped ==
  ASSUME RouterPoolAssumption, TypeOK, NEW r \in Records
  PROVE  [kea EXCEPT ![r.mac] = r.managed] \in [Macs -> Hosts \cup {NoHost}]
  BY DEF TypeOK, Records

(* The start-up sync and a restart.                                        *)
LEMMA SystemTInv ==
  ASSUME RouterPoolAssumption, TInv,
         SyncStarts \/ (\E r \in Records : SyncPush(r)) \/ Restart
  PROVE  TInv'
<1>1. CASE SyncStarts
  <2>1. TypeOK'
    BY <1>1 DEF SyncStarts, TInv, TypeOK, Dbs, Known, trees, local, history
  <2> QED
    BY <1>1, <2>1 DEF SyncStarts, TInv, trees, local, Prepared, IndexesKnown
<1>2. ASSUME NEW r \in Records, SyncPush(r)
      PROVE  TInv'
  <2>1. kea' \in [Macs -> Hosts \cup {NoHost}]
    BY <1>2, PushTyped DEF SyncPush, TInv, TypeOK
  <2>2. faults' \in 0..MaxFaults
    BY <1>2 DEF SyncPush, TInv, TypeOK, RouterPoolAssumption
  <2>3. TypeOK'
    BY <1>2, <2>1, <2>2 DEF SyncPush, TInv, TypeOK, trees, local, history
  <2> QED
    BY <1>2, <2>3 DEF SyncPush, TInv, trees, local, Prepared, IndexesKnown
<1>3. CASE Restart
  <2>0. [a \in Handlers |-> NoJob] \in [Handlers -> Jobs]
    BY Sets
  <2>1. /\ pc' \in [Handlers -> Stages]
        /\ id' \in [Handlers -> Ids \cup {NoId}]
        /\ rec' \in [Handlers -> Records \cup {NoRecord}]
        /\ host' \in [Handlers -> Hosts]
    BY <1>3, Sets DEF Restart, Stages
  <2>2. restarts' \in 0..MaxRestarts /\ sync' \subseteq Records
    BY <1>3 DEF Restart, TInv, TypeOK, RouterPoolAssumption
  <2>4. connected' \in BOOLEAN
    BY <1>3, Zenon DEF Restart
  <2>5. split' \subseteq Natives
    BY <1>3 DEF Restart, TInv, TypeOK
  <2>6. stopped' \subseteq Ids
    <3>1. \A a \in Handlers, h \in Hosts : Holds(a, h) => allocated[h] \in Ids
      BY DEF Holds, TInv, Prepared
    <3> QED
      BY <1>3, <3>1 DEF Restart, TInv, TypeOK
  <2>3. TypeOK'
    BY <1>3, <2>0, <2>1, <2>2, <2>4, <2>5, <2>6 DEF Restart, TInv, TypeOK, trees
  <2> QED
    BY <1>3, <2>3 DEF Restart, TInv, trees, Prepared, IndexesKnown
<1> QED
  BY <1>1, <1>2, <1>3

(* Every step of a handler, but for its start.                             *)
LEMMA HandlerTInv ==
  ASSUME RouterPoolAssumption, TInv, NEW a \in Handlers, Continue(a) \/ PushLost(a)
  PROVE  TInv'
<1>1. faults \in 0..MaxFaults /\ kea \in [Macs -> Hosts \cup {NoHost}]
  BY DEF TInv, TypeOK
<1>2. ASSUME Refused(a), pc[a] \in {"scan", "check"}
      PROVE  TInv'
  BY <1>1, <1>2, ReturnTInv, GotoTInv DEF Refused
<1>3. CASE ScanExhausted(a) \/ CheckTaken(a)
  BY <1>2, <1>3 DEF ScanExhausted, CheckTaken
<1>4. CASE UpsertUnchanged(a)
  BY <1>1, <1>4, ReturnTInv, GotoTInv DEF UpsertUnchanged
<1>5. CASE PushAccepted(a)
  <2>1. rec[a] \in Records
    BY <1>5 DEF PushAccepted, TInv, Prepared
  <2> QED
    BY <1>1, <1>5, <2>1, PushTyped, ReturnTInv DEF PushAccepted, TInv
<1>6. CASE PushUnconnected(a) \/ PushNothing(a)
  BY <1>1, <1>6, ReturnTInv DEF PushUnconnected, PushNothing
<1>7. CASE PushLost(a)
  <2>1. faults' \in 0..MaxFaults
    BY <1>1, <1>7 DEF PushLost, RouterPoolAssumption
  <2> QED
    BY <1>1, <1>7, <2>1, ReturnTInv DEF PushLost
<1> QED
  BY <1>3, <1>4, <1>5, <1>6, <1>7, LookupTInv, AllocTInv, WriteTInv DEF Continue

LEMMA JobsHeard ==
  ASSUME RouterPoolAssumption
  PROVE  /\ \A n \in Natives, m \in Macs : [native |-> n, mac |-> m, want |-> NoHost] \in Jobs
         /\ \A m \in RegMacs, h \in Pins :
              [native |-> NoNative, mac |-> m, want |-> h] \in Jobs
  BY Sets DEF Jobs

LEMMA NextTInv ==
  ASSUME RouterPoolAssumption, TInv, [Next]_vars
  PROVE  TInv'
<1>1. ASSUME NEW l \in Listeners, NEW n \in Natives, NEW m \in MacsOf[n], Heard(l, n, m)
      PROVE  TInv'
  <2>1. l \in Handlers /\ [native |-> n, mac |-> m, want |-> NoHost] \in Jobs
    BY Sets, JobsHeard DEF Handlers
  <2> QED
    BY <1>1, <2>1, StartTInv DEF Heard
<1>2. ASSUME NEW c \in Callers, NEW m \in RegMacs, NEW h \in Pins,
             Register(c, m, h)
      PROVE  TInv'
  <2>1. c \in Handlers /\ [native |-> NoNative, mac |-> m, want |-> h] \in Jobs
    BY JobsHeard DEF Handlers
  <2> QED
    BY <1>2, <2>1, StartTInv DEF Register
<1>3. CASE UNCHANGED vars
  BY <1>3 DEF vars, trees, local, others, system, history, TInv, TypeOK, Prepared, IndexesKnown
<1> QED
  BY <1>1, <1>2, <1>3, HandlerTInv, SystemTInv DEF Next

(* Type correctness; in particular no scan leaves the range of hosts, and  *)
(* an index always names a record (db.rs:146-151).                         *)
THEOREM TypeCorrect == ASSUME RouterPoolAssumption PROVE Spec => []TypeOK
<1>1. Init => TInv
  BY InitTInv
<1>2. TInv /\ [Next]_vars => TInv'
  BY NextTInv
<1>3. TInv => TypeOK
  BY DEF TInv
<1> QED
  BY <1>1, <1>2, <1>3, PTL DEF Spec

-----------------------------------------------------------------------------
(* A host that is claimed is never free again.                             *)
LEMMA ClaimsStay ==
  ASSUME RouterPoolAssumption, TInv, [Next]_vars
  PROVE  \A h \in Hosts : allocated[h] # NoId => allocated'[h] # NoId
<1>1. ASSUME NEW a \in Handlers, Claim(a)
      PROVE  \A h \in Hosts : allocated[h] # NoId => allocated'[h] # NoId
  <2>1. id[a] \in Ids
    BY <1>1 DEF Claim, TInv, Prepared
  <2> QED
    BY <1>1, <2>1, Sets DEF Claim, TInv, TypeOK
<1>2. ASSUME NEW a \in Handlers, Continue(a) \/ PushLost(a), ~Claim(a)
      PROVE  allocated' = allocated
  BY <1>2 DEF Continue, FindRecord, NewRecord, ScanTaken, ScanFree, ScanExhausted,
     CheckTaken, CheckFree, Passes, Refused, Upsert, UpsertUnchanged, UpdateIndex, PushAccepted,
     PushUnconnected, PushNothing, PushLost, Goto, Return, trees
<1>3. CASE UNCHANGED vars
  BY <1>3 DEF vars, trees
<1>4. CASE \/ \E l \in Listeners, n \in Natives : \E m \in MacsOf[n] : Heard(l, n, m)
           \/ \E c \in Callers, m \in RegMacs, h \in Pins : Register(c, m, h)
  BY <1>4 DEF Heard, Register, Begin, trees
<1>5. CASE SyncStarts \/ (\E r \in Records : SyncPush(r)) \/ Restart
  BY <1>5 DEF SyncStarts, SyncPush, Restart, trees
<1> QED
  BY <1>1, <1>2, <1>3, <1>4, <1>5 DEF Next

(* The parts of CInv about each place that names an address.               *)
RecordsClaimed == \A i \in Known : Claimed(devices[i])
DraftsClaimed == \A a \in Handlers : pc[a] \notin {"idle", "lookup"} => Claimed(rec[a])
SyncClaimed == \A r \in sync : Claimed(r)
KeaClaimed == \A m \in Macs : kea[m] # NoHost => allocated[kea[m]] # NoId

LEMMA CInvParts ==
  CInv <=> TInv /\ RecordsClaimed /\ DraftsClaimed /\ SyncClaimed /\ KeaClaimed
  BY DEF CInv, RecordsClaimed, DraftsClaimed, SyncClaimed, KeaClaimed

(* Nothing is named anew in a step that keeps all names: they stay claimed.*)
LEMMA RecordsStay ==
  ASSUME CInv, TypeOK', UNCHANGED devices,
         \A h \in Hosts : allocated[h] # NoId => allocated'[h] # NoId
  PROVE  RecordsClaimed'
  BY CInvParts DEF RecordsClaimed, Known, Claimed, TypeOK, Dbs, Records

LEMMA SyncStays ==
  ASSUME CInv, TypeOK, sync' \subseteq sync,
         \A h \in Hosts : allocated[h] # NoId => allocated'[h] # NoId
  PROVE  SyncClaimed'
  BY CInvParts DEF SyncClaimed, Claimed, TypeOK, Records

LEMMA KeaStays ==
  ASSUME CInv, TypeOK, UNCHANGED kea,
         \A h \in Hosts : allocated[h] # NoId => allocated'[h] # NoId
  PROVE  KeaClaimed'
  BY CInvParts DEF KeaClaimed, TypeOK

(* A step of handler a alone keeps the records the others are building.    *)
LEMMA DraftsStay ==
  ASSUME CInv, TypeOK, NEW a \in Handlers, NEW stage, pc' = [pc EXCEPT ![a] = stage],
         NEW r, rec' = [rec EXCEPT ![a] = r],
         stage \notin {"idle", "lookup"} =>
           (r.managed # NoHost => allocated'[r.managed] # NoId),
         \A h \in Hosts : allocated[h] # NoId => allocated'[h] # NoId
  PROVE  DraftsClaimed'
<1> SUFFICES ASSUME NEW b \in Handlers, pc'[b] \notin {"idle", "lookup"},
                    rec'[b].managed # NoHost
             PROVE  allocated'[rec'[b].managed] # NoId
  BY DEF DraftsClaimed, Claimed
<1>1. CASE b = a
  BY <1>1 DEF TypeOK
<1>2. CASE b # a
  <2>1. pc[b] \notin {"idle", "lookup"} /\ rec'[b] = rec[b]
    BY <1>2 DEF TypeOK
  <2>2. rec[b] \in Records
    BY <2>1 DEF CInv, TInv, Prepared
  <2>3. Claimed(rec[b])
    BY <2>1 DEF CInv
  <2> QED
    BY <2>1, <2>2, <2>3 DEF Claimed, Records
<1> QED
  BY <1>1, <1>2

(* A step that writes neither records nor reservations, nor more to sync,  *)
(* has only the record its handler is building to account for.             *)
LEMMA DraftStep ==
  ASSUME RouterPoolAssumption, CInv, TInv', [Next]_vars,
         NEW a \in Handlers, NEW stage, pc' = [pc EXCEPT ![a] = stage],
         NEW r, rec' = [rec EXCEPT ![a] = r],
         stage \notin {"idle", "lookup"} =>
           (r.managed # NoHost => allocated'[r.managed] # NoId),
         UNCHANGED <<devices, kea, sync>>
  PROVE  CInv'
<1>1. \A h \in Hosts : allocated[h] # NoId => allocated'[h] # NoId
  BY ClaimsStay DEF CInv
<1>2. TypeOK /\ TypeOK'
  BY DEF CInv, TInv
<1>3. RecordsClaimed' /\ SyncClaimed' /\ KeaClaimed'
  BY <1>1, <1>2, RecordsStay, SyncStays, KeaStays
<1>4. DraftsClaimed'
  BY <1>1, <1>2, DraftsStay
<1> QED
  BY <1>3, <1>4 DEF CInv, RecordsClaimed, DraftsClaimed, SyncClaimed, KeaClaimed

LEMMA KeepRec ==
  ASSUME TypeOK, NEW a \in Handlers, UNCHANGED rec
  PROVE  rec' = [rec EXCEPT ![a] = rec[a]]
  BY DEF TypeOK

LEMMA StartCInv ==
  ASSUME RouterPoolAssumption, CInv, TInv', [Next]_vars,
         NEW a \in Handlers, NEW j, Begin(a, j)
  PROVE  CInv'
  BY DraftStep, KeepRec DEF Begin, Go, trees, others, system, history, CInv, TInv

LEMMA GotoCInv ==
  ASSUME RouterPoolAssumption, CInv, TInv', [Next]_vars,
         NEW a \in Handlers, NEW stage, Goto(a, stage), pc[a] \notin {"idle", "lookup"}
  PROVE  CInv'
<1>1. rec' = [rec EXCEPT ![a] = rec[a]]
  BY KeepRec DEF Goto, CInv, TInv
<1>2. Claimed(rec[a])
  BY DEF CInv
<1> QED
  BY <1>1, <1>2, DraftStep DEF Goto, Go, trees, others, system, history, Claimed

LEMMA LookupCInv ==
  ASSUME RouterPoolAssumption, CInv, TInv', [Next]_vars,
         NEW a \in Handlers, FindRecord(a) \/ NewRecord(a)
  PROVE  CInv'
<1>1. CASE FindRecord(a)
  <2>1. job[a] \in Jobs /\ Index(a) \in Ids /\ devices[Index(a)] # NoRecord
    BY <1>1 DEF FindRecord, Index, Entry, FromListener, CInv, TInv, TypeOK, IndexesKnown, Jobs
  <2>2. devices[Index(a)] \in Records /\ Claimed(devices[Index(a)])
    BY <2>1 DEF CInv, TInv, TypeOK, Dbs, Known
  <2>3. Refreshed(a, devices[Index(a)]).managed = devices[Index(a)].managed
    BY <2>2 DEF Refreshed, Records
  <2> DEFINE stage == IF devices[Index(a)].managed = NoHost THEN AllocStage(a) ELSE "upsert"
  <2>4. pc' = [pc EXCEPT ![a] = stage]
        /\ rec' = [rec EXCEPT ![a] = Refreshed(a, devices[Index(a)])]
        /\ UNCHANGED <<devices, allocated, kea, sync>>
    BY <1>1 DEF FindRecord, Go, trees, others, system, history
  <2> HIDE DEF stage
  <2> QED
    BY <2>2, <2>3, <2>4, DraftStep DEF Claimed
<1>2. CASE NewRecord(a)
  <2> DEFINE r == [mac |-> job[a].mac, native |-> job[a].native, managed |-> NoHost]
  <2>1. r.managed = NoHost
    OBVIOUS
  <2>2. pc' = [pc EXCEPT ![a] = AllocStage(a)] /\ rec' = [rec EXCEPT ![a] = r]
        /\ UNCHANGED <<devices, kea, sync>>
    BY <1>2 DEF NewRecord, Go, trees, others, system, history
  <2> HIDE DEF r
  <2> QED
    BY <2>1, <2>2, DraftStep
<1> QED
  BY <1>1, <1>2

LEMMA AllocCInv ==
  ASSUME RouterPoolAssumption, CInv, TInv', [Next]_vars,
         NEW a \in Handlers, ScanTaken(a) \/ ScanFree(a) \/ CheckFree(a) \/ Claim(a)
  PROVE  CInv'
<1>1. CASE ScanTaken(a)
  <2>1. pc' = [pc EXCEPT ![a] = pc[a]]
    BY <1>1 DEF ScanTaken, CInv, TInv, TypeOK
  <2>2. Claimed(rec[a])
    BY <1>1 DEF ScanTaken, CInv
  <2>3. rec' = [rec EXCEPT ![a] = rec[a]] /\ UNCHANGED <<devices, allocated, kea, sync>>
    BY <1>1, KeepRec DEF ScanTaken, trees, others, system, history, CInv, TInv
  <2> QED
    BY <2>1, <2>2, <2>3, DraftStep DEF Claimed
<1>2. CASE ScanFree(a) \/ CheckFree(a)
  <2>1. PICK h : Passes(a, h)
    BY <1>2 DEF ScanFree, CheckFree
  <2>2. Claimed(rec[a])
    BY <1>2 DEF ScanFree, CheckFree, CInv
  <2> QED
    BY <2>1, <2>2, DraftStep, KeepRec DEF Passes, Go, trees, system, Claimed, CInv, TInv
<1>3. CASE Claim(a)
  <2> DEFINE r == [rec[a] EXCEPT !.managed = host[a]]
  <2>1. id[a] \in Ids /\ rec[a] \in Records /\ host[a] \in Hosts
    BY <1>3 DEF Claim, CInv, TInv, TypeOK, Prepared
  <2>2. r.managed = host[a]
    BY <2>1 DEF Records
  <2>3. allocated'[host[a]] # NoId
    BY <1>3, <2>1, Sets DEF Claim, CInv, TInv, TypeOK
  <2>4. pc' = [pc EXCEPT ![a] = "upsert"] /\ rec' = [rec EXCEPT ![a] = r]
        /\ UNCHANGED <<devices, kea, sync>>
    BY <1>3 DEF Claim, Go, others, system, history, CInv, TInv, TypeOK
  <2> HIDE DEF r
  <2> QED
    BY <2>2, <2>3, <2>4, DraftStep
<1> QED
  BY <1>1, <1>2, <1>3

LEMMA WriteCInv ==
  ASSUME RouterPoolAssumption, CInv, TInv', [Next]_vars,
         NEW a \in Handlers, Upsert(a) \/ UpdateIndex(a)
  PROVE  CInv'
<1>1. Claimed(rec[a]) /\ id[a] \in Ids /\ rec[a] \in Records /\ UNCHANGED rec
  BY DEF Upsert, UpdateIndex, CInv, TInv, Prepared
<1>2. CASE UpdateIndex(a)
  BY <1>1, <1>2, DraftStep, KeepRec DEF UpdateIndex, Go, others, system, history, Claimed, CInv, TInv
<1>3. CASE Upsert(a)
  <2>1. TypeOK /\ TypeOK' /\ UNCHANGED <<allocated, kea, sync>>
    BY <1>3 DEF Upsert, others, system, history, CInv, TInv
  <2>2. \A h \in Hosts : allocated[h] # NoId => allocated'[h] # NoId
    BY <2>1
  <2>3. pc' = [pc EXCEPT ![a] = "index"] /\ rec' = [rec EXCEPT ![a] = rec[a]]
    BY <1>1, <1>3, <2>1, KeepRec DEF Upsert, Go
  <2>4. DraftsClaimed'
    BY <1>1, <2>1, <2>2, <2>3, DraftsStay DEF Claimed
  <2>5. SyncClaimed' /\ KeaClaimed'
    BY <2>1, <2>2, SyncStays, KeaStays
  <2>6. \A i \in Ids : devices'[i] # NoRecord => Claimed(devices'[i])
    BY <1>1, <1>3, <2>1 DEF Upsert, CInv, Known, TypeOK
  <2>7. RecordsClaimed'
    BY <2>1, <2>6 DEF RecordsClaimed, Known, Claimed
  <2> QED
    BY <2>4, <2>5, <2>7 DEF CInv, RecordsClaimed, DraftsClaimed, SyncClaimed, KeaClaimed
<1> QED
  BY <1>2, <1>3

(* A handler that returns may have told the DHCP server the address of the *)
(* record it built.                                                        *)
LEMMA ReturnCInv ==
  ASSUME RouterPoolAssumption, CInv, TInv', [Next]_vars, NEW a \in Handlers, Return(a),
         \/ UNCHANGED kea
         \/ /\ pc[a] = "push" /\ Pushable(rec[a])
            /\ kea' = [kea EXCEPT ![rec[a].mac] = rec[a].managed]
  PROVE  CInv'
<1>1. TypeOK /\ TypeOK' /\ UNCHANGED <<devices, allocated, sync>>
  BY DEF Return, trees, CInv, TInv
<1>2. \A h \in Hosts : allocated[h] # NoId => allocated'[h] # NoId
  BY <1>1
<1>3. RecordsClaimed' /\ SyncClaimed'
  BY <1>1, <1>2, RecordsStay, SyncStays
<1>4. DraftsClaimed'
  BY <1>1, <1>2, DraftsStay DEF Return, Go
<1>5. KeaClaimed'
  <2>1. CASE UNCHANGED kea
    BY <1>1, <1>2, <2>1, KeaStays
  <2>2. CASE /\ pc[a] = "push" /\ Pushable(rec[a])
             /\ kea' = [kea EXCEPT ![rec[a].mac] = rec[a].managed]
    <3>1. rec[a] \in Records /\ Claimed(rec[a])
      BY <2>2 DEF CInv, TInv, Prepared
    <3> QED
      BY <1>1, <2>2, <3>1 DEF KeaClaimed, CInv, TypeOK, Claimed, Records
  <2> QED
    BY <2>1, <2>2
<1> QED
  BY <1>3, <1>4, <1>5 DEF CInv, RecordsClaimed, DraftsClaimed, SyncClaimed, KeaClaimed

LEMMA HandlerCInv ==
  ASSUME RouterPoolAssumption, CInv, TInv', [Next]_vars,
         NEW a \in Handlers, Continue(a) \/ PushLost(a)
  PROVE  CInv'
<1>1. ASSUME Refused(a), pc[a] \in {"scan", "check"}
      PROVE  CInv'
  BY <1>1, ReturnCInv, GotoCInv DEF Refused
<1>2. CASE ScanExhausted(a) \/ CheckTaken(a)
  BY <1>1, <1>2 DEF ScanExhausted, CheckTaken
<1>3. CASE UpsertUnchanged(a)
  BY <1>3, ReturnCInv, GotoCInv DEF UpsertUnchanged
<1>4. CASE PushAccepted(a) \/ PushUnconnected(a) \/ PushNothing(a) \/ PushLost(a)
  BY <1>4, ReturnCInv DEF PushAccepted, PushUnconnected, PushNothing, PushLost
<1> QED
  BY <1>2, <1>3, <1>4, LookupCInv, AllocCInv, WriteCInv DEF Continue

LEMMA SystemCInv ==
  ASSUME RouterPoolAssumption, CInv, TInv', [Next]_vars,
         SyncStarts \/ (\E r \in Records : SyncPush(r)) \/ Restart
  PROVE  CInv'
<1>1. TypeOK /\ TypeOK' /\ UNCHANGED <<devices, allocated>>
  BY DEF SyncStarts, SyncPush, Restart, trees, CInv, TInv
<1>2. \A h \in Hosts : allocated[h] # NoId => allocated'[h] # NoId
  BY <1>1
<1>3. RecordsClaimed'
  BY <1>1, <1>2, RecordsStay
<1>4. DraftsClaimed'
  <2>1. CASE Restart
    BY <2>1 DEF Restart, DraftsClaimed
  <2>2. CASE SyncStarts \/ \E r \in Records : SyncPush(r)
    <3>1. UNCHANGED <<pc, rec>>
      BY <2>2 DEF SyncStarts, SyncPush, local
    <3> QED
      BY <1>1, <3>1 DEF DraftsClaimed, CInv, Claimed
  <2> QED
    BY <2>1, <2>2
<1>5. SyncClaimed'
  <2>1. CASE SyncStarts
    BY <1>1, <2>1 DEF SyncStarts, SyncClaimed, CInv, Known, Claimed
  <2>2. CASE Restart \/ \E r \in Records : SyncPush(r)
    <3>1. sync' \subseteq sync
      BY <2>2 DEF Restart, SyncPush
    <3> QED
      BY <1>1, <1>2, <3>1, SyncStays
  <2> QED
    BY <2>1, <2>2
<1>6. KeaClaimed'
  <2>1. ASSUME NEW r \in Records, SyncPush(r)
        PROVE  KeaClaimed'
    <3>1. Claimed(r)
      BY <2>1 DEF SyncPush, CInv
    <3> QED
      BY <1>1, <2>1, <3>1 DEF SyncPush, KeaClaimed, CInv, TypeOK, Claimed, Records, Pushable
  <2>2. CASE SyncStarts \/ Restart
    BY <1>1, <1>2, <2>2, KeaStays DEF SyncStarts, Restart
  <2> QED
    BY <2>1, <2>2
<1> QED
  BY <1>3, <1>4, <1>5, <1>6 DEF CInv, RecordsClaimed, DraftsClaimed, SyncClaimed, KeaClaimed

LEMMA NextCInv ==
  ASSUME RouterPoolAssumption, CInv, [Next]_vars
  PROVE  CInv'
<1>1. TInv'
  BY NextTInv DEF CInv
<1>2. ASSUME NEW l \in Listeners, NEW n \in Natives, NEW m \in MacsOf[n], Heard(l, n, m)
      PROVE  CInv'
  BY <1>1, <1>2, StartCInv DEF Heard, Handlers
<1>3. ASSUME NEW c \in Callers, NEW m \in RegMacs, NEW h \in Pins,
             Register(c, m, h)
      PROVE  CInv'
  BY <1>1, <1>3, StartCInv DEF Register, Handlers
<1>4. CASE UNCHANGED vars
  BY <1>1, <1>4 DEF vars, trees, local, others, system, history, CInv, Known, Claimed
<1> QED
  BY <1>1, <1>2, <1>3, <1>4, HandlerCInv, SystemCInv DEF Next

(* NamedIsClaimed, for any number of listeners and callers interleaving at *)
(* every tree operation and restarts anywhere: the claim comes before the  *)
(* record and the record before the push, and nothing takes a claim back.  *)
THEOREM NamedAddressesAreClaimed ==
  ASSUME RouterPoolAssumption PROVE Spec => []NamedIsClaimed
<1>1. Init => CInv
  <2> SUFFICES ASSUME Init PROVE CInv
    OBVIOUS
  <2>1. TInv
    BY InitTInv
  <2>2. \A i \in Known : devices[i].managed = NoHost
    BY DEF Init, RouterPoolAssumption, IsOld, Known
  <2> QED
    BY <2>1, <2>2 DEF Init, CInv, Claimed
<1>2. CInv /\ [Next]_vars => CInv'
  BY NextCInv
<1>3. CInv => NamedIsClaimed
  BY DEF CInv, NamedIsClaimed, Claimed
<1> QED
  BY <1>1, <1>2, <1>3, PTL DEF Spec

-----------------------------------------------------------------------------
(* What the steps of a handler do, and leave of the others.                *)
Alive(a) == pc[a] \notin {"idle", "lookup"}

Alone(a) ==
  \A b \in Handlers \ {a} :
    pc'[b] = pc[b] /\ id'[b] = id[b] /\ rec'[b] = rec[b] /\ host'[b] = host[b]

(* The record is written as it is in hand.                                 *)
Written(a) == pc[a] = "upsert" /\ id[a] \in Known /\ devices[id[a]] = rec[a]

LEMMA FindFacts ==
  ASSUME RouterPoolAssumption, TInv, NEW a \in Handlers, FindRecord(a)
  PROVE  /\ pc[a] = "lookup" /\ Index(a) \in Known /\ Index(a) \in Ids
         /\ devices[Index(a)] \in Records
         /\ id'[a] = Index(a) /\ rec'[a].managed = devices[Index(a)].managed
         /\ rec'[a].native \in {NoNative, devices[Index(a)].native}
         /\ devices[Index(a)].managed = NoHost => pc'[a] \in {"scan", "check"}
         /\ devices[Index(a)].managed # NoHost => pc'[a] = "upsert"
         /\ Shares(a, Index(a)) => Index(a) \in shared'
         /\ shared \subseteq shared' /\ Alone(a)
         /\ UNCHANGED <<devices, byNative, allocated, contested, split, stopped>>
<1>1. job[a] \in Jobs /\ Index(a) \in Ids /\ devices[Index(a)] # NoRecord
  BY IndexIsKnown DEF FindRecord
<1>2. devices[Index(a)] \in Records /\ Index(a) \in Known
  BY <1>1 DEF TInv, TypeOK, Dbs, Known
<1>3. /\ Refreshed(a, devices[Index(a)]).managed = devices[Index(a)].managed
      /\ Refreshed(a, devices[Index(a)]).native \in {NoNative, devices[Index(a)].native}
  BY <1>2 DEF Refreshed, Records
<1>4. AllocStage(a) \in {"scan", "check"}
  BY DEF AllocStage
<1>5. Alone(a)
  BY DEF FindRecord, Go, Alone, TInv, TypeOK
<1>6. /\ id'[a] = Index(a) /\ rec'[a] = Refreshed(a, devices[Index(a)])
      /\ pc'[a] = IF devices[Index(a)].managed = NoHost THEN AllocStage(a) ELSE "upsert"
  BY DEF FindRecord, Go, TInv, TypeOK
<1> QED
  BY <1>1, <1>2, <1>3, <1>4, <1>5, <1>6 DEF FindRecord, trees

LEMMA NewFacts ==
  ASSUME RouterPoolAssumption, TInv, NEW a \in Handlers, NewRecord(a)
  PROVE  /\ pc[a] = "lookup" /\ pc'[a] \in {"scan", "check"} /\ Index(a) = NoId
         /\ job[a] \in Jobs /\ id'[a] \in Unused
         /\ rec'[a].managed = NoHost /\ rec'[a].native = job[a].native
         /\ FromListener(a) /\ Doubles(a, job[a].native) => job[a].native \in split'
         /\ split \subseteq split' /\ Alone(a)
         /\ UNCHANGED <<devices, byNative, allocated, contested, shared, stopped>>
<1>1. job[a] \in Jobs
  BY DEF TInv, TypeOK
<1>2. AllocStage(a) \in {"scan", "check"}
  BY DEF AllocStage
<1>3. PICK i \in Unused : i = CHOOSE j \in Unused : TRUE
  BY DEF NewRecord
<1>4. id'[a] = i /\ pc'[a] = AllocStage(a)
      /\ rec'[a] = [mac |-> job[a].mac, native |-> job[a].native, managed |-> NoHost]
  BY <1>3 DEF NewRecord, Go, TInv, TypeOK
<1>5. Alone(a)
  BY <1>3 DEF NewRecord, Go, Alone, TInv, TypeOK
<1> QED
  BY <1>1, <1>2, <1>3, <1>4, <1>5 DEF NewRecord, trees

LEMMA PassesFacts ==
  ASSUME RouterPoolAssumption, TInv, NEW a \in Handlers, NEW h \in Hosts, Passes(a, h)
  PROVE  /\ pc' = [pc EXCEPT ![a] = "claim"] /\ host' = [host EXCEPT ![a] = h]
         /\ pc'[a] = "claim" /\ host'[a] = h
         /\ Contends(a, h) => h \in contested'
         /\ contested \subseteq contested' /\ Alone(a)
         /\ UNCHANGED <<devices, byNative, allocated, id, rec, split, shared, stopped>>
  BY DEF Passes, Go, trees, Alone, TInv, TypeOK

LEMMA ClaimFacts ==
  ASSUME RouterPoolAssumption, TInv, NEW a \in Handlers, Claim(a)
  PROVE  /\ pc[a] = "claim" /\ pc'[a] = "upsert" /\ host[a] \in Hosts /\ id[a] \in Ids
         /\ rec'[a].managed = host[a] /\ rec'[a].native = rec[a].native
         /\ allocated' = [allocated EXCEPT ![host[a]] = id[a]]
         /\ Alone(a)
         /\ UNCHANGED <<devices, byNative, id, history>>
<1>1. id[a] \in Ids /\ rec[a] \in Records /\ host[a] \in Hosts
  BY DEF Claim, TInv, TypeOK, Prepared
<1>2. rec'[a] = [rec[a] EXCEPT !.managed = host[a]]
  BY DEF Claim, TInv, TypeOK
<1>3. rec'[a].managed = host[a] /\ rec'[a].native = rec[a].native
  BY <1>1, <1>2 DEF Records
<1>4. Alone(a) /\ pc'[a] = "upsert"
  BY DEF Claim, Go, Alone, TInv, TypeOK
<1> QED
  BY <1>1, <1>3, <1>4 DEF Claim, others

LEMMA UpsertFacts ==
  ASSUME RouterPoolAssumption, TInv, NEW a \in Handlers, Upsert(a)
  PROVE  /\ pc[a] = "upsert" /\ pc'[a] = "index" /\ id[a] \in Ids /\ rec[a] \in Records
         /\ devices'[id[a]] = rec[a] /\ Known' = Known \cup {id[a]}
         /\ \A i \in Ids \ {id[a]} : devices'[i] = devices[i]
         /\ Alone(a)
         /\ UNCHANGED <<byNative, allocated, id, rec, host, history>>
<1>1. id[a] \in Ids /\ rec[a] \in Records
  BY DEF Upsert, TInv, Prepared
<1>2. devices'[id[a]] = rec[a] /\ \A i \in Ids \ {id[a]} : devices'[i] = devices[i]
  BY <1>1 DEF Upsert, TInv, TypeOK, Dbs
<1>3. Known' = Known \cup {id[a]}
  BY <1>1, <1>2, Sets DEF Known
<1>4. Alone(a) /\ pc'[a] = "index"
  BY DEF Upsert, Go, Alone, TInv, TypeOK
<1> QED
  BY <1>1, <1>2, <1>3, <1>4 DEF Upsert, others

LEMMA IndexFacts ==
  ASSUME RouterPoolAssumption, TInv, NEW a \in Handlers, UpdateIndex(a)
  PROVE  /\ pc[a] = "index" /\ pc'[a] = "push" /\ id[a] \in Ids /\ rec[a] \in Records
         /\ byNative' = IF rec[a].native = NoNative THEN byNative
                        ELSE [byNative EXCEPT ![rec[a].native] = id[a]]
         /\ Alone(a)
         /\ UNCHANGED <<devices, allocated, id, rec, host, history>>
<1>1. id[a] \in Ids /\ rec[a] \in Records
  BY DEF UpdateIndex, TInv, Prepared
<1> QED
  BY <1>1 DEF UpdateIndex, Go, others, Alone, TInv, TypeOK

LEMMA GotoFacts ==
  ASSUME TInv, NEW a \in Handlers, NEW stage \in {"upsert", "push"}, Goto(a, stage)
  PROVE  /\ pc'[a] = stage /\ Alone(a)
         /\ UNCHANGED <<devices, byNative, allocated, id, rec, history>>
  BY DEF Goto, Go, trees, others, Alone, TInv, TypeOK

LEMMA ReturnFacts ==
  ASSUME TInv, NEW a \in Handlers, Return(a)
  PROVE  pc'[a] = "idle" /\ Alone(a) /\ UNCHANGED <<devices, byNative, allocated, history>>
  BY DEF Return, Go, trees, history, Alone, TInv, TypeOK

LEMMA BeginFacts ==
  ASSUME TInv, NEW a \in Handlers, NEW j, Begin(a, j)
  PROVE  /\ pc[a] = "idle" /\ pc'[a] = "lookup" /\ Alone(a)
         /\ UNCHANGED <<devices, byNative, allocated, id, rec, host, history>>
  BY DEF Begin, Go, trees, others, Alone, TInv, TypeOK

LEMMA ScanFacts ==
  ASSUME TInv, NEW a \in Handlers, ScanTaken(a)
  PROVE  /\ pc[a] = "scan" /\ Alone(a)
         /\ UNCHANGED <<devices, byNative, allocated, pc, id, rec, history>>
  BY DEF ScanTaken, trees, others, Alone, TInv, TypeOK

(* The steps of a handler.                                                 *)
Tested(a, h) ==
  pc[a] \in {"scan", "check"} /\ Passes(a, h) /\ allocated[h] \in {NoId, id[a]}
GivesUp(a) == pc[a] \in {"scan", "check"} /\ Goto(a, "upsert")
Rests(a) == Written(a) /\ Goto(a, "push")
Ends(a) == (pc[a] \in {"scan", "check", "push"} \/ Written(a)) /\ Return(a)
Works(a) ==
  \/ FindRecord(a) \/ NewRecord(a)
  \/ ScanTaken(a) \/ (\E h \in Hosts : Tested(a, h)) \/ Claim(a) \/ GivesUp(a)
  \/ Upsert(a) \/ UpdateIndex(a) \/ Rests(a) \/ Ends(a)

LEMMA HandlerWorks ==
  ASSUME RouterPoolAssumption, TInv, NEW a \in Handlers, Continue(a) \/ PushLost(a)
  PROVE  Works(a)
<1>1. CASE ScanFree(a)
  <2>1. host[a] \in Hosts
    BY DEF TInv, TypeOK
  <2> QED
    BY <1>1, <2>1 DEF ScanFree, Works, Tested
<1>2. CASE CheckFree(a)
  <2>1. job[a].want \in Hosts
    BY <1>2 DEF CheckFree, TInv, Prepared
  <2> QED
    BY <1>2, <2>1 DEF CheckFree, Works, Tested
<1>3. CASE ScanExhausted(a) \/ CheckTaken(a)
  BY <1>3 DEF ScanExhausted, CheckTaken, Refused, Works, GivesUp, Ends
<1>4. CASE UpsertUnchanged(a)
  <2>1. Written(a)
    BY <1>4, Sets DEF UpsertUnchanged, Written, Known, TInv, Prepared
  <2> QED
    BY <1>4, <2>1 DEF UpsertUnchanged, Works, Rests, Ends
<1>5. CASE PushAccepted(a) \/ PushUnconnected(a) \/ PushNothing(a) \/ PushLost(a)
  BY <1>5 DEF PushAccepted, PushUnconnected, PushNothing, PushLost, Works, Ends
<1> QED
  BY <1>1, <1>2, <1>3, <1>4, <1>5 DEF Continue, Works

(* The steps of the system: a handler starts, or works, or the router      *)
(* stops; the others leave the pool alone.                                 *)
LEMMA Steps ==
  ASSUME RouterPoolAssumption, TInv, [Next]_vars
  PROVE  \/ \E a \in Handlers : Works(a) \/ \E j : Begin(a, j)
         \/ Restart
         \/ UNCHANGED <<devices, byNative, allocated, pc, id, rec, host, history>>
<1>1. ASSUME NEW l \in Listeners, NEW n \in Natives, NEW m \in MacsOf[n], Heard(l, n, m)
      PROVE  \E a \in Handlers : \E j : Begin(a, j)
  BY <1>1 DEF Heard, Handlers
<1>2. ASSUME NEW c \in Callers, NEW m \in RegMacs, NEW h \in Pins, Register(c, m, h)
      PROVE  \E a \in Handlers : \E j : Begin(a, j)
  BY <1>2 DEF Register, Handlers
<1>3. CASE SyncStarts \/ (\E r \in Records : SyncPush(r)) \/ UNCHANGED vars
  BY <1>3 DEF SyncStarts, SyncPush, vars, trees, local, others
<1> QED
  BY <1>1, <1>2, <1>3, HandlerWorks DEF Next
-----------------------------------------------------------------------------
(* Who holds a host that was not contested: the device whose record, or    *)
(* draft, names it; and those about to claim it are handlers of one device,*)
(* which found it free or theirs.                                          *)
DraftOwn(a) ==
  /\ Alive(a) /\ rec[a].managed \notin contested \cup {NoHost}
       => allocated[rec[a].managed] = id[a]
  /\ pc[a] = "claim" /\ host[a] \notin contested => allocated[host[a]] \in {NoId, id[a]}

OneClaim ==
  \A a, b \in Handlers :
    pc[a] = "claim" /\ pc[b] = "claim" /\ host[a] = host[b] /\ host[a] \notin contested
      => id[a] = id[b]

OInv == TInv /\ ManagedIsOwn /\ (\A a \in Handlers : DraftOwn(a)) /\ OneClaim

(* A step of handler a that writes neither a record nor a claim.           *)
LEMMA QuietOwn ==
  ASSUME OInv, TInv', NEW a \in Handlers, Alone(a), UNCHANGED <<devices, allocated>>,
         contested \subseteq contested', DraftOwn(a)',
         pc'[a] = "claim" /\ host'[a] \notin contested' =>
           \A b \in Handlers \ {a} : pc[b] = "claim" /\ host[b] = host'[a] => id[b] = id'[a]
  PROVE  OInv'
<1>1. ManagedIsOwn'
  BY DEF OInv, ManagedIsOwn, Known
<1>2. \A b \in Handlers : DraftOwn(b)'
  <2> SUFFICES ASSUME NEW b \in Handlers, b # a PROVE DraftOwn(b)'
    OBVIOUS
  <2> QED
    BY DEF OInv, DraftOwn, Alive, Alone
<1>3. OneClaim'
  <2> SUFFICES ASSUME NEW b \in Handlers, NEW c \in Handlers, pc'[b] = "claim",
                      pc'[c] = "claim", host'[b] = host'[c], host'[b] \notin contested', b # c
               PROVE  id'[b] = id'[c]
    BY DEF OneClaim
  <2>1. CASE b = a
    BY <2>1 DEF Alone
  <2>2. CASE c = a
    BY <2>2 DEF Alone
  <2>3. CASE b # a /\ c # a
    BY <2>3 DEF Alone, OInv, OneClaim
  <2> QED
    BY <2>1, <2>2, <2>3
<1> QED
  BY <1>1, <1>2, <1>3 DEF OInv

LEMMA TestedOwn ==
  ASSUME RouterPoolAssumption, OInv, TInv', NEW a \in Handlers, NEW h \in Hosts, Tested(a, h)
  PROVE  OInv'
<1>1. TInv /\ DraftOwn(a) /\ Alive(a) /\ allocated[h] \in {NoId, id[a]} /\ Passes(a, h)
  BY DEF OInv, Tested, Alive
<1>2. /\ pc'[a] = "claim" /\ host'[a] = h /\ Alone(a) /\ contested \subseteq contested'
      /\ Contends(a, h) => h \in contested'
      /\ UNCHANGED <<devices, allocated, id, rec>>
  BY <1>1, PassesFacts
<1>3. DraftOwn(a)'
  BY <1>1, <1>2 DEF DraftOwn, Alive
<1>4. h \notin contested' =>
        \A b \in Handlers \ {a} : pc[b] = "claim" /\ host[b] = h => id[b] = id[a]
  BY <1>2 DEF Contends
<1> QED
  BY <1>2, <1>3, <1>4, QuietOwn

LEMMA ClaimOwn ==
  ASSUME RouterPoolAssumption, OInv, TInv', NEW a \in Handlers, Claim(a)
  PROVE  OInv'
<1> DEFINE h == host[a]
<1>1. TInv /\ TypeOK /\ DraftOwn(a)
  BY DEF OInv, TInv
<1>2. /\ pc[a] = "claim" /\ pc'[a] = "upsert" /\ h \in Hosts /\ id[a] \in Ids
      /\ rec'[a].managed = h /\ allocated' = [allocated EXCEPT ![h] = id[a]]
      /\ Alone(a) /\ UNCHANGED <<devices, id, contested>>
  BY <1>1, ClaimFacts DEF history
<1> HIDE DEF h
<1>3. /\ allocated'[h] = id[a]
      /\ \A g \in Hosts \ {h} : allocated'[g] = allocated[g]
  BY <1>1, <1>2 DEF TypeOK
<1>4. h \notin contested => allocated[h] \in {NoId, id[a]}
  BY <1>1, <1>2 DEF DraftOwn, h
<1>5. ASSUME NEW i \in Ids, NEW g \in Hosts, g \notin contested, allocated[g] = i
      PROVE  allocated'[g] = i
  BY <1>3, <1>4, <1>5, Sets
<1>6. ManagedIsOwn'
  <2> SUFFICES ASSUME NEW i \in Known, devices[i].managed \notin contested \cup {NoHost}
               PROVE  allocated'[devices[i].managed] = i
    BY <1>2 DEF ManagedIsOwn, Known
  <2>1. i \in Ids /\ devices[i].managed \in Hosts
    BY <1>1 DEF Known, TypeOK, Dbs, Records
  <2> QED
    BY <1>5, <2>1 DEF OInv, ManagedIsOwn
<1>7. ASSUME NEW b \in Handlers PROVE DraftOwn(b)'
  <2>1. CASE b = a
    BY <1>2, <1>3, <2>1 DEF DraftOwn
  <2>2. CASE b # a
    <3>1. DraftOwn(b) /\ pc'[b] = pc[b] /\ id'[b] = id[b] /\ rec'[b] = rec[b] /\ host'[b] = host[b]
      BY <1>2, <2>2 DEF OInv, Alone
    <3>2. Alive(b) => id[b] \in Ids /\ rec[b].managed \in Hosts \cup {NoHost}
      BY <1>1 DEF TInv, Prepared, Alive, Records
    <3>3. Alive(b) /\ rec[b].managed \notin contested \cup {NoHost}
            => allocated'[rec[b].managed] = id[b]
      BY <1>5, <3>1, <3>2 DEF DraftOwn
    <3>4. ASSUME pc[b] = "claim", host[b] \notin contested
          PROVE  allocated'[host[b]] \in {NoId, id[b]}
      <4>1. CASE host[b] = h
        BY <1>2, <1>3, <3>4, <4>1 DEF OInv, OneClaim, h
      <4>2. CASE host[b] # h
        BY <1>1, <1>3, <3>1, <3>4, <4>2 DEF DraftOwn, TypeOK
      <4> QED
        BY <4>1, <4>2
    <3> QED
      BY <1>2, <3>1, <3>3, <3>4 DEF DraftOwn, Alive
  <2> QED
    BY <2>1, <2>2
<1>8. OneClaim'
  BY <1>2 DEF Alone, OInv, OneClaim
<1> QED
  BY <1>6, <1>7, <1>8 DEF OInv

LEMMA WorksOwn ==
  ASSUME RouterPoolAssumption, OInv, TInv', NEW a \in Handlers, Works(a)
  PROVE  OInv'
<1>1. TInv /\ TypeOK /\ DraftOwn(a)
  BY DEF OInv, TInv
<1>2. CASE FindRecord(a)
  <2>1. /\ Index(a) \in Known /\ id'[a] = Index(a) /\ rec'[a].managed = devices[Index(a)].managed
        /\ pc'[a] # "claim" /\ Alone(a) /\ UNCHANGED <<devices, allocated, contested>>
    BY <1>1, <1>2, FindFacts
  <2>2. DraftOwn(a)'
    BY <2>1 DEF OInv, ManagedIsOwn, DraftOwn
  <2> QED
    BY <2>1, <2>2, QuietOwn
<1>3. CASE NewRecord(a)
  <2>1. /\ rec'[a].managed = NoHost /\ pc'[a] # "claim" /\ Alone(a)
        /\ UNCHANGED <<devices, allocated, contested>>
    BY <1>1, <1>3, NewFacts
  <2>2. DraftOwn(a)'
    BY <2>1 DEF DraftOwn
  <2> QED
    BY <2>1, <2>2, QuietOwn
<1>4. CASE ScanTaken(a) \/ GivesUp(a) \/ Rests(a) \/ UpdateIndex(a)
  <2>1. /\ Alive(a) /\ pc'[a] # "claim" /\ Alone(a)
        /\ UNCHANGED <<devices, allocated, id, rec, contested>>
    BY <1>1, <1>4, ScanFacts, GotoFacts, IndexFacts DEF GivesUp, Rests, Written, Alive, history
  <2>2. DraftOwn(a)'
    BY <1>1, <2>1 DEF DraftOwn, Alive
  <2> QED
    BY <2>1, <2>2, QuietOwn
<1>5. CASE Ends(a)
  <2>1. pc'[a] = "idle" /\ Alone(a) /\ UNCHANGED <<devices, allocated, contested>>
    BY <1>1, <1>5, ReturnFacts DEF Ends, history
  <2>2. DraftOwn(a)'
    BY <2>1 DEF DraftOwn, Alive
  <2> QED
    BY <2>1, <2>2, QuietOwn
<1>6. CASE Upsert(a)
  <2>1. /\ pc[a] = "upsert" /\ pc'[a] = "index" /\ id[a] \in Ids /\ devices'[id[a]] = rec[a]
        /\ Known' = Known \cup {id[a]} /\ \A i \in Ids \ {id[a]} : devices'[i] = devices[i]
        /\ Alone(a) /\ UNCHANGED <<allocated, id, rec, host, contested>>
    BY <1>1, <1>6, UpsertFacts DEF history
  <2>2. ManagedIsOwn'
    BY <1>1, <2>1 DEF OInv, ManagedIsOwn, Known, DraftOwn, Alive
  <2>3. ASSUME NEW b \in Handlers PROVE DraftOwn(b)'
    BY <1>1, <2>1 DEF OInv, DraftOwn, Alive, Alone
  <2>4. OneClaim'
    BY <2>1 DEF Alone, OInv, OneClaim
  <2> QED
    BY <2>2, <2>3, <2>4 DEF OInv
<1> QED
  BY <1>2, <1>3, <1>4, <1>5, <1>6, TestedOwn, ClaimOwn DEF Works

LEMMA NextOInv ==
  ASSUME RouterPoolAssumption, OInv, [Next]_vars
  PROVE  OInv'
<1>1. TInv /\ TInv'
  BY NextTInv DEF OInv
<1>2. ASSUME NEW a \in Handlers, NEW j, Begin(a, j)
      PROVE  OInv'
  <2>1. pc'[a] = "lookup" /\ Alone(a) /\ UNCHANGED <<devices, allocated, contested>>
    BY <1>1, <1>2, BeginFacts DEF history
  <2>2. DraftOwn(a)'
    BY <2>1 DEF DraftOwn, Alive
  <2> QED
    BY <1>1, <2>1, <2>2, QuietOwn
<1>3. CASE UNCHANGED <<devices, byNative, allocated, pc, id, rec, host, history>>
  BY <1>1, <1>3 DEF OInv, ManagedIsOwn, Known, DraftOwn, Alive, OneClaim, history
<1>4. CASE Restart
  BY <1>1, <1>4 DEF Restart, trees, OInv, ManagedIsOwn, Known, DraftOwn, Alive, OneClaim
<1> QED
  BY <1>1, <1>2, <1>3, <1>4, Steps, WorksOwn

LEMMA InitOInv == ASSUME RouterPoolAssumption, Init PROVE OInv
<1>1. TInv
  BY InitTInv
<1>2. \A i \in Known : devices[i].managed = NoHost
  BY DEF Init, RouterPoolAssumption, IsOld, Known
<1> QED
  BY <1>1, <1>2 DEF Init, OInv, ManagedIsOwn, DraftOwn, Alive, OneClaim

(* ManagedIsOwn, for any number of listeners and callers interleaving at   *)
(* every tree operation and restarts anywhere: outside the hosts that      *)
(* handlers of two devices found free at once, no two devices share a      *)
(* managed address (db.rs:178-184).                                        *)
THEOREM Owns == ASSUME RouterPoolAssumption PROVE Spec => []ManagedIsOwn
<1>1. Init => OInv
  BY InitOInv
<1>2. OInv /\ [Next]_vars => OInv'
  BY NextOInv
<1>3. OInv => ManagedIsOwn
  BY DEF OInv
<1> QED
  BY <1>1, <1>2, <1>3, PTL DEF Spec
-----------------------------------------------------------------------------
(* The refinement of Allocator.                                            *)
Wanted == [h \in Hosts |-> {id[a] : a \in Claiming(h)}]

(* A step that leaves the handlers about to claim as they are.             *)
LEMMA SameClaiming ==
  ASSUME NEW a \in Handlers, Alone(a), pc[a] # "claim", pc'[a] # "claim"
  PROVE  Wanted' = Wanted
<1> SUFFICES ASSUME NEW h \in Hosts
             PROVE  {id[b] : b \in Claiming(h)}' = {id[b] : b \in Claiming(h)}
  BY DEF Wanted
<1>1. Claiming(h)' = Claiming(h) /\ a \notin Claiming(h)
  BY DEF Claiming, Alone
<1>2. \A b \in Claiming(h) : id'[b] = id[b]
  BY <1>1 DEF Claiming, Alone
<1> QED
  BY <1>1, <1>2

LEMMA TestedLooks ==
  ASSUME RouterPoolAssumption, TInv, NEW a \in Handlers, NEW h \in Hosts, Tested(a, h)
  PROVE  \E i \in Ids : Alloc!Look(h, i)
<1>1. /\ pc[a] \in {"scan", "check"} /\ allocated[h] \in {NoId, id[a]} /\ id[a] \in Ids
      /\ pc'[a] = "claim" /\ host'[a] = h /\ Alone(a) /\ UNCHANGED <<allocated, id>>
  BY PassesFacts DEF Tested, TInv, Prepared
<1>2. Claiming(h)' = Claiming(h) \cup {a}
  BY <1>1 DEF Claiming, Alone
<1>3. \A g \in Hosts \ {h} : Claiming(g)' = Claiming(g)
  BY <1>1 DEF Claiming, Alone
<1>4. Wanted'[h] = Wanted[h] \cup {id[a]} /\ \A g \in Hosts \ {h} : Wanted'[g] = Wanted[g]
  BY <1>1, <1>2, <1>3 DEF Wanted
<1>5. Wanted' = [Wanted EXCEPT ![h] = @ \cup {id[a]}]
  BY <1>4 DEF Wanted
<1>6. PICK i \in Ids : i = id[a]
  BY <1>1
<1>7. Alloc!Look(h, i)
  BY <1>1, <1>5, <1>6 DEF Alloc!Look, Wanted
<1> QED
  BY <1>7

LEMMA ClaimGrants ==
  ASSUME RouterPoolAssumption, TInv, NEW a \in Handlers, Claim(a)
  PROVE  \E h \in Hosts, i \in Ids : Alloc!Grant(h, i)
<1>0. PICK h \in Hosts : h = host[a]
  BY ClaimFacts
<1>1. /\ pc[a] = "claim" /\ pc'[a] = "upsert" /\ h \in Hosts /\ id[a] \in Ids
      /\ allocated' = [allocated EXCEPT ![h] = id[a]] /\ Alone(a) /\ UNCHANGED id
  BY <1>0, ClaimFacts
<1>2. a \in Claiming(h)
  BY <1>0, <1>1 DEF Claiming
<1>3. Claiming(h)' = Claiming(h) \ {a} /\ a \in Handlers
  BY <1>1 DEF Claiming, Alone
<1>4. \A g \in Hosts \ {h} : Claiming(g)' = Claiming(g)
  BY <1>0, <1>1 DEF Claiming, Alone
<1>5. \A g \in Hosts \ {h} : Wanted'[g] = Wanted[g]
  BY <1>1, <1>4 DEF Wanted
<1>6. Wanted[h] = {id[b] : b \in Claiming(h)} /\ id[a] \in Wanted[h]
      /\ Wanted'[h] = {id[b] : b \in Claiming(h) \ {a}}
  BY <1>1, <1>2, <1>3 DEF Wanted
<1>7. Wanted'[h] = Wanted[h] \/ Wanted'[h] = Wanted[h] \ {id[a]}
  <2>1. CASE \E b \in Claiming(h) \ {a} : id[b] = id[a]
    BY <1>6, <2>1
  <2>2. CASE ~\E b \in Claiming(h) \ {a} : id[b] = id[a]
    BY <1>6, <2>2
  <2> QED
    BY <2>1, <2>2
<1>8. Wanted' \in {Wanted, [Wanted EXCEPT ![h] = @ \ {id[a]}]}
  <2>1. CASE Wanted'[h] = Wanted[h]
    <3>1. \A g \in Hosts : Wanted'[g] = Wanted[g]
      BY <1>5, <2>1
    <3> QED
      BY <3>1 DEF Wanted
  <2>2. CASE Wanted'[h] = Wanted[h] \ {id[a]}
    <3>1. Wanted' = [Wanted EXCEPT ![h] = @ \ {id[a]}]
      BY <1>5, <2>2 DEF Wanted
    <3> QED
      BY <3>1
  <2> QED
    BY <1>7, <2>1, <2>2
<1>9. PICK i \in Ids : i = id[a]
  BY <1>1
<1>10. Alloc!Grant(h, i)
  BY <1>1, <1>6, <1>8, <1>9 DEF Alloc!Grant, Wanted
<1> QED
  BY <1>10

LEMMA StepAllocates ==
  ASSUME RouterPoolAssumption, TInv, [Next]_vars
  PROVE  Alloc!Next \/ UNCHANGED <<allocated, Wanted>>
<1>1. ASSUME NEW a \in Handlers, Works(a)
      PROVE  Alloc!Next \/ UNCHANGED <<allocated, Wanted>>
  <2>1. CASE \E h \in Hosts : Tested(a, h)
    <3>1. PICK h \in Hosts : Tested(a, h)
      BY <2>1
    <3>2. PICK i \in Ids : Alloc!Look(h, i)
      BY <3>1, TestedLooks
    <3>3. Alloc!Next
      BY <3>2 DEF Alloc!Next
    <3> QED
      BY <3>3
  <2>2. CASE Claim(a)
    <3>1. PICK h \in Hosts, i \in Ids : Alloc!Grant(h, i)
      BY <2>2, ClaimGrants
    <3>2. Alloc!Next
      BY <3>1 DEF Alloc!Next
    <3> QED
      BY <3>2
  <2>3. CASE FindRecord(a) \/ NewRecord(a)
    <3>1. pc[a] # "claim" /\ pc'[a] # "claim" /\ Alone(a) /\ UNCHANGED allocated
      BY <2>3, FindFacts, NewFacts
    <3> QED
      BY <3>1, SameClaiming
  <2>4. CASE ScanTaken(a) \/ GivesUp(a) \/ Rests(a) \/ Ends(a)
    <3>1. pc[a] # "claim" /\ pc'[a] # "claim" /\ Alone(a) /\ UNCHANGED allocated
      BY <2>4, ScanFacts, GotoFacts, ReturnFacts DEF GivesUp, Rests, Ends, Written
    <3> QED
      BY <3>1, SameClaiming
  <2>5. CASE Upsert(a) \/ UpdateIndex(a)
    <3>1. pc[a] # "claim" /\ pc'[a] # "claim" /\ Alone(a) /\ UNCHANGED allocated
      BY <2>5, UpsertFacts, IndexFacts
    <3> QED
      BY <3>1, SameClaiming
  <2> QED
    BY <1>1, <2>1, <2>2, <2>3, <2>4, <2>5 DEF Works
<1>2. ASSUME NEW a \in Handlers, NEW j, Begin(a, j)
      PROVE  UNCHANGED <<allocated, Wanted>>
  <2>1. pc[a] # "claim" /\ pc'[a] # "claim" /\ Alone(a) /\ UNCHANGED allocated
    BY <1>2, BeginFacts
  <2> QED
    BY <2>1, SameClaiming
<1>3. CASE Restart
  <2>1. \A h \in Hosts : Claiming(h)' = {}
    BY <1>3 DEF Restart, Claiming
  <2>2. Wanted' = [h \in Hosts |-> {}] /\ UNCHANGED allocated
    BY <1>3, <2>1 DEF Wanted, Restart, trees
  <2> QED
    BY <2>2 DEF Alloc!Next, Alloc!Forget, Wanted
<1>4. CASE UNCHANGED <<devices, byNative, allocated, pc, id, rec, host, history>>
  BY <1>4 DEF Wanted, Claiming
<1> QED
  BY <1>1, <1>2, <1>3, <1>4, Steps

LEMMA SpecAllocates == ASSUME RouterPoolAssumption PROVE Spec => AllocatorSpec
<1>1. Init => Alloc!Init
  <2> SUFFICES ASSUME Init PROVE Alloc!Init
    OBVIOUS
  <2>1. \A h \in Hosts : Claiming(h) = {}
    BY DEF Init, Claiming
  <2> QED
    BY <2>1 DEF Init, Alloc!Init
<1>2. Init => TInv
  BY InitTInv
<1>3. TInv /\ [Next]_vars => TInv'
  BY NextTInv
<1>4. TInv /\ [Next]_vars => [Alloc!Next]_(Alloc!vars)
  BY StepAllocates DEF Wanted, Alloc!vars
<1> QED
  BY <1>1, <1>2, <1>3, <1>4, PTL DEF Spec, AllocatorSpec, Alloc!Spec

(* The pool implements the allocator, whatever handlers interleave: a host *)
(* goes only to a device whose handler found it free, or that device's,    *)
(* since the start (db.rs:178-230).                                        *)
THEOREM Allocates == ASSUME RouterPoolAssumption PROVE Spec => AllocatorSpec
  BY SpecAllocates

(* A step of the allocator keeps a settled host settled.                   *)
LEMMA StepSettled ==
  ASSUME RouterPoolAssumption, TInv, [Next]_vars, NEW h \in Hosts, Alloc!Settled(h)
  PROVE  Alloc!Settled(h)' /\ allocated'[h] = allocated[h]
<1>1. allocated[h] # NoId /\ Wanted[h] \subseteq {allocated[h]} /\ h \in DOMAIN allocated
  BY DEF Alloc!Settled, Wanted, TInv, TypeOK
<1>2. DOMAIN Wanted = Hosts
  BY DEF Wanted
<1>3. CASE Alloc!Next
  <2>1. \/ \E g \in Hosts, i \in Ids :
             /\ allocated[g] \in {NoId, i} /\ UNCHANGED allocated
             /\ Wanted' = [Wanted EXCEPT ![g] = @ \cup {i}]
        \/ \E g \in Hosts, i \in Ids :
             /\ i \in Wanted[g] /\ allocated' = [allocated EXCEPT ![g] = i]
             /\ Wanted' \in {Wanted, [Wanted EXCEPT ![g] = @ \ {i}]}
        \/ Wanted' = [g \in Hosts |-> {}] /\ UNCHANGED allocated
    BY <1>3 DEF Alloc!Next, Alloc!Look, Alloc!Grant, Alloc!Forget, Wanted
  <2>2. allocated'[h] = allocated[h] /\ Wanted'[h] \subseteq {allocated[h]}
    BY <1>1, <1>2, <2>1
  <2> QED
    BY <1>1, <2>2 DEF Alloc!Settled, Wanted
<1>4. CASE UNCHANGED <<allocated, Wanted>>
  <2>1. allocated'[h] = allocated[h] /\ Wanted'[h] \subseteq {allocated[h]}
    BY <1>1, <1>4
  <2> QED
    BY <1>1, <2>1 DEF Alloc!Settled, Wanted
<1> QED
  BY <1>3, <1>4, StepAllocates

(* What follows from the allocator: a host that nobody but its holder is   *)
(* about to claim stays its holder's for ever, since every further test    *)
(* finds it taken (db.rs:185-188, 219-224).                                *)
THEOREM HoldersStay == ASSUME RouterPoolAssumption PROVE Spec => Alloc!SettledStays
<1>1. Init => TInv
  BY InitTInv
<1>2. TInv /\ [Next]_vars => TInv'
  BY NextTInv
<1>3. TInv /\ [Next]_vars =>
        [\A h \in Hosts : Alloc!Settled(h)
           => Alloc!Settled(h)' /\ allocated'[h] = allocated[h]]_(Alloc!vars)
  BY StepSettled
<1> QED
  BY <1>1, <1>2, <1>3, PTL DEF Spec, Alloc!SettledStays
-----------------------------------------------------------------------------
(* The ids that go with a tuya_id: those of its records and of the drafts  *)
(* in hand.  It has one; once it is indexed it is the indexed one, before  *)
(* that a record of it has a handler about to write the index.             *)
Mine(n) == {i \in Known : devices[i].native = n}
Drafts(n) == {a \in Handlers : Alive(a) /\ rec[a].native = n}
Holders(n) == Mine(n) \cup {id[a] : a \in Drafts(n)}

OneHolder(n) ==
  /\ byNative[n] # NoId => Holders(n) \subseteq {byNative[n]}
  /\ byNative[n] = NoId =>
       /\ \A i, j \in Holders(n) : i = j
       /\ Mine(n) # {} => \E a \in Drafts(n) : pc[a] = "index"

NInv == TInv /\ \A n \in Natives \ split : OneHolder(n)

(* A step of handler a that writes neither a record nor an index.          *)
LEMMA QuietHolder ==
  ASSUME NEW n, OneHolder(n), NEW a \in Handlers, Alone(a), UNCHANGED <<devices, byNative>>,
         pc[a] # "index", Alive(a)' /\ rec'[a].native = n => id'[a] \in Holders(n)
  PROVE  OneHolder(n)'
<1>1. Mine(n)' = Mine(n)
  BY DEF Mine, Known
<1>2. \A b \in Drafts(n) : pc[b] = "index" => b \in Drafts(n)' /\ pc'[b] = "index"
  BY DEF Drafts, Alone, Alive
<1>3. ASSUME NEW b \in Drafts(n)' PROVE id'[b] \in Holders(n)
  <2>1. CASE b = a
    BY <1>3, <2>1 DEF Drafts
  <2>2. CASE b # a
    <3>1. b \in Drafts(n) /\ id'[b] = id[b]
      BY <1>3, <2>2 DEF Drafts, Alone, Alive
    <3> QED
      BY <3>1 DEF Holders
  <2> QED
    BY <2>1, <2>2
<1>4. Holders(n)' \subseteq Holders(n)
  BY <1>1, <1>3 DEF Holders
<1> QED
  BY <1>1, <1>2, <1>4 DEF OneHolder

LEMMA NewHolder ==
  ASSUME RouterPoolAssumption, TInv, NEW a \in Handlers, NewRecord(a),
         NEW n \in Natives \ split', OneHolder(n)
  PROVE  OneHolder(n)'
<1>1. /\ pc[a] = "lookup" /\ pc'[a] \in {"scan", "check"} /\ Index(a) = NoId
      /\ job[a] \in Jobs /\ rec'[a].native = job[a].native
      /\ FromListener(a) /\ Doubles(a, job[a].native) => job[a].native \in split'
      /\ Alone(a) /\ UNCHANGED <<devices, byNative>>
  BY NewFacts
<1>2. CASE job[a].native # n
  BY <1>1, <1>2, QuietHolder
<1>3. CASE job[a].native = n
  <2>1. FromListener(a) /\ byNative[n] = NoId
    BY <1>1, <1>3, Sets DEF FromListener, Index, Entry
  <2>2. ~Doubles(a, n)
    BY <1>1, <1>3, <2>1
  <2>3. Drafts(n) = {}
    BY <1>1, <2>2 DEF Drafts, Doubles, Alive
  <2>4. Mine(n) = {}
    BY <2>1, <2>3 DEF OneHolder
  <2>5. Mine(n)' = {}
    BY <1>1, <2>4 DEF Mine, Known
  <2>6. Drafts(n)' \subseteq {a}
    BY <1>1, <2>3 DEF Drafts, Alone, Alive
  <2>7. byNative'[n] = NoId
    BY <1>1, <2>1
  <2> QED
    BY <2>5, <2>6, <2>7 DEF OneHolder, Holders
<1> QED
  BY <1>2, <1>3

LEMMA UpsertHolder ==
  ASSUME RouterPoolAssumption, TInv, NEW a \in Handlers, Upsert(a),
         NEW n \in Natives, OneHolder(n)
  PROVE  OneHolder(n)'
<1>1. /\ pc[a] = "upsert" /\ pc'[a] = "index" /\ id[a] \in Ids /\ devices'[id[a]] = rec[a]
      /\ Known' = Known \cup {id[a]} /\ \A i \in Ids \ {id[a]} : devices'[i] = devices[i]
      /\ Alone(a) /\ UNCHANGED <<byNative, id, rec>>
  BY UpsertFacts
<1>2. Drafts(n)' = Drafts(n) /\ (rec[a].native = n => a \in Drafts(n))
  BY <1>1 DEF Drafts, Alone, Alive
<1>3. \A b \in Drafts(n) : pc[b] = "index" => pc'[b] = "index"
  BY <1>1 DEF Drafts, Alone
<1>4. \A i \in Mine(n)' : i \in Mine(n) \/ (i = id[a] /\ rec[a].native = n)
  BY <1>1 DEF Mine, Known
<1>5. Holders(n)' \subseteq Holders(n)
  BY <1>1, <1>2, <1>4 DEF Holders
<1>6. Mine(n)' # {} => Mine(n) # {} \/ (a \in Drafts(n) /\ pc'[a] = "index")
  BY <1>1, <1>2, <1>4
<1> QED
  BY <1>1, <1>2, <1>3, <1>5, <1>6 DEF OneHolder

LEMMA IndexHolder ==
  ASSUME RouterPoolAssumption, TInv, NEW a \in Handlers, UpdateIndex(a),
         NEW n \in Natives, OneHolder(n)
  PROVE  OneHolder(n)'
<1>1. /\ pc[a] = "index" /\ pc'[a] = "push" /\ id[a] \in Ids
      /\ byNative' = IF rec[a].native = NoNative THEN byNative
                     ELSE [byNative EXCEPT ![rec[a].native] = id[a]]
      /\ Alone(a) /\ UNCHANGED <<devices, id, rec>>
  BY IndexFacts
<1>2. Drafts(n)' = Drafts(n) /\ Mine(n)' = Mine(n)
  BY <1>1 DEF Drafts, Alone, Alive, Mine, Known
<1>3. Holders(n)' = Holders(n)
  BY <1>1, <1>2 DEF Holders
<1>4. n # NoNative /\ byNative \in [Natives -> Ids \cup {NoId}]
  BY Sets DEF TInv, TypeOK
<1>5. CASE rec[a].native = n
  <2>1. id[a] \in Holders(n)
    BY <1>1, <1>5 DEF Holders, Drafts, Alive
  <2>2. byNative'[n] = id[a] /\ id[a] # NoId
    BY <1>1, <1>4, <1>5, Sets
  <2>3. Holders(n) \subseteq {id[a]}
    BY <2>1 DEF OneHolder
  <2> QED
    BY <1>3, <2>2, <2>3 DEF OneHolder
<1>6. CASE rec[a].native # n
  <2>1. byNative'[n] = byNative[n]
    BY <1>1, <1>4, <1>6
  <2>2. \A b \in Drafts(n) : pc[b] = "index" => pc'[b] = "index"
    BY <1>1, <1>6 DEF Drafts, Alone
  <2> QED
    BY <1>2, <1>3, <2>1, <2>2 DEF OneHolder
<1> QED
  BY <1>5, <1>6

LEMMA WorksHolder ==
  ASSUME RouterPoolAssumption, TInv, NEW a \in Handlers, Works(a),
         NEW n \in Natives \ split', OneHolder(n)
  PROVE  OneHolder(n)'
<1>1. CASE FindRecord(a)
  <2>1. /\ pc[a] = "lookup" /\ Index(a) \in Known /\ id'[a] = Index(a)
        /\ rec'[a].native \in {NoNative, devices[Index(a)].native}
        /\ Alone(a) /\ UNCHANGED <<devices, byNative>>
    BY <1>1, FindFacts
  <2>2. rec'[a].native = n => id'[a] \in Holders(n)
    BY <2>1, Sets DEF Holders, Mine
  <2> QED
    BY <2>1, <2>2, QuietHolder
<1>2. CASE (\E h \in Hosts : Tested(a, h)) \/ ScanTaken(a) \/ GivesUp(a) \/ Rests(a)
  <2>1. /\ Alive(a) /\ pc[a] # "index" /\ Alone(a) /\ UNCHANGED <<devices, byNative, id, rec>>
    BY <1>2, PassesFacts, ScanFacts, GotoFacts DEF Tested, GivesUp, Rests, Written, Alive
  <2>2. rec'[a].native = n => id'[a] \in Holders(n)
    BY <2>1 DEF Holders, Drafts
  <2> QED
    BY <2>1, <2>2, QuietHolder
<1>3. CASE Claim(a)
  <2>1. /\ pc[a] = "claim" /\ rec'[a].native = rec[a].native
        /\ Alone(a) /\ UNCHANGED <<devices, byNative, id>>
    BY <1>3, ClaimFacts
  <2>2. rec'[a].native = n => id'[a] \in Holders(n)
    BY <2>1 DEF Holders, Drafts, Alive
  <2> QED
    BY <2>1, <2>2, QuietHolder
<1>4. CASE Ends(a)
  <2>1. pc[a] # "index" /\ ~Alive(a)' /\ Alone(a) /\ UNCHANGED <<devices, byNative>>
    BY <1>4, ReturnFacts DEF Ends, Written, Alive
  <2> QED
    BY <2>1, QuietHolder
<1> QED
  BY <1>1, <1>2, <1>3, <1>4, NewHolder, UpsertHolder, IndexHolder DEF Works

LEMMA NextNInv ==
  ASSUME RouterPoolAssumption, NInv, [Next]_vars
  PROVE  NInv'
<1>1. TInv /\ TInv'
  BY NextTInv DEF NInv
<1>2. split \subseteq split'
  <2>1. ASSUME NEW a \in Handlers, Works(a)
        PROVE  split \subseteq split'
    <3>1. CASE FindRecord(a) \/ NewRecord(a) \/ Claim(a)
      BY <1>1, <3>1, FindFacts, NewFacts, ClaimFacts DEF history
    <3>2. CASE (\E h \in Hosts : Tested(a, h)) \/ ScanTaken(a) \/ GivesUp(a)
      BY <1>1, <3>2, PassesFacts, ScanFacts, GotoFacts DEF Tested, GivesUp, history
    <3>3. CASE Upsert(a) \/ UpdateIndex(a) \/ Rests(a) \/ Ends(a)
      BY <1>1, <3>3, UpsertFacts, IndexFacts, GotoFacts, ReturnFacts DEF Rests, Ends, history
    <3> QED
      BY <2>1, <3>1, <3>2, <3>3 DEF Works
  <2>2. CASE Restart
    BY <2>2 DEF Restart
  <2>3. ASSUME NEW a \in Handlers, NEW j, Begin(a, j)
        PROVE  split \subseteq split'
    BY <1>1, <2>3, BeginFacts DEF history
  <2> QED
    BY <1>1, <2>1, <2>2, <2>3, Steps DEF history
<1> SUFFICES ASSUME NEW n \in Natives \ split' PROVE OneHolder(n)'
  BY <1>1 DEF NInv
<1>3. OneHolder(n)
  BY <1>2 DEF NInv
<1>4. ASSUME NEW a \in Handlers, NEW j, Begin(a, j)
      PROVE  OneHolder(n)'
  <2>1. pc[a] # "index" /\ ~Alive(a)' /\ Alone(a) /\ UNCHANGED <<devices, byNative>>
    BY <1>1, <1>4, BeginFacts DEF Alive
  <2> QED
    BY <1>3, <2>1, QuietHolder
<1>5. CASE Restart
  <2>1. Drafts(n)' = {} /\ Mine(n)' = Mine(n) /\ UNCHANGED byNative
    BY <1>5 DEF Restart, trees, Drafts, Alive, Mine, Known
  <2>2. byNative[n] = NoId => Mine(n) = {}
    BY <1>5 DEF Restart, Mine
  <2>3. Mine(n) \subseteq Holders(n)
    BY DEF Holders
  <2> QED
    BY <1>3, <2>1, <2>2, <2>3 DEF OneHolder, Holders
<1>6. CASE UNCHANGED <<devices, byNative, allocated, pc, id, rec, host, history>>
  BY <1>3, <1>6 DEF OneHolder, Holders, Mine, Known, Drafts, Alive
<1> QED
  BY <1>1, <1>3, <1>4, <1>5, <1>6, Steps, WorksHolder

LEMMA InitNInv == ASSUME RouterPoolAssumption, Init PROVE NInv
<1>1. TInv
  BY InitTInv
<1> SUFFICES ASSUME NEW n \in Natives PROVE OneHolder(n)
  BY <1>1 DEF NInv
<1>2. Drafts(n) = {}
  BY DEF Init, Drafts, Alive
<1>3. \A i, j \in Mine(n) : i = j
  BY Sets DEF Init, RouterPoolAssumption, IsOld, Mine, Known
<1>4. Mine(n) \in SUBSET Ids /\ byNative[n] = OneOf(Mine(n))
  BY DEF Init, Mine, Known
<1>5. byNative[n] \in Mine(n) \cup {NoId} /\ (byNative[n] = NoId => Mine(n) = {})
  BY <1>4, OneOfIsIn, Sets DEF OneOf
<1> QED
  BY <1>2, <1>3, <1>5 DEF OneHolder, Holders

(* OneRecordPerNative, for any handlers and restarts: a tuya_id that no    *)
(* two listeners look up at once, and whose record no stop keeps from its  *)
(* index, has one record (discovery.rs:395-397).                           *)
THEOREM OneRecord == ASSUME RouterPoolAssumption PROVE Spec => []OneRecordPerNative
<1>1. Init => NInv
  BY InitNInv
<1>2. NInv /\ [Next]_vars => NInv'
  BY NextNInv
<1>3. NInv => OneRecordPerNative
  <2> SUFFICES ASSUME NInv, NEW i \in Known, NEW j \in Known,
                      devices[i].native = devices[j].native,
                      devices[i].native \notin split \cup {NoNative}
               PROVE  i = j
    BY DEF OneRecordPerNative
  <2> DEFINE n == devices[i].native
  <2>1. n \in Natives \ split
    BY DEF NInv, TInv, TypeOK, Dbs, Records, Known
  <2>2. i \in Holders(n) /\ j \in Holders(n) /\ OneHolder(n)
    BY <2>1 DEF Holders, Mine, NInv
  <2> HIDE DEF n
  <2> QED
    BY <2>2 DEF OneHolder
<1> QED
  BY <1>1, <1>2, <1>3, PTL DEF Spec
-----------------------------------------------------------------------------
(* The handlers that build a record.  There is one, unless the record has  *)
(* its address already; a handler that has still to allocate one has found *)
(* none, and one that writes the record writes the address it has.         *)
Builds(a, i) == Building(a) /\ id[a] = i

BuiltByOne(i) ==
  \A a, b \in Handlers : Builds(a, i) /\ Builds(b, i) /\ a # b =>
    i \in Known /\ devices[i].managed # NoHost
AllocatesFirst(a, i) ==
  pc[a] \in {"scan", "check", "claim"} /\ id[a] = i =>
    rec[a].managed = NoHost /\ (i \in Known => devices[i].managed = NoHost)
WritesSame(a, i) ==
  pc[a] = "upsert" /\ id[a] = i /\ i \in Known /\ devices[i].managed # NoHost =>
    rec[a].managed = devices[i].managed

Apart(i) ==
  BuiltByOne(i) /\ \A a \in Handlers : AllocatesFirst(a, i) /\ WritesSame(a, i)

LInv == TInv /\ \A i \in Ids \ shared : Apart(i)

(* A step that writes no record and makes nobody a builder.                *)
LEMMA QuietApart ==
  ASSUME NEW i, Apart(i), NEW a \in Handlers, Alone(a), UNCHANGED devices,
         Builds(a, i)' => Builds(a, i), AllocatesFirst(a, i)', WritesSame(a, i)'
  PROVE  Apart(i)'
<1>1. Known' = Known
  BY DEF Known
<1>2. \A b \in Handlers : Builds(b, i)' => Builds(b, i)
  BY DEF Alone, Builds, Building
<1>3. BuiltByOne(i)'
  BY <1>1, <1>2 DEF Apart, BuiltByOne
<1>4. \A b \in Handlers : AllocatesFirst(b, i)' /\ WritesSame(b, i)'
  BY <1>1 DEF Apart, Alone, AllocatesFirst, WritesSame
<1> QED
  BY <1>3, <1>4 DEF Apart

LEMMA FindApart ==
  ASSUME RouterPoolAssumption, TInv, NEW a \in Handlers, FindRecord(a),
         NEW i \in Ids \ shared', Apart(i)
  PROVE  Apart(i)'
<1>1. /\ pc[a] = "lookup" /\ Index(a) \in Known
      /\ id'[a] = Index(a) /\ rec'[a].managed = devices[Index(a)].managed
      /\ devices[Index(a)].managed = NoHost => pc'[a] \in {"scan", "check"}
      /\ devices[Index(a)].managed # NoHost => pc'[a] = "upsert"
      /\ Shares(a, Index(a)) => Index(a) \in shared'
      /\ Alone(a) /\ UNCHANGED devices
  BY FindFacts
<1>2. Known' = Known
  BY <1>1 DEF Known
<1>3. AllocatesFirst(a, i)' /\ WritesSame(a, i)'
  BY <1>1, <1>2 DEF AllocatesFirst, WritesSame
<1>4. CASE Index(a) # i
  BY <1>1, <1>3, <1>4, QuietApart DEF Builds
<1>5. CASE Index(a) = i
  <2>1. BuiltByOne(i)'
    <3>1. \A b \in Handlers \ {a} : Builds(b, i)' => Builds(b, i)
      BY <1>1 DEF Alone, Builds, Building
    <3>2. ~Shares(a, i)
      BY <1>1, <1>5
    <3>3. devices[i].managed = NoHost => \A b \in Handlers \ {a} : ~Builds(b, i)
      BY <3>2 DEF Shares, Builds
    <3> QED
      BY <1>1, <1>2, <1>5, <3>1, <3>3 DEF BuiltByOne
  <2>2. \A b \in Handlers : AllocatesFirst(b, i)' /\ WritesSame(b, i)'
    BY <1>1, <1>2, <1>3 DEF Apart, Alone, AllocatesFirst, WritesSame
  <2> QED
    BY <2>1, <2>2 DEF Apart
<1> QED
  BY <1>4, <1>5

LEMMA NewApart ==
  ASSUME RouterPoolAssumption, TInv, NEW a \in Handlers, NewRecord(a), NEW i \in Ids, Apart(i)
  PROVE  Apart(i)'
<1>1. /\ pc[a] = "lookup" /\ pc'[a] \in {"scan", "check"} /\ id'[a] \in Unused
      /\ rec'[a].managed = NoHost /\ Alone(a) /\ UNCHANGED devices
  BY NewFacts
<1>2. Known' = Known /\ id'[a] \notin Known /\ \A b \in Handlers : id[b] # id'[a]
  BY <1>1 DEF Known, Unused
<1>3. AllocatesFirst(a, i)' /\ WritesSame(a, i)'
  BY <1>1, <1>2 DEF AllocatesFirst, WritesSame
<1>4. CASE id'[a] # i
  BY <1>1, <1>3, <1>4, QuietApart DEF Builds
<1>5. CASE id'[a] = i
  <2>1. \A b \in Handlers \ {a} : ~Builds(b, i)'
    BY <1>1, <1>2, <1>5 DEF Alone, Builds
  <2>2. BuiltByOne(i)'
    BY <2>1 DEF BuiltByOne
  <2>3. \A b \in Handlers \ {a} : AllocatesFirst(b, i)' /\ WritesSame(b, i)'
    BY <1>1, <1>2, <1>5 DEF Alone, AllocatesFirst, WritesSame
  <2> QED
    BY <1>3, <2>2, <2>3 DEF Apart
<1> QED
  BY <1>4, <1>5

LEMMA UpsertApart ==
  ASSUME RouterPoolAssumption, TInv, NEW a \in Handlers, Upsert(a), NEW i \in Ids, Apart(i)
  PROVE  Apart(i)'
<1>1. /\ pc[a] = "upsert" /\ pc'[a] = "index" /\ id[a] \in Ids
      /\ devices'[id[a]] = rec[a] /\ Known' = Known \cup {id[a]}
      /\ \A j \in Ids \ {id[a]} : devices'[j] = devices[j]
      /\ Alone(a) /\ UNCHANGED <<id, rec>>
  BY UpsertFacts
<1>2. \A b \in Handlers : Builds(b, i)' => b # a /\ Builds(b, i)
  BY <1>1 DEF Alone, Builds, Building
<1>3. CASE id[a] # i
  <2>1. devices'[i] = devices[i] /\ (i \in Known' <=> i \in Known)
    BY <1>1, <1>3
  <2>2. BuiltByOne(i)'
    BY <1>2, <2>1 DEF Apart, BuiltByOne
  <2>3. \A b \in Handlers : AllocatesFirst(b, i)' /\ WritesSame(b, i)'
    BY <1>1, <1>3, <2>1 DEF Apart, Alone, AllocatesFirst, WritesSame
  <2> QED
    BY <2>2, <2>3 DEF Apart
<1>4. CASE id[a] = i
  <2>1. Builds(a, i) /\ WritesSame(a, i)
    BY <1>1, <1>4 DEF Builds, Building, Apart
  <2>2. ASSUME NEW b \in Handlers, b # a, Builds(b, i)
        PROVE  i \in Known /\ devices[i].managed # NoHost /\ devices'[i].managed = devices[i].managed
    <3>1. i \in Known /\ devices[i].managed # NoHost
      BY <2>1, <2>2 DEF Apart, BuiltByOne
    <3>2. rec[a].managed = devices[i].managed
      BY <1>1, <1>4, <2>1, <3>1 DEF WritesSame
    <3> QED
      BY <1>1, <1>4, <3>1, <3>2
  <2>3. BuiltByOne(i)'
    BY <1>1, <1>2, <2>2 DEF BuiltByOne
  <2>4. ASSUME NEW b \in Handlers
        PROVE  AllocatesFirst(b, i)' /\ WritesSame(b, i)'
    <3>1. CASE b = a
      BY <1>1, <3>1 DEF AllocatesFirst, WritesSame
    <3>2. CASE b # a
      <4>1. pc'[b] = pc[b] /\ id'[b] = id[b] /\ rec'[b] = rec[b]
        BY <1>1, <3>2 DEF Alone
      <4>2. AllocatesFirst(b, i) /\ WritesSame(b, i)
        BY DEF Apart
      <4>3. pc[b] \in {"scan", "check", "claim", "upsert"} /\ id[b] = i => Builds(b, i)
        BY DEF Builds, Building
      <4> QED
        BY <2>2, <3>2, <4>1, <4>2, <4>3 DEF AllocatesFirst, WritesSame
    <3> QED
      BY <3>1, <3>2
  <2> QED
    BY <2>3, <2>4 DEF Apart
<1> QED
  BY <1>3, <1>4

LEMMA WorksApart ==
  ASSUME RouterPoolAssumption, TInv, NEW a \in Handlers, Works(a),
         NEW i \in Ids \ shared', Apart(i)
  PROVE  Apart(i)'
<1>1. AllocatesFirst(a, i) /\ WritesSame(a, i)
  BY DEF Apart
<1>2. CASE (\E h \in Hosts : Tested(a, h)) \/ ScanTaken(a)
  <2>1. /\ pc[a] \in {"scan", "check"} /\ pc'[a] \in {"scan", "check", "claim"} /\ Alone(a)
        /\ UNCHANGED <<devices, id, rec>>
    BY <1>2, PassesFacts, ScanFacts DEF Tested
  <2>2. AllocatesFirst(a, i)' /\ WritesSame(a, i)' /\ (Builds(a, i)' => Builds(a, i))
    BY <1>1, <2>1 DEF AllocatesFirst, WritesSame, Builds, Building, Known
  <2> QED
    BY <2>1, <2>2, QuietApart
<1>3. CASE Claim(a) \/ GivesUp(a)
  <2>1. /\ pc[a] \in {"scan", "check", "claim"} /\ pc'[a] = "upsert" /\ Alone(a)
        /\ UNCHANGED <<devices, id>>
    BY <1>3, ClaimFacts, GotoFacts DEF GivesUp
  <2>2. AllocatesFirst(a, i)' /\ WritesSame(a, i)' /\ (Builds(a, i)' => Builds(a, i))
    BY <1>1, <2>1 DEF AllocatesFirst, WritesSame, Builds, Building, Known
  <2> QED
    BY <2>1, <2>2, QuietApart
<1>4. CASE UpdateIndex(a) \/ Rests(a) \/ Ends(a)
  <2>1. pc'[a] \in {"push", "idle"} /\ Alone(a) /\ UNCHANGED devices
    BY <1>4, IndexFacts, GotoFacts, ReturnFacts DEF Rests, Ends
  <2>2. AllocatesFirst(a, i)' /\ WritesSame(a, i)' /\ ~Builds(a, i)'
    BY <2>1 DEF AllocatesFirst, WritesSame, Builds, Building
  <2> QED
    BY <2>1, <2>2, QuietApart
<1> QED
  BY <1>2, <1>3, <1>4, FindApart, NewApart, UpsertApart DEF Works

(* No step takes a record out of the history.                              *)
LEMMA HistoryGrows ==
  ASSUME RouterPoolAssumption, TInv, [Next]_vars
  PROVE  shared \subseteq shared' /\ stopped \subseteq stopped'
<1>1. ASSUME NEW a \in Handlers, Works(a)
      PROVE  shared \subseteq shared' /\ UNCHANGED stopped
  <2>1. CASE FindRecord(a) \/ NewRecord(a) \/ Claim(a)
    BY <2>1, FindFacts, NewFacts, ClaimFacts DEF history
  <2>2. CASE (\E h \in Hosts : Tested(a, h)) \/ ScanTaken(a) \/ GivesUp(a)
    BY <2>2, PassesFacts, ScanFacts, GotoFacts DEF Tested, GivesUp, history
  <2>3. CASE Upsert(a) \/ UpdateIndex(a) \/ Rests(a) \/ Ends(a)
    BY <2>3, UpsertFacts, IndexFacts, GotoFacts, ReturnFacts DEF Rests, Ends, history
  <2> QED
    BY <1>1, <2>1, <2>2, <2>3 DEF Works
<1>2. ASSUME NEW a \in Handlers, NEW j, Begin(a, j)
      PROVE  UNCHANGED <<shared, stopped>>
  BY <1>2, BeginFacts DEF history
<1>3. CASE Restart
  BY <1>3 DEF Restart
<1> QED
  BY <1>1, <1>2, <1>3, Steps DEF history

LEMMA NextLInv ==
  ASSUME RouterPoolAssumption, LInv, [Next]_vars
  PROVE  LInv'
<1>1. TInv /\ TInv'
  BY NextTInv DEF LInv
<1> SUFFICES ASSUME NEW i \in Ids \ shared' PROVE Apart(i)'
  BY <1>1 DEF LInv
<1>2. Apart(i)
  BY <1>1, HistoryGrows DEF LInv
<1>3. ASSUME NEW a \in Handlers, NEW j, Begin(a, j)
      PROVE  Apart(i)'
  <2>1. pc'[a] = "lookup" /\ Alone(a) /\ UNCHANGED devices
    BY <1>1, <1>3, BeginFacts
  <2>2. AllocatesFirst(a, i)' /\ WritesSame(a, i)' /\ ~Builds(a, i)'
    BY <2>1 DEF AllocatesFirst, WritesSame, Builds, Building
  <2> QED
    BY <1>2, <2>1, <2>2, QuietApart
<1>4. CASE Restart
  BY <1>4 DEF Restart, Apart, BuiltByOne, Builds, Building, AllocatesFirst, WritesSame
<1>5. CASE UNCHANGED <<devices, byNative, allocated, pc, id, rec, host, history>>
  BY <1>2, <1>5 DEF Apart, BuiltByOne, Builds, Building, AllocatesFirst, WritesSame, Known
<1> QED
  BY <1>1, <1>2, <1>3, <1>4, <1>5, Steps, WorksApart

LEMMA InitLInv == ASSUME RouterPoolAssumption, Init PROVE LInv
<1>1. TInv
  BY InitTInv
<1> QED
  BY <1>1 DEF Init, LInv, Apart, BuiltByOne, Builds, Building, AllocatesFirst, WritesSame

(* ManagedIsStable, for any handlers and restarts: a record that no two    *)
(* handlers gave an address at once keeps the one it has (db.rs:69-71).    *)
THEOREM IsStable == ASSUME RouterPoolAssumption PROVE Spec => ManagedIsStable
<1>1. Init => LInv
  BY InitLInv
<1>2. LInv /\ [Next]_vars => LInv'
  BY NextLInv
<1>3. LInv /\ [Next]_vars =>
        [\A i \in Known \ shared : devices[i].managed # NoHost => i \in shared' \/ Keeps(i)]_vars
  <2> SUFFICES ASSUME LInv, [Next]_vars, NEW i \in Known \ shared, devices[i].managed # NoHost
               PROVE  Keeps(i)
    OBVIOUS
  <2>1. TInv /\ i \in Ids /\ Apart(i) /\ devices[i] # NoRecord
    BY DEF LInv, Known
  <2>2. CASE UNCHANGED devices
    BY <2>1, <2>2 DEF Keeps
  <2>3. ASSUME NEW a \in Handlers, Upsert(a)
        PROVE  Keeps(i)
    <3>1. /\ pc[a] = "upsert" /\ rec[a] \in Records /\ devices'[id[a]] = rec[a]
          /\ \A j \in Ids \ {id[a]} : devices'[j] = devices[j]
      BY <2>1, <2>3, UpsertFacts
    <3>2. WritesSame(a, i)
      BY <2>1 DEF Apart
    <3> QED
      BY <2>1, <3>1, <3>2, Sets DEF Keeps, WritesSame
  <2>4. ASSUME NEW a \in Handlers, Works(a), ~Upsert(a)
        PROVE  UNCHANGED devices
    <3>1. CASE FindRecord(a) \/ NewRecord(a) \/ Claim(a)
      BY <2>1, <3>1, FindFacts, NewFacts, ClaimFacts
    <3>2. CASE (\E h \in Hosts : Tested(a, h)) \/ ScanTaken(a) \/ GivesUp(a)
      BY <2>1, <3>2, PassesFacts, ScanFacts, GotoFacts DEF Tested, GivesUp
    <3>3. CASE UpdateIndex(a) \/ Rests(a) \/ Ends(a)
      BY <2>1, <3>3, IndexFacts, GotoFacts, ReturnFacts DEF Rests, Ends
    <3> QED
      BY <2>4, <3>1, <3>2, <3>3 DEF Works
  <2>5. CASE Restart \/ \E a \in Handlers : \E j : Begin(a, j)
    BY <2>1, <2>2, <2>5, BeginFacts DEF Restart, trees
  <2> QED
    BY <2>1, <2>2, <2>3, <2>4, <2>5, Steps
<1> QED
  BY <1>1, <1>2, <1>3, PTL DEF Spec, ManagedIsStable

-----------------------------------------------------------------------------
(* Every claim is in use.                                                  *)
UInv == LInv /\ NoLeak

(* A handler that claims nothing leaves the claims in use: it writes the   *)
(* record, or goes on with it, or has it written already.                  *)
LEMMA QuietUse ==
  ASSUME NEW a \in Handlers, Alone(a), UNCHANGED <<devices, allocated>>,
         pc[a] = "upsert" => Written(a), NEW h \in Hosts, InUse(h, allocated[h])
  PROVE  InUse(h, allocated[h])'
<1>1. CASE Names(allocated[h], h)
  BY <1>1 DEF InUse, Names
<1>2. ASSUME NEW b \in Handlers, Holds(b, h)
      PROVE  InUse(h, allocated[h])'
  <2>1. CASE b = a
    <3>1. Names(allocated[h], h)
      BY <1>2, <2>1 DEF Holds, Written, Names, Known
    <3> QED
      BY <1>1, <3>1
  <2>2. CASE b # a
    <3>1. Holds(b, h)'
      BY <1>2, <2>2 DEF Holds, Alone
    <3> QED
      BY <3>1 DEF InUse
  <2> QED
    BY <2>1, <2>2
<1> QED
  BY <1>1, <1>2 DEF InUse

LEMMA ClaimUse ==
  ASSUME RouterPoolAssumption, TInv, NEW a \in Handlers, Claim(a), NEW h \in Hosts,
         h = host[a] \/ InUse(h, allocated[h])
  PROVE  InUse(h, allocated[h])'
<1>1. /\ pc[a] = "claim" /\ pc'[a] = "upsert" /\ rec'[a].managed = host[a]
      /\ allocated' = [allocated EXCEPT ![host[a]] = id[a]]
      /\ Alone(a) /\ UNCHANGED <<devices, id>>
  BY ClaimFacts
<1>2. DOMAIN allocated = Hosts
  BY DEF TInv, TypeOK
<1>3. CASE h = host[a]
  <2>1. Holds(a, h)'
    BY <1>1, <1>2, <1>3 DEF Holds
  <2> QED
    BY <2>1 DEF InUse
<1>4. CASE h # host[a]
  <2>1. allocated'[h] = allocated[h]
    BY <1>1, <1>2, <1>4
  <2>2. \A b \in Handlers : Holds(b, h) => Holds(b, h)'
    BY <1>1, <2>1 DEF Holds, Alone
  <2>3. Names(allocated[h], h) => Names(allocated[h], h)'
    BY <1>1, <2>1 DEF Names
  <2> QED
    BY <1>4, <2>2, <2>3 DEF InUse
<1> QED
  BY <1>3, <1>4

LEMMA UpsertUse ==
  ASSUME RouterPoolAssumption, TInv, NEW a \in Handlers, Upsert(a), NEW h \in Hosts,
         allocated[h] \in Ids, Apart(allocated[h]), InUse(h, allocated[h])
  PROVE  InUse(h, allocated[h])'
<1> DEFINE i == allocated[h]
<1>1. /\ pc[a] = "upsert" /\ rec[a] \in Records /\ devices'[id[a]] = rec[a]
      /\ \A j \in Ids \ {id[a]} : devices'[j] = devices[j]
      /\ Alone(a) /\ UNCHANGED <<allocated, id, rec>>
  BY UpsertFacts
<1>2. WritesSame(a, i)
  BY DEF Apart
<1>3. CASE Names(i, h)
  <2>1. h # NoHost /\ i \in Known
    BY <1>3, Sets DEF Names, Known
  <2>2. i = id[a] => rec[a].managed = h
    BY <1>1, <1>2, <1>3, <2>1 DEF Names, WritesSame
  <2>3. devices'[i] # NoRecord /\ devices'[i].managed = h
    BY <1>1, <1>3, <2>2, Sets DEF Names
  <2>4. Names(allocated[h], h)'
    BY <1>1, <2>3 DEF Names
  <2> QED
    BY <2>4 DEF InUse
<1>4. ASSUME NEW b \in Handlers, Holds(b, h)
      PROVE  InUse(h, allocated[h])'
  <2>1. CASE b = a
    <3>1. devices'[i] = rec[a] /\ rec[a].managed = h
      BY <1>1, <1>4, <2>1 DEF Holds
    <3>2. Names(allocated[h], h)'
      BY <1>1, <3>1, Sets DEF Names
    <3> QED
      BY <3>2 DEF InUse
  <2>2. CASE b # a
    <3>1. Holds(b, h)'
      BY <1>1, <1>4, <2>2 DEF Holds, Alone
    <3> QED
      BY <3>1 DEF InUse
  <2> QED
    BY <2>1, <2>2
<1> QED
  BY <1>3, <1>4 DEF InUse

LEMMA NextUInv ==
  ASSUME RouterPoolAssumption, UInv, [Next]_vars
  PROVE  UInv'
<1>1. TInv /\ LInv' /\ shared \subseteq shared' /\ stopped \subseteq stopped'
  BY NextLInv, HistoryGrows DEF UInv, LInv
<1> SUFFICES ASSUME NEW h \in Hosts, allocated'[h] \in Ids \ (shared' \cup stopped')
             PROVE  InUse(h, allocated[h])'
  BY <1>1 DEF UInv, NoLeak
<1>2. UNCHANGED allocated =>
        allocated[h] \in Ids /\ Apart(allocated[h]) /\ InUse(h, allocated[h])
  BY <1>1 DEF UInv, LInv, NoLeak
<1>3. ASSUME NEW a \in Handlers, Claim(a)
      PROVE  InUse(h, allocated[h])'
  <2>1. /\ DOMAIN allocated = Hosts /\ allocated' = [allocated EXCEPT ![host[a]] = id[a]]
        /\ UNCHANGED <<shared, stopped>>
    BY <1>1, <1>3, ClaimFacts DEF TInv, TypeOK, history
  <2>2. h # host[a] => InUse(h, allocated[h])
    BY <2>1 DEF UInv, NoLeak
  <2> QED
    BY <1>1, <1>3, <2>2, ClaimUse
<1>4. ASSUME NEW a \in Handlers, Upsert(a)
      PROVE  InUse(h, allocated[h])'
  BY <1>1, <1>2, <1>4, UpsertFacts, UpsertUse
<1>5. ASSUME NEW a \in Handlers, Works(a), ~Claim(a), ~Upsert(a)
      PROVE  InUse(h, allocated[h])'
  <2>1. /\ Alone(a) /\ UNCHANGED <<devices, allocated>>
        /\ pc[a] = "upsert" => Written(a)
    <3>1. CASE FindRecord(a) \/ NewRecord(a)
      BY <1>1, <3>1, FindFacts, NewFacts
    <3>2. CASE (\E g \in Hosts : Tested(a, g)) \/ ScanTaken(a) \/ GivesUp(a)
      BY <1>1, <3>2, PassesFacts, ScanFacts, GotoFacts DEF Tested, GivesUp
    <3>3. CASE UpdateIndex(a) \/ Rests(a) \/ Ends(a)
      BY <1>1, <3>3, IndexFacts, GotoFacts, ReturnFacts DEF Rests, Ends
    <3> QED
      BY <1>5, <3>1, <3>2, <3>3 DEF Works
  <2> QED
    BY <1>2, <2>1, QuietUse
<1>6. ASSUME NEW a \in Handlers, NEW j, Begin(a, j)
      PROVE  InUse(h, allocated[h])'
  <2>1. Alone(a) /\ UNCHANGED <<devices, allocated>> /\ pc[a] # "upsert"
    BY <1>1, <1>6, BeginFacts
  <2> QED
    BY <1>2, <2>1, QuietUse
<1>7. CASE Restart
  <2>1. UNCHANGED <<devices, allocated>> /\ allocated[h] \notin stopped'
    BY <1>7 DEF Restart, trees
  <2>2. \A a \in Handlers : Holds(a, h) => Names(allocated[h], h)
    BY <1>7, <2>1 DEF Restart
  <2>3. Names(allocated[h], h)
    BY <1>2, <2>1, <2>2 DEF InUse
  <2> QED
    BY <2>1, <2>3 DEF InUse, Names
<1>8. CASE UNCHANGED <<devices, byNative, allocated, pc, id, rec, host, history>>
  BY <1>2, <1>8 DEF InUse, Names, Holds
<1> QED
  BY <1>1, <1>3, <1>4, <1>5, <1>6, <1>7, <1>8, Steps

(* NoLeak, for any handlers: a claimed host is named by the record it was  *)
(* claimed for, or its handler is about to write it, unless the router     *)
(* stops just then or two handlers gave that record an address at once.    *)
THEOREM LeaksNothing == ASSUME RouterPoolAssumption PROVE Spec => []NoLeak
<1>1. Init => UInv
  <2> SUFFICES ASSUME Init PROVE UInv
    OBVIOUS
  <2>1. LInv
    BY InitLInv
  <2> QED
    BY <2>1, Sets DEF Init, UInv, NoLeak
<1>2. UInv /\ [Next]_vars => UInv'
  BY NextUInv
<1>3. UInv => NoLeak
  BY DEF UInv
<1> QED
  BY <1>1, <1>2, <1>3, PTL DEF Spec
=============================================================================
