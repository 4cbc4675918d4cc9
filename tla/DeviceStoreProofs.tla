--------------------------- MODULE DeviceStoreProofs ---------------------------
(***************************************************************************)
(* Theorems about DeviceStore, for any handlers, syncs, devices and bounds.*)
(*                                                                         *)
(* An agent is in the middle of one of the lists below, with what the rest *)
(* of the list writes in its job (Programs).  A hub's device only ever has *)
(* the DeviceInfo of the hub or a managed one, and one config (HubValues). *)
(* A device that was not mixed is worked on by one handler, by the loop or *)
(* by syncs (Apart): a handler or the loop has brought it as far as        *)
(* Progress says, the syncs as far as SyncProgress, and when neither a     *)
(* handler nor the loop is at work on it, its entries and its plugin agree *)
(* (Settled).                                                              *)
(***************************************************************************)
EXTENDS DeviceStore, SequenceTheorems, TLAPS

-----------------------------------------------------------------------------
(* The lists agents work off.                                              *)

PatchList == <<"load", "putInfo", "putConfig", "deregister", "register">>
MembersList == <<"members", "putInfo", "putConfig", "deregister", "register">>
StoreList == <<"putConfig", "deregister", "register">>
RestartList == <<"deregister", "register">>
StartList == <<"register">>
NewConfigList == <<"putConfig", "register">>
ImportList == <<"rename">>
RenameList == <<"putInfo">>
RekeyList == <<"putConfig", "reload", "deregister", "register">>
RenameRekeyList == <<"putInfo", "putConfig", "reload", "deregister", "register">>
ReloadList == <<"reload", "deregister", "register">>
UnregisterList == <<"deregister", "removeInfo", "removeConfig">>
RemoveList == <<"removeInfo", "removeConfig">>
RemoveConfigList == <<"removeConfig">>
AddressList == <<"putConfig">>
BondList == <<"known", "check", "putInfo", "putConfig", "register">>
CheckNewList == <<"check", "putInfo", "putConfig", "register">>
CheckKnownList == <<"check", "putConfig", "register">>
MysaList == <<"check", "known", "putInfo", "putConfig", "register">>
KnownNewList == <<"known", "putInfo", "putConfig", "register">>

RemoveLists == {UnregisterList, RemoveList, RemoveConfigList}
HandlerLists ==
  {PatchList, MembersList, Replace, StoreList, RestartList, StartList, New, NewConfigList,
   ImportList, RenameList, RekeyList, RenameRekeyList, ReloadList} \cup RemoveLists
SyncLists ==
  {BondList, CheckNewList, CheckKnownList, MysaList, KnownNewList, New, NewConfigList, StartList}

AllLists == HandlerLists \cup SyncLists \cup {AddressList}

LEMMA Heads ==
  /\ Head(PatchList) = "load" /\ Head(MembersList) = "members" /\ Head(Replace) = "putInfo"
  /\ Head(StoreList) = "putConfig" /\ Head(RestartList) = "deregister"
  /\ Head(StartList) = "register" /\ Head(New) = "putInfo" /\ Head(NewConfigList) = "putConfig"
  /\ Head(ImportList) = "rename" /\ Head(RenameList) = "putInfo"
  /\ Head(RekeyList) = "putConfig" /\ Head(RenameRekeyList) = "putInfo"
  /\ Head(ReloadList) = "reload" /\ Head(UnregisterList) = "deregister"
  /\ Head(RemoveList) = "removeInfo" /\ Head(RemoveConfigList) = "removeConfig"
  /\ Head(AddressList) = "putConfig" /\ Head(BondList) = "known"
  /\ Head(CheckNewList) = "check" /\ Head(CheckKnownList) = "check"
  /\ Head(MysaList) = "check" /\ Head(KnownNewList) = "known"
  BY DEF PatchList, MembersList, Replace, StoreList, RestartList, StartList, New,
         NewConfigList, ImportList, RenameList, RekeyList, RenameRekeyList, ReloadList,
         UnregisterList, RemoveList, RemoveConfigList, AddressList, BondList, CheckNewList,
         CheckKnownList, MysaList, KnownNewList

LEMMA Lengths ==
  /\ Len(PatchList) = 5 /\ Len(MembersList) = 5 /\ Len(Replace) = 4
  /\ Len(StoreList) = 3 /\ Len(RestartList) = 2
  /\ Len(StartList) = 1 /\ Len(New) = 3 /\ Len(NewConfigList) = 2
  /\ Len(ImportList) = 1 /\ Len(RenameList) = 1
  /\ Len(RekeyList) = 4 /\ Len(RenameRekeyList) = 5
  /\ Len(ReloadList) = 3 /\ Len(UnregisterList) = 3
  /\ Len(RemoveList) = 2 /\ Len(RemoveConfigList) = 1
  /\ Len(AddressList) = 1 /\ Len(BondList) = 5
  /\ Len(CheckNewList) = 4 /\ Len(CheckKnownList) = 3
  /\ Len(MysaList) = 5 /\ Len(KnownNewList) = 4 /\ Len(<<>>) = 0
  BY DEF PatchList, MembersList, Replace, StoreList, RestartList, StartList, New,
         NewConfigList, ImportList, RenameList, RekeyList, RenameRekeyList, ReloadList,
         UnregisterList, RemoveList, RemoveConfigList, AddressList, BondList, CheckNewList,
         CheckKnownList, MysaList, KnownNewList

LEMMA Tails ==
  /\ Tail(PatchList) = Replace /\ Tail(MembersList) = Replace /\ Tail(Replace) = StoreList
  /\ Tail(StoreList) = RestartList /\ Tail(RestartList) = StartList
  /\ Tail(StartList) = <<>> /\ Tail(New) = NewConfigList /\ Tail(NewConfigList) = StartList
  /\ Tail(ImportList) = <<>> /\ Tail(RenameList) = <<>>
  /\ Tail(RekeyList) = ReloadList /\ Tail(RenameRekeyList) = RekeyList
  /\ Tail(ReloadList) = RestartList /\ Tail(UnregisterList) = RemoveList
  /\ Tail(RemoveList) = RemoveConfigList /\ Tail(RemoveConfigList) = <<>>
  /\ Tail(AddressList) = <<>> /\ Tail(BondList) = CheckNewList
  /\ Tail(CheckNewList) = New /\ Tail(CheckKnownList) = NewConfigList
  /\ Tail(MysaList) = KnownNewList /\ Tail(KnownNewList) = New
  BY DEF PatchList, MembersList, Replace, StoreList, RestartList, StartList, New,
         NewConfigList, ImportList, RenameList, RekeyList, RenameRekeyList, ReloadList,
         UnregisterList, RemoveList, RemoveConfigList, AddressList, BondList, CheckNewList,
         CheckKnownList, MysaList, KnownNewList

LEMMA ListsAreSeqs == AllLists \cup {<<>>} \subseteq Seq(Ops)
  BY DEF AllLists, HandlerLists, SyncLists, RemoveLists, Ops, PatchList, MembersList, Replace, StoreList, RestartList, StartList, New,
         NewConfigList, ImportList, RenameList, RekeyList, RenameRekeyList, ReloadList,
         UnregisterList, RemoveList, RemoveConfigList, AddressList, BondList, CheckNewList,
         CheckKnownList, MysaList, KnownNewList

LEMMA ListsAreNotEmpty == \A t \in AllLists : t # <<>>
<1>1. /\ PatchList # <<>> /\ MembersList # <<>> /\ Replace # <<>>
      /\ StoreList # <<>> /\ RestartList # <<>> /\ StartList # <<>>
      /\ New # <<>> /\ NewConfigList # <<>> /\ ImportList # <<>>
      /\ RenameList # <<>> /\ RekeyList # <<>> /\ RenameRekeyList # <<>>
      /\ ReloadList # <<>> /\ UnregisterList # <<>> /\ RemoveList # <<>>
      /\ RemoveConfigList # <<>> /\ AddressList # <<>> /\ BondList # <<>>
      /\ CheckNewList # <<>> /\ CheckKnownList # <<>> /\ MysaList # <<>>
      /\ KnownNewList # <<>>
  BY DEF PatchList, MembersList, Replace, StoreList, RestartList, StartList, New,
         NewConfigList, ImportList, RenameList, RekeyList, RenameRekeyList, ReloadList,
         UnregisterList, RemoveList, RemoveConfigList, AddressList, BondList, CheckNewList,
         CheckKnownList, MysaList, KnownNewList
<1> QED
  BY <1>1 DEF AllLists, HandlerLists, SyncLists, RemoveLists

LEMMA Join ==
  ASSUME NEW p \in Seq(Ops), NEW t \in Seq(Ops), NEW u \in Seq(Ops),
         Len(u) = Len(p) + Len(t),
         \A i \in 1..Len(p) : u[i] = p[i],
         \A i \in 1..Len(t) : u[i + Len(p)] = t[i]
  PROVE  p \o t = u
<1>1. p \o t \in Seq(Ops) /\ Len(p \o t) = Len(u)
  BY ConcatProperties
<1>2. ASSUME NEW i \in 1..Len(u) PROVE (p \o t)[i] = u[i]
  <2>1. CASE i <= Len(p)
    <3>1. (p \o t)[i] = p[i]
      BY ConcatProperties, <2>1
    <3> QED
      BY <2>1, <3>1
  <2>2. CASE i > Len(p)
    <3>1. (p \o t)[i] = t[i - Len(p)]
      BY ConcatProperties, <2>2
    <3>2. i - Len(p) \in 1..Len(t) /\ (i - Len(p)) + Len(p) = i
      BY <2>2
    <3> QED
      BY <3>1, <3>2
  <2> QED
    BY <2>1, <2>2
<1> QED
  BY <1>1, <1>2, SeqEqual

(* The lists as the agents put them together.                              *)
LEMMA Joins ==
  /\ <<"load">> \o Replace = PatchList /\ <<"members">> \o Replace = MembersList
  /\ <<"known", "check">> \o New = BondList /\ <<"check", "known">> \o New = MysaList
  /\ <<"check">> \o NewConfigList = CheckKnownList /\ <<>> \o NewConfigList = NewConfigList
  /\ RenameList \o RekeyList = RenameRekeyList /\ <<>> \o RekeyList = RekeyList
  /\ RenameList \o <<>> = RenameList /\ <<>> \o <<>> = <<>>
<1>1. AllLists \cup {<<>>} \subseteq Seq(Ops)
  BY ListsAreSeqs
<1>2. /\ {<<"load">>, <<"members">>, <<"check">>} \subseteq Seq(Ops)
      /\ {<<"known", "check">>, <<"check", "known">>} \subseteq Seq(Ops)
  BY DEF Ops
<1>3. /\ {Replace, New, NewConfigList, RekeyList, RenameList} \subseteq Seq(Ops)
      /\ {PatchList, MembersList, BondList, MysaList} \subseteq Seq(Ops)
      /\ {CheckKnownList, RenameRekeyList, <<>>} \subseteq Seq(Ops)
  BY <1>1 DEF AllLists, HandlerLists, SyncLists
<1>4. <<"load">> \o Replace = PatchList
  <2>1. Len(PatchList) = Len(<<"load">>) + Len(Replace)
    BY Lengths
  <2>2. \A i \in 1..Len(<<"load">>) : PatchList[i] = <<"load">>[i]
    BY Lengths DEF PatchList
  <2>3. \A i \in 1..Len(Replace) : PatchList[i + Len(<<"load">>)] = Replace[i]
    BY Lengths DEF Replace, PatchList
  <2> QED
    BY <1>2, <1>3, <2>1, <2>2, <2>3, Join
<1>5. <<"members">> \o Replace = MembersList
  <2>1. Len(MembersList) = Len(<<"members">>) + Len(Replace)
    BY Lengths
  <2>2. \A i \in 1..Len(<<"members">>) : MembersList[i] = <<"members">>[i]
    BY Lengths DEF MembersList
  <2>3. \A i \in 1..Len(Replace) : MembersList[i + Len(<<"members">>)] = Replace[i]
    BY Lengths DEF Replace, MembersList
  <2> QED
    BY <1>2, <1>3, <2>1, <2>2, <2>3, Join
<1>6. <<"known", "check">> \o New = BondList
  <2>1. Len(BondList) = Len(<<"known", "check">>) + Len(New)
    BY Lengths
  <2>2. \A i \in 1..Len(<<"known", "check">>) : BondList[i] = <<"known", "check">>[i]
    BY Lengths DEF BondList
  <2>3. \A i \in 1..Len(New) : BondList[i + Len(<<"known", "check">>)] = New[i]
    BY Lengths DEF New, BondList
  <2> QED
    BY <1>2, <1>3, <2>1, <2>2, <2>3, Join
<1>7. <<"check", "known">> \o New = MysaList
  <2>1. Len(MysaList) = Len(<<"check", "known">>) + Len(New)
    BY Lengths
  <2>2. \A i \in 1..Len(<<"check", "known">>) : MysaList[i] = <<"check", "known">>[i]
    BY Lengths DEF MysaList
  <2>3. \A i \in 1..Len(New) : MysaList[i + Len(<<"check", "known">>)] = New[i]
    BY Lengths DEF New, MysaList
  <2>4. <<"check", "known">> \in Seq(Ops) /\ New \in Seq(Ops) /\ MysaList \in Seq(Ops)
    BY <1>2, <1>3
  <2> QED
    BY <2>1, <2>2, <2>3, <2>4, Join
<1>8. <<"check">> \o NewConfigList = CheckKnownList
  <2>1. Len(CheckKnownList) = Len(<<"check">>) + Len(NewConfigList)
    BY Lengths
  <2>2. \A i \in 1..Len(<<"check">>) : CheckKnownList[i] = <<"check">>[i]
    BY Lengths DEF CheckKnownList
  <2>3. \A i \in 1..Len(NewConfigList) : CheckKnownList[i + Len(<<"check">>)] = NewConfigList[i]
    BY Lengths DEF NewConfigList, CheckKnownList
  <2> QED
    BY <1>2, <1>3, <2>1, <2>2, <2>3, Join
<1>9. RenameList \o RekeyList = RenameRekeyList
  <2>1. Len(RenameRekeyList) = Len(RenameList) + Len(RekeyList)
    BY Lengths
  <2>2. \A i \in 1..Len(RenameList) : RenameRekeyList[i] = RenameList[i]
    BY Lengths DEF RenameList, RenameRekeyList
  <2>3. \A i \in 1..Len(RekeyList) : RenameRekeyList[i + Len(RenameList)] = RekeyList[i]
    BY Lengths DEF RekeyList, RenameList, RenameRekeyList
  <2>4. RenameList \in Seq(Ops) /\ RekeyList \in Seq(Ops) /\ RenameRekeyList \in Seq(Ops)
    BY <1>3
  <2> QED
    BY <2>1, <2>2, <2>3, <2>4, Join
<1>10. /\ <<>> \o NewConfigList = NewConfigList /\ <<>> \o RekeyList = RekeyList
       /\ RenameList \o <<>> = RenameList /\ <<>> \o <<>> = <<>>
  BY <1>3, ConcatEmptySeq
<1> QED
  BY <1>4, <1>5, <1>6, <1>7, <1>8, <1>9, <1>10

(* Lists that begin alike differ.                                          *)
LEMMA Different ==
  /\ Replace # New /\ Replace # RenameList /\ Replace # RenameRekeyList
  /\ New # RenameList /\ New # RenameRekeyList /\ RenameList # RenameRekeyList
  /\ StoreList # NewConfigList /\ StoreList # RekeyList /\ StoreList # AddressList
  /\ NewConfigList # RekeyList /\ NewConfigList # AddressList /\ RekeyList # AddressList
  /\ RestartList # UnregisterList /\ BondList # KnownNewList
  /\ MysaList # CheckNewList /\ MysaList # CheckKnownList /\ CheckNewList # CheckKnownList
  BY DEF PatchList, MembersList, Replace, StoreList, RestartList, StartList, New,
         NewConfigList, ImportList, RenameList, RekeyList, RenameRekeyList, ReloadList,
         UnregisterList, RemoveList, RemoveConfigList, AddressList, BondList, CheckNewList,
         CheckKnownList, MysaList, KnownNewList

(* What the next operation says of the list.                               *)
LEMMA NextOperation ==
  ASSUME NEW t \in AllLists
  PROVE  /\ Head(t) = "load" => t = PatchList
         /\ Head(t) = "members" => t = MembersList
         /\ Head(t) = "rename" => t = ImportList
         /\ Head(t) = "reload" => t = ReloadList
         /\ Head(t) = "known" => t \in {BondList, KnownNewList}
         /\ Head(t) = "check" => t \in {MysaList, CheckNewList, CheckKnownList}
         /\ Head(t) = "putInfo" => t \in {Replace, New, RenameList, RenameRekeyList}
         /\ Head(t) = "putConfig" => t \in {StoreList, NewConfigList, RekeyList, AddressList}
         /\ Head(t) = "removeInfo" => t = RemoveList
         /\ Head(t) = "removeConfig" => t = RemoveConfigList
         /\ Head(t) = "deregister" => t \in {RestartList, UnregisterList}
         /\ Head(t) = "register" => t = StartList
  BY Heads DEF AllLists, HandlerLists, SyncLists, RemoveLists

-----------------------------------------------------------------------------
(* The inductive invariant.                                                *)

(* The lists whose rest writes the job's info, or its config.              *)
WithInfo == {MembersList, Replace, New, RenameList, RenameRekeyList}
WithConfig ==
  {PatchList, Replace, StoreList, RestartList, StartList, New, NewConfigList, ImportList,
   RekeyList, RenameRekeyList, ReloadList, AddressList}

Fits(x) ==
  /\ Busy(x) => job[x] \in Job
  /\ todo[x] \in WithInfo => job[x].info # None
  /\ todo[x] \in WithConfig => job[x].config # None

(* What a handler may do to a hub's device: remove it, or write it as a    *)
(* managed one.                                                            *)
OnHub(t, j) == t \in RemoveLists \/ (t = RenameList /\ j.info = ManagedInfo)

Programs ==
  /\ \A h \in Handlers :
       /\ todo[h] \in HandlerLists \cup {<<>>}
       /\ Busy(h) /\ job[h].id \in HubDevices => OnHub(todo[h], job[h])
  /\ todo[Loop] \in {AddressList, <<>>} /\ (Busy(Loop) => job[Loop].id \in Tuyas)
  /\ \A s \in Syncs :
       /\ todo[s] \in SyncLists \cup {<<>>}
       /\ Busy(s) => job[s].id \in HubDevices /\ job[s].info = AnyInfo /\ job[s].config = AnyConfig
  /\ \A x \in Agents : Fits(x)

HubValues ==
  \A d \in HubDevices :
    /\ infos[d] \in {None, AnyInfo, ManagedInfo} /\ configs[d] \in {None, AnyConfig}
    /\ live[d] \in {None, AnyConfig}

WorksOn(x, d) == Busy(x) /\ job[x].id = d

(* The plugin runs with what is stored.                                    *)
RunsAsStored(d) ==
  live[d] # None =>
    /\ infos[d] # None /\ configs[d] # None
    /\ live[d].key = configs[d].key /\ live[d].profile = configs[d].profile

Listed(d) ==
  configs[d] # None => infos[d] # None /\ infos[d].caps \in {configs[d].profile, NoCaps}
Agrees(d) == Listed(d) /\ (configs[d] # None => live[d] # None)

(* The lists that may end without having replaced the plugin, as far as    *)
(* they have not changed the config.                                       *)
CarefulLists == {PatchList, MembersList, ImportList, RenameList, RekeyList, RenameRekeyList, AddressList}

(* How far agent x, which is no sync, has brought device d: what its rest  *)
(* needs for the plugin to run with what is stored,                        *)
LiveProgress(x, d) ==
  /\ todo[x] \in CarefulLists => RunsAsStored(d)
  /\ todo[x] \in {StoreList, NewConfigList, RestartList, StartList} => infos[d] # None
  /\ todo[x] \in {RestartList, StartList, ReloadList} => configs[d] = job[x].config
  /\ todo[x] = ReloadList /\ live[d] # None => infos[d] # None
  /\ todo[x] \in {RemoveList, RemoveConfigList} => live[d] = None
  /\ todo[x] = AddressList =>
       /\ configs[d] # None
       /\ job[x].config.key = configs[d].key /\ job[x].config.profile = configs[d].profile

(* and for the trees to agree.                                             *)
TreeProgress(x, d) ==
  /\ todo[x] \in CarefulLists \cup {ReloadList} => Agrees(d)
  /\ todo[x] \in {Replace, New} => job[x].info.caps \in {job[x].config.profile, NoCaps}
  /\ todo[x] \in {StoreList, NewConfigList, RestartList, StartList} =>
       infos[d].caps \in {job[x].config.profile, NoCaps}
  /\ todo[x] \in {ImportList, RekeyList, RenameRekeyList} =>
       configs[d] # None /\ job[x].config.profile = configs[d].profile
  /\ todo[x] \in {RenameList, RenameRekeyList} /\ configs[d] # None =>
       job[x].info.caps \in {configs[d].profile, NoCaps}
  /\ todo[x] = MembersList => job[x].info = infos[d]

Progress(x, d) == LiveProgress(x, d) /\ (d \notin torn => TreeProgress(x, d))

SyncProgress(s, d) ==
  /\ todo[s] \in {CheckKnownList, NewConfigList, StartList} => infos[d] # None
  /\ todo[s] = StartList => configs[d] # None

(* The plugin is there, or a sync is about to register it.                 *)
Starting(d) == live[d] # None \/ \E s \in Syncs : todo[s] = StartList /\ job[s].id = d
Settled(d) ==
  /\ RunsAsStored(d)
  /\ d \notin torn => Listed(d) /\ (configs[d] # None => Starting(d))

Writers == Handlers \cup {Loop}

Apart(d) ==
  \A x, y \in Agents : WorksOn(x, d) /\ WorksOn(y, d) => x = y \/ (x \in Syncs /\ y \in Syncs)

Tended(d) ==
  /\ Apart(d)
  /\ \A x \in Writers : WorksOn(x, d) => Progress(x, d)
  /\ \A s \in Syncs : WorksOn(s, d) => SyncProgress(s, d)
  /\ (\A x \in Writers : ~WorksOn(x, d)) => Settled(d)

IInv == TypeOK /\ Programs /\ HubValues /\ \A d \in Devices \ mixed : Tended(d)

-----------------------------------------------------------------------------
(* What one operation of one agent does.                                   *)

(* Agent x has rest left, and j is its job, if it has any.                 *)
Advance(x, rest, j) ==
  /\ todo' = [todo EXCEPT ![x] = rest]
  /\ job' = [job EXCEPT ![x] = IF rest = <<>> THEN NoJob ELSE j]
  /\ UNCHANGED others

(* The entries and the plugin of device d may have changed, no others.     *)
Touches(d) ==
  /\ infos' \in [Devices -> Info \cup {None}]
  /\ configs' \in [Devices -> Config \cup {None}]
  /\ live' \in [Devices -> Config \cup {None}]
  /\ \A e \in Devices \ {d} : infos'[e] = infos[e] /\ configs'[e] = configs[e] /\ live'[e] = live[e]

(* Agent x may go on with rest and job j.                                  *)
MayGoOn(x, d, rest, j) ==
  /\ rest # <<>> => j \in Job /\ j.id = d
  /\ rest \in WithInfo => j.info # None
  /\ rest \in WithConfig => j.config # None

LEMMA LeftAdvances ==
  ASSUME TypeOK, NEW x \in Agents, NEW rest, Left(x, rest)
  PROVE  Advance(x, rest, job[x])
<1>1. [job EXCEPT ![x] = job[x]] = job
  BY DEF TypeOK
<1> QED
  BY <1>1 DEF Left, Advance

LEMMA LeftWithAdvances ==
  ASSUME TypeOK, NEW x \in Agents, NEW rest, NEW j, NEW d \in Devices, LeftWith(x, rest, j)
  PROVE  Advance(x, rest, j) /\ Touches(d) /\ infos' = infos /\ configs' = configs /\ live' = live
  BY DEF LeftWith, Advance, Touches, store, TypeOK

LEMMA Advances ==
  ASSUME TypeOK, NEW x \in Agents, NEW rest, NEW j, Advance(x, rest, j)
  PROVE  /\ todo'[x] = rest /\ job'[x] = (IF rest = <<>> THEN NoJob ELSE j)
         /\ \A y \in Agents \ {x} : todo'[y] = todo[y] /\ job'[y] = job[y]
         /\ hubs' = hubs /\ syncing' = syncing /\ due' = due /\ cloud' = cloud
         /\ requests' = requests /\ crashes' = crashes /\ mixed' = mixed /\ torn' = torn
  BY DEF Advance, TypeOK, others, tasks, history

LEMMA AdvanceKeepsTypes ==
  ASSUME TypeOK, NEW x \in Agents, NEW d \in Devices, NEW j,
         NEW rest \in AllLists \cup {<<>>}, Advance(x, rest, j), Touches(d),
         MayGoOn(x, d, rest, j)
  PROVE  TypeOK'
<1>1. todo' \in [Agents -> Seq(Ops)]
  BY ListsAreSeqs DEF Advance, TypeOK
<1>2. job' \in [Agents -> Job \cup {NoJob}]
  BY DEF Advance, TypeOK, MayGoOn
<1> QED
  BY <1>1, <1>2, Advances DEF TypeOK, Touches

(* Nobody else's work changes.                                             *)
LEMMA OthersGoOn ==
  ASSUME TypeOK, NEW x \in Agents, NEW d \in Devices, NEW j, NEW rest,
         Advance(x, rest, j), Touches(d), MayGoOn(x, d, rest, j)
  PROVE  /\ \A y \in Agents \ {x} : Busy(y)' = Busy(y)
         /\ \A y \in Agents \ {x}, e \in Devices : WorksOn(y, e)' = WorksOn(y, e)
         /\ \A y \in Agents \ {x} : Fits(y)' = Fits(y)
         /\ \A e \in Devices : WorksOn(x, e)' => e = d
         /\ rest = <<>> => \A e \in Devices : ~WorksOn(x, e)'
         /\ rest # <<>> => WorksOn(x, d)'
         /\ Fits(x)'
<1>1. \A y \in Agents \ {x} : todo'[y] = todo[y] /\ job'[y] = job[y]
  BY Advances
<1>2. todo'[x] = rest /\ job'[x] = (IF rest = <<>> THEN NoJob ELSE j)
  BY Advances
<1>3. <<>> \notin WithInfo \cup WithConfig
  BY ListsAreNotEmpty DEF WithInfo, WithConfig, AllLists, HandlerLists
<1>4. Fits(x)'
  BY <1>2, <1>3 DEF Fits, Busy, MayGoOn
<1>5. \A y \in Agents \ {x} : Busy(y)' = Busy(y)
  BY <1>1 DEF Busy
<1>6. \A y \in Agents \ {x}, e \in Devices : WorksOn(y, e)' = WorksOn(y, e)
  BY <1>1 DEF WorksOn, Busy
<1>7. \A y \in Agents \ {x} : Fits(y)' = Fits(y)
  BY <1>1 DEF Fits, Busy
<1>8. \A e \in Devices : WorksOn(x, e)' => e = d
  BY <1>2 DEF WorksOn, Busy, MayGoOn
<1>9. rest = <<>> => \A e \in Devices : ~WorksOn(x, e)'
  BY <1>2 DEF WorksOn, Busy
<1>10. rest # <<>> => WorksOn(x, d)'
  BY <1>2 DEF WorksOn, Busy, MayGoOn
<1> QED
  BY <1>4, <1>5, <1>6, <1>7, <1>8, <1>9, <1>10

(* Nor does a device agent x has nothing to do with.                       *)
LEMMA DeviceStays ==
  ASSUME NEW x \in Agents, NEW e \in Devices, Tended(e),
         infos'[e] = infos[e] /\ configs'[e] = configs[e] /\ live'[e] = live[e],
         torn' = torn,
         \A y \in Agents \ {x} : todo'[y] = todo[y] /\ job'[y] = job[y],
         ~WorksOn(x, e), ~WorksOn(x, e)'
  PROVE  Tended(e)'
<1>4. \A y \in Agents \ {x} : WorksOn(y, e)' = WorksOn(y, e)
  BY DEF WorksOn, Busy
<1>5. Apart(e)'
  BY <1>4 DEF Tended, Apart
<1>6. ASSUME NEW y \in Writers, WorksOn(y, e)'
      PROVE  Progress(y, e)'
  <2>1. y \in Agents \ {x} /\ WorksOn(y, e)
    BY <1>4, <1>6 DEF Writers, Agents
  <2>2. Progress(y, e)
    BY <2>1 DEF Tended
  <2>3. todo'[y] = todo[y] /\ job'[y] = job[y]
    BY <2>1
  <2>4. Agrees(e)' = Agrees(e) /\ RunsAsStored(e)' = RunsAsStored(e)
    BY DEF Agrees, Listed, RunsAsStored
  <2>5. LiveProgress(y, e)' = LiveProgress(y, e)
    BY <2>3, <2>4 DEF LiveProgress
  <2>6. TreeProgress(y, e)' = TreeProgress(y, e)
    BY <2>3, <2>4 DEF TreeProgress
  <2> QED
    BY <2>2, <2>5, <2>6 DEF Progress
<1>7. ASSUME NEW s \in Syncs, WorksOn(s, e)'
      PROVE  SyncProgress(s, e)'
  <2>1. s \in Agents \ {x} /\ WorksOn(s, e)
    BY <1>4, <1>7 DEF Agents
  <2> QED
    BY <2>1 DEF Tended, SyncProgress
<1>8. ASSUME \A y \in Writers : ~WorksOn(y, e)'
      PROVE  Settled(e)'
  <2>1. \A y \in Writers : ~WorksOn(y, e)
    BY <1>4, <1>8 DEF Writers, Agents
  <2>2. Settled(e)
    BY <2>1 DEF Tended
  <2>3. Listed(e)' = Listed(e) /\ RunsAsStored(e)' = RunsAsStored(e)
    BY DEF Listed, RunsAsStored
  <2>4. ASSUME NEW s \in Syncs, todo[s] = StartList, job[s].id = e
        PROVE  todo'[s] = StartList /\ job'[s].id = e
    <3>1. s # x
      BY <2>4, ListsAreNotEmpty DEF WorksOn, Busy, AllLists, HandlerLists
    <3> QED
      BY <2>4, <3>1 DEF Agents
  <2>5. Starting(e) => Starting(e)'
    BY <2>4 DEF Starting
  <2> QED
    BY <2>2, <2>3, <2>5 DEF Settled
<1> QED
  BY <1>5, <1>6, <1>7, <1>8 DEF Tended

LEMMA OtherDevicesStay ==
  ASSUME TypeOK, NEW x \in Agents, NEW d \in Devices, NEW j, NEW rest,
         Advance(x, rest, j), Touches(d), MayGoOn(x, d, rest, j), WorksOn(x, d),
         NEW e \in Devices \ {d}, Tended(e)
  PROVE  Tended(e)'
<1>1. infos'[e] = infos[e] /\ configs'[e] = configs[e] /\ live'[e] = live[e]
  BY DEF Touches
<1>2. torn' = torn /\ (\A y \in Agents \ {x} : todo'[y] = todo[y] /\ job'[y] = job[y])
  BY Advances
<1>3. ~WorksOn(x, e) /\ ~WorksOn(x, e)'
  BY OthersGoOn DEF WorksOn
<1> QED
  BY <1>1, <1>2, <1>3, DeviceStays

-----------------------------------------------------------------------------
(* A step of an agent that is no sync.                                     *)

(* Where agent x has brought device d: to the end, or on.                  *)
Arrives(x, d) ==
  IF todo[x] = <<>> THEN RunsAsStored(d) /\ (d \notin torn => Agrees(d)) ELSE Progress(x, d)

WriterGoesOn(x, d, rest) ==
  /\ x \in Handlers => rest \in HandlerLists \cup {<<>>}
  /\ x = Loop => rest = <<>>
  /\ d \in HubDevices => rest \in RemoveLists \cup {<<>>}

HubValuesOf(d) ==
  /\ infos[d] \in {None, AnyInfo, ManagedInfo} /\ configs[d] \in {None, AnyConfig}
  /\ live[d] \in {None, AnyConfig}

LEMMA WriterPrograms ==
  ASSUME IInv, NEW x \in Writers, NEW d \in Devices, NEW j, NEW rest, WorksOn(x, d),
         Advance(x, rest, j), Touches(d), MayGoOn(x, d, rest, j), WriterGoesOn(x, d, rest)
  PROVE  Programs'
<1>1. TypeOK /\ Programs /\ x \in Agents
  BY DEF IInv, Writers, Agents
<1>2. \A y \in Agents \ {x} : todo'[y] = todo[y] /\ job'[y] = job[y] /\ Busy(y)' = Busy(y)
  BY <1>1, Advances, OthersGoOn
<1>3. todo'[x] = rest /\ (rest # <<>> => job'[x] = j)
  BY <1>1, Advances
<1>4. \A y \in Agents : Fits(y)'
  BY <1>1, OthersGoOn DEF Programs
<1>5. ASSUME NEW h \in Handlers
      PROVE  /\ todo'[h] \in HandlerLists \cup {<<>>}
             /\ Busy(h)' /\ job'[h].id \in HubDevices => OnHub(todo'[h], job'[h])
  <2>1. CASE h = x
    BY <1>3, <2>1 DEF WriterGoesOn, MayGoOn, OnHub, Busy
  <2>2. CASE h # x
    BY <1>1, <1>2, <2>2 DEF Programs, Agents
  <2> QED
    BY <2>1, <2>2
<1>6. todo'[Loop] \in {AddressList, <<>>} /\ (Busy(Loop)' => job'[Loop].id \in Tuyas)
  <2>1. CASE Loop = x
    BY <1>3, <2>1 DEF WriterGoesOn, Busy
  <2>2. CASE Loop # x
    BY <1>1, <1>2, <2>2 DEF Programs, Agents
  <2> QED
    BY <2>1, <2>2
<1>7. ASSUME NEW s \in Syncs
      PROVE  /\ todo'[s] \in SyncLists \cup {<<>>}
             /\ Busy(s)' => /\ job'[s].id \in HubDevices /\ job'[s].info = AnyInfo
                            /\ job'[s].config = AnyConfig
  <2>1. s # x /\ s \in Agents
    BY DeviceStoreAssumption DEF Writers, Agents
  <2> QED
    BY <1>1, <1>2, <2>1 DEF Programs
<1> QED
  BY <1>4, <1>5, <1>6, <1>7, Zenon DEF Programs

LEMMA HubsStay ==
  ASSUME HubValues, NEW d \in Devices, Touches(d), d \in HubDevices => HubValuesOf(d)'
  PROVE  HubValues'
<1>1. SUFFICES ASSUME NEW e \in HubDevices PROVE HubValuesOf(e)'
  BY DEF HubValues, HubValuesOf
<1>2. CASE e = d
  BY <1>2
<1>3. CASE e # d
  <2>1. infos'[e] = infos[e] /\ configs'[e] = configs[e] /\ live'[e] = live[e]
    BY <1>3 DEF Touches, Devices
  <2> QED
    BY <2>1 DEF HubValues, HubValuesOf, AnyInfo, AnyConfig, ManagedInfo
<1> QED
  BY <1>2, <1>3

LEMMA WriterSteps ==
  ASSUME IInv, NEW x \in Writers, NEW d \in Devices, NEW j, NEW rest, WorksOn(x, d),
         Advance(x, rest, j), Touches(d), MayGoOn(x, d, rest, j), WriterGoesOn(x, d, rest),
         d \in HubDevices => HubValuesOf(d)',
         d \notin mixed /\ Progress(x, d) => Arrives(x, d)'
  PROVE  IInv'
<1>1. TypeOK /\ x \in Agents /\ x \notin Syncs
  BY DeviceStoreAssumption DEF IInv, Writers, Agents
<1>2. rest \in AllLists \cup {<<>>}
  BY DEF WriterGoesOn, AllLists, Writers
<1>3. TypeOK'
  BY <1>1, <1>2, AdvanceKeepsTypes
<1>4. Programs' /\ HubValues'
  BY WriterPrograms, HubsStay DEF IInv
<1>5. mixed' = mixed /\ todo'[x] = rest
  BY <1>1, Advances
<1>6. ASSUME NEW e \in Devices \ mixed, e # d PROVE Tended(e)'
  BY <1>1, <1>6, OtherDevicesStay DEF IInv
<1>7. ASSUME d \notin mixed PROVE Tended(d)'
  <2>1. Tended(d)
    BY <1>7 DEF IInv
  <2>2. Arrives(x, d)'
    BY <1>7, <2>1 DEF Tended
  <2>3. \A y \in Agents \ {x} : ~WorksOn(y, d)
    BY <1>1, <2>1 DEF Tended, Apart
  <2>4. \A y \in Agents \ {x} : ~WorksOn(y, d)'
    BY <1>1, <2>3, OthersGoOn
  <2>5. Apart(d)'
    BY <2>4 DEF Apart
  <2>6. \A y \in Writers : WorksOn(y, d)' => Progress(y, d)'
    BY <2>2, <2>4 DEF Arrives, Writers, Agents, WorksOn, Busy
  <2>7. \A s \in Syncs : ~WorksOn(s, d)'
    BY <1>1, <2>4 DEF Agents
  <2>8. ASSUME \A y \in Writers : ~WorksOn(y, d)' PROVE Settled(d)'
    <3>1. rest = <<>>
      BY <1>1, <2>8, OthersGoOn
    <3> QED
      BY <1>5, <2>2, <3>1 DEF Arrives, Settled, Agrees, Starting
  <2> QED
    BY <2>5, <2>6, <2>7, <2>8 DEF Tended
<1> QED
  BY <1>3, <1>4, <1>5, <1>6, <1>7 DEF IInv

-----------------------------------------------------------------------------
(* A step of a sync.                                                       *)

(* What a sync may do to a device: it only ever stores what is always      *)
(* stored.                                                                 *)
Fills(d) ==
  /\ infos'[d] \in {infos[d], AnyInfo} /\ configs'[d] \in {configs[d], AnyConfig}
  /\ live'[d] \in {live[d], AnyConfig}

LEMMA HubEntries == AnyInfo \in Info /\ AnyConfig \in Config /\ AnyInfo # None /\ AnyConfig # None
<1>1. (CHOOSE p \in Profiles : TRUE) \in Profiles /\ (CHOOSE i \in Ips : TRUE) \in Ips
  BY DeviceStoreAssumption
<1>2. 0 \in Versions
  BY DeviceStoreAssumption DEF Versions
<1>3. AnyInfo \in Info /\ AnyConfig \in Config
  BY <1>1, <1>2 DEF AnyInfo, AnyConfig, Info, Config
<1> QED
  BY <1>3, DeviceStoreAssumption

LEMMA SyncPrograms ==
  ASSUME IInv, NEW x \in Syncs, NEW d \in Devices, NEW rest, WorksOn(x, d),
         Advance(x, rest, job[x]), Touches(d), MayGoOn(x, d, rest, job[x]),
         rest \in SyncLists \cup {<<>>}
  PROVE  Programs'
<1>1. TypeOK /\ Programs /\ x \in Agents /\ x \notin Handlers /\ x # Loop
  BY DeviceStoreAssumption DEF IInv, Agents
<1>2. \A y \in Agents \ {x} : todo'[y] = todo[y] /\ job'[y] = job[y] /\ Busy(y)' = Busy(y)
  BY <1>1, Advances, OthersGoOn
<1>3. todo'[x] = rest /\ (rest # <<>> => job'[x] = job[x])
  BY <1>1, Advances
<1>4. \A y \in Agents : Fits(y)'
  BY <1>1, OthersGoOn DEF Programs
<1>5. ASSUME NEW h \in Handlers
      PROVE  /\ todo'[h] \in HandlerLists \cup {<<>>}
             /\ Busy(h)' /\ job'[h].id \in HubDevices => OnHub(todo'[h], job'[h])
  BY <1>1, <1>2 DEF Programs, Agents
<1>6. todo'[Loop] \in {AddressList, <<>>} /\ (Busy(Loop)' => job'[Loop].id \in Tuyas)
  BY <1>1, <1>2 DEF Programs, Agents
<1>7. ASSUME NEW s \in Syncs
      PROVE  /\ todo'[s] \in SyncLists \cup {<<>>}
             /\ Busy(s)' => /\ job'[s].id \in HubDevices /\ job'[s].info = AnyInfo
                            /\ job'[s].config = AnyConfig
  <2>1. CASE s = x
    BY <1>1, <1>3, <2>1 DEF Programs, Busy, WorksOn
  <2>2. CASE s # x
    BY <1>1, <1>2, <2>2 DEF Programs, Agents
  <2> QED
    BY <2>1, <2>2
<1> QED
  BY <1>4, <1>5, <1>6, <1>7, Zenon DEF Programs

LEMMA SyncSteps ==
  ASSUME IInv, NEW x \in Syncs, NEW d \in Devices, NEW rest, WorksOn(x, d),
         Advance(x, rest, job[x]), Touches(d), MayGoOn(x, d, rest, job[x]),
         rest \in SyncLists \cup {<<>>}, Fills(d),
         d \notin mixed /\ SyncProgress(x, d) /\ Settled(d) =>
           Settled(d)' /\ (rest # <<>> => SyncProgress(x, d)')
  PROVE  IInv'
<1>1. TypeOK /\ x \in Agents /\ x \notin Writers
  BY DeviceStoreAssumption DEF IInv, Writers, Agents
<1>2. TypeOK'
  BY <1>1, AdvanceKeepsTypes DEF AllLists
<1>3. HubValues'
  <2>1. d \in HubDevices
    BY DEF IInv, Programs, WorksOn
  <2>2. HubValuesOf(d)
    BY <2>1 DEF IInv, HubValues, HubValuesOf
  <2>3. HubValuesOf(d)'
    BY <2>2 DEF HubValuesOf, Fills, AnyInfo, AnyConfig, ManagedInfo
  <2> QED
    BY <2>3, HubsStay DEF IInv
<1>4. Programs'
  BY SyncPrograms
<1>5. mixed' = mixed /\ todo'[x] = rest
  BY <1>1, Advances
<1>6. ASSUME NEW e \in Devices \ mixed, e # d PROVE Tended(e)'
  BY <1>1, <1>6, OtherDevicesStay DEF IInv
<1>7. ASSUME d \notin mixed PROVE Tended(d)'
  <2>1. Tended(d)
    BY <1>7 DEF IInv
  <2>2. \A y \in Writers : y \in Agents \ {x}
    BY <1>1 DEF Writers, Agents
  <2>3. \A y \in Writers : ~WorksOn(y, d)
    BY <1>1, <2>1, <2>2, DeviceStoreAssumption DEF Tended, Apart, Writers
  <2>4. \A y \in Writers : ~WorksOn(y, d)'
    BY <1>1, <2>2, <2>3, OthersGoOn
  <2>5. Settled(d) /\ SyncProgress(x, d)
    BY <2>1, <2>3 DEF Tended
  <2>6. Settled(d)' /\ (rest # <<>> => SyncProgress(x, d)')
    BY <1>7, <2>5
  <2>7. Apart(d)'
    <3>1. \A y \in Agents : WorksOn(y, d)' => WorksOn(y, d)
      BY <1>1, OthersGoOn
    <3> QED
      BY <2>1, <3>1 DEF Tended, Apart
  <2>8. ASSUME NEW s \in Syncs, WorksOn(s, d)'
        PROVE  SyncProgress(s, d)'
    <3>1. CASE s = x
      <4>1. rest # <<>>
        BY <1>5, <2>8, <3>1 DEF WorksOn, Busy
      <4> QED
        BY <2>6, <3>1, <4>1
    <3>2. CASE s # x
      <4>1. s \in Agents \ {x} /\ WorksOn(s, d) /\ todo'[s] = todo[s]
        BY <1>1, <2>8, <3>2, OthersGoOn, Advances DEF Agents
      <4>2. SyncProgress(s, d)
        BY <2>1, <4>1 DEF Tended
      <4>3. (infos[d] # None => infos'[d] # None) /\ (configs[d] # None => configs'[d] # None)
        BY HubEntries DEF Fills
      <4> QED
        BY <4>1, <4>2, <4>3 DEF SyncProgress
    <3> QED
      BY <3>1, <3>2
  <2> QED
    BY <2>4, <2>6, <2>7, <2>8 DEF Tended
<1> QED
  BY <1>2, <1>3, <1>4, <1>5, <1>6, <1>7 DEF IInv

-----------------------------------------------------------------------------
(* The operations of a handler and of the loop.                            *)

LEMMA WriterAtWork ==
  ASSUME IInv, NEW x \in Writers, Busy(x)
  PROVE  /\ x \in Agents /\ todo[x] \in AllLists /\ job[x] \in Job /\ job[x].id \in Devices
         /\ todo[x] \in WithInfo => job[x].info \in Info
         /\ todo[x] \in WithConfig => job[x].config \in Config
         /\ todo[x] # AddressList => x \in Handlers
         /\ x \in Handlers => x # Loop /\ todo[x] \in HandlerLists
         /\ x \in Handlers /\ job[x].id \in HubDevices => OnHub(todo[x], job[x])
         /\ x = Loop => job[x].id \notin HubDevices /\ todo[x] = AddressList
<1>1. Programs /\ x \in Agents
  BY DEF IInv, Writers, Agents
<1>2. job[x] \in Job /\ Fits(x)
  BY <1>1 DEF Programs, Fits
<1>3. x \in Handlers => /\ todo[x] \in HandlerLists
                       /\ (job[x].id \in HubDevices => OnHub(todo[x], job[x]))
  BY <1>1 DEF Programs, Busy
<1>4. x = Loop => todo[x] = AddressList /\ job[x].id \in Tuyas
  BY <1>1 DEF Programs, Busy
<1> QED
  BY <1>1, <1>2, <1>3, <1>4, DeviceStoreAssumption DEF Writers, AllLists, Fits, Job

LEMMA WriterLoads ==
  ASSUME IInv, NEW x \in Writers, Load(x)
  PROVE  IInv'
<1>1. SUFFICES ASSUME NEW d, d = job[x].id PROVE IInv'
  OBVIOUS
<1>2. SUFFICES ASSUME NEW j, j = [job[x] EXCEPT !.info = [infos[d] EXCEPT !.caps = job[x].config.profile]]
               PROVE  IInv'
  OBVIOUS
<1>3. SUFFICES ASSUME NEW rest, rest = IF infos[d] = None THEN <<>> ELSE Replace PROVE IInv'
  OBVIOUS
<1>4. TypeOK /\ Busy(x) /\ todo[x] = PatchList
  BY WriterAtWork, NextOperation DEF IInv, Load, Does
<1>5. x \in Handlers /\ x # Loop /\ x \in Agents /\ d \in Devices \ HubDevices /\ job[x] \in Job /\ job[x].config \in Config
  BY <1>1, <1>4, WriterAtWork, Heads DEF OnHub, RemoveLists, WithConfig
<1>6. Advance(x, rest, j) /\ Touches(d) /\ infos' = infos /\ configs' = configs /\ live' = live
  <2>1. LeftWith(x, rest, j)
    BY <1>1, <1>2, <1>3, <1>4, Tails DEF Load
  <2> QED
    BY <1>4, <1>5, <2>1, LeftWithAdvances
<1>7. WorksOn(x, d)
  BY <1>1, <1>4 DEF WorksOn
<1>8. rest # <<>> => /\ infos[d] # None /\ j \in Job /\ j.id = d /\ j.info \in Info
                    /\ j.config = job[x].config /\ j.info.caps = j.config.profile
  <2> SUFFICES ASSUME rest # <<>>
               PROVE  /\ infos[d] # None /\ j \in Job /\ j.id = d /\ j.info \in Info
                      /\ j.config = job[x].config /\ j.info.caps = j.config.profile
    OBVIOUS
  <2>1. infos[d] # None
    BY <1>3
  <2>2. infos[d] \in Info /\ job[x].config.profile \in Profiles
    BY <1>4, <1>5, <2>1 DEF TypeOK, Config
  <2>3. SUFFICES ASSUME NEW info, info = [infos[d] EXCEPT !.caps = job[x].config.profile]
                 PROVE  /\ j \in Job /\ j.id = d /\ j.info \in Info
                        /\ j.config = job[x].config /\ j.info.caps = j.config.profile
    BY <2>1
  <2>4. info \in Info /\ info.caps = job[x].config.profile
    BY <2>2, <2>3 DEF Info
  <2>5. j = [job[x] EXCEPT !.info = info]
    BY <1>2, <2>3
  <2> QED
    BY <1>1, <1>5, <2>4, <2>5 DEF Job
<1>9. MayGoOn(x, d, rest, j) /\ WriterGoesOn(x, d, rest)
  <2>1. rest \in {<<>>, Replace}
    BY <1>3
  <2>2. Replace \in HandlerLists /\ <<>> \notin WithInfo \cup WithConfig
    BY ListsAreNotEmpty DEF HandlerLists, AllLists, WithInfo, WithConfig
  <2>3. WriterGoesOn(x, d, rest)
    BY <1>5, <2>1, <2>2 DEF WriterGoesOn
  <2> QED
    BY <1>5, <1>8, <2>2, <2>3, DeviceStoreAssumption DEF MayGoOn
<1>10. ASSUME d \notin mixed, Progress(x, d) PROVE Arrives(x, d)'
  <2>1. RunsAsStored(d) /\ (d \notin torn => Agrees(d))
    BY <1>4, <1>10 DEF Progress, LiveProgress, TreeProgress, CarefulLists
  <2>2. RunsAsStored(d)' = RunsAsStored(d) /\ Agrees(d)' = Agrees(d)
    BY <1>6 DEF RunsAsStored, Agrees, Listed
  <2>3. todo'[x] = rest /\ torn' = torn /\ (rest # <<>> => job'[x] = j)
    BY <1>4, <1>5, <1>6, Advances
  <2>4. CASE rest = <<>>
    BY <2>1, <2>2, <2>3, <2>4 DEF Arrives
  <2>5. CASE rest # <<>>
    <3>1. todo'[x] = Replace /\ Replace # <<>>
      BY <1>3, <2>3, <2>5
    <3>2. LiveProgress(x, d)'
      BY <3>1, Heads, Different DEF LiveProgress, CarefulLists
    <3>3. TreeProgress(x, d)'
      BY <1>8, <2>3, <2>5, <3>1, Heads, Different DEF TreeProgress, CarefulLists
    <3> QED
      BY <3>1, <3>2, <3>3 DEF Arrives, Progress
  <2> QED
    BY <2>4, <2>5
<1> QED
  BY <1>5, <1>6, <1>7, <1>9, <1>10, WriterSteps

LEMMA WriterReadsMembers ==
  ASSUME IInv, NEW x \in Writers, Members(x)
  PROVE  IInv'
<1>1. SUFFICES ASSUME NEW d, d = job[x].id PROVE IInv'
  OBVIOUS
<1>2. SUFFICES ASSUME NEW j, j = [job[x] EXCEPT !.config = configs[d]] PROVE IInv'
  OBVIOUS
<1>3. SUFFICES ASSUME NEW rest, rest = IF configs[d] = None THEN <<>> ELSE Replace PROVE IInv'
  OBVIOUS
<1>4. TypeOK /\ Busy(x) /\ todo[x] = MembersList
  BY WriterAtWork, NextOperation DEF IInv, Members, Does
<1>5. /\ x \in Handlers /\ x # Loop /\ x \in Agents /\ d \in Devices \ HubDevices
      /\ job[x] \in Job /\ job[x].info \in Info
  BY <1>1, <1>4, WriterAtWork, Heads DEF OnHub, RemoveLists, WithInfo
<1>6. Advance(x, rest, j) /\ Touches(d) /\ infos' = infos /\ configs' = configs /\ live' = live
  <2>1. LeftWith(x, rest, j)
    BY <1>1, <1>2, <1>3, <1>4, Tails DEF Members
  <2> QED
    BY <1>4, <1>5, <2>1, LeftWithAdvances
<1>7. WorksOn(x, d)
  BY <1>1, <1>4 DEF WorksOn
<1>8. rest # <<>> => /\ configs[d] # None /\ j \in Job /\ j.id = d /\ j.info = job[x].info
                    /\ j.config = configs[d] /\ j.config \in Config
  BY <1>1, <1>2, <1>3, <1>4, <1>5 DEF TypeOK, Job
<1>9. MayGoOn(x, d, rest, j) /\ WriterGoesOn(x, d, rest)
  <2>1. rest \in {<<>>, Replace}
    BY <1>3
  <2>2. Replace \in HandlerLists /\ <<>> \notin WithInfo \cup WithConfig
    BY ListsAreNotEmpty DEF HandlerLists, AllLists, WithInfo, WithConfig
  <2>3. WriterGoesOn(x, d, rest)
    BY <1>5, <2>1, <2>2 DEF WriterGoesOn
  <2> QED
    BY <1>5, <1>8, <2>2, <2>3, DeviceStoreAssumption DEF MayGoOn
<1>10. ASSUME d \notin mixed, Progress(x, d) PROVE Arrives(x, d)'
  <2>1. RunsAsStored(d) /\ (d \notin torn => Agrees(d) /\ job[x].info = infos[d])
    BY <1>4, <1>10 DEF Progress, LiveProgress, TreeProgress, CarefulLists
  <2>2. RunsAsStored(d)' = RunsAsStored(d) /\ Agrees(d)' = Agrees(d)
    BY <1>6 DEF RunsAsStored, Agrees, Listed
  <2>3. todo'[x] = rest /\ torn' = torn /\ (rest # <<>> => job'[x] = j)
    BY <1>4, <1>5, <1>6, Advances
  <2>4. CASE rest = <<>>
    BY <2>1, <2>2, <2>3, <2>4 DEF Arrives
  <2>5. CASE rest # <<>>
    <3>1. todo'[x] = Replace /\ Replace # <<>>
      BY <1>3, <2>3, <2>5
    <3>2. LiveProgress(x, d)'
      BY <3>1, Heads, Different DEF LiveProgress, CarefulLists
    <3>3. d \notin torn => j.info.caps \in {j.config.profile, NoCaps}
      BY <1>8, <2>1, <2>5 DEF Agrees, Listed
    <3>4. d \notin torn => TreeProgress(x, d)'
      BY <2>3, <2>5, <3>1, <3>3, Heads, Different DEF TreeProgress, CarefulLists
    <3> QED
      BY <2>3, <3>1, <3>2, <3>4 DEF Arrives, Progress
  <2> QED
    BY <2>4, <2>5
<1> QED
  BY <1>5, <1>6, <1>7, <1>9, <1>10, WriterSteps

LEMMA WriterRenames ==
  ASSUME IInv, NEW x \in Writers, Rename(x)
  PROVE  IInv'
<1>1. SUFFICES ASSUME NEW d, d = job[x].id PROVE IInv'
  OBVIOUS
<1>2. SUFFICES ASSUME NEW renames \in BOOLEAN,
                      renames = (infos[d] # None /\ infos[d].name # job[x].cloud.name)
               PROVE  IInv'
  OBVIOUS
<1>3. SUFFICES ASSUME NEW rekeys \in BOOLEAN, rekeys = (job[x].config.key # job[x].cloud.key)
               PROVE  IInv'
  OBVIOUS
<1>4. SUFFICES ASSUME NEW j,
                      j = [job[x] EXCEPT !.config.key = job[x].cloud.key,
                                         !.info = IF renames
                                                  THEN [infos[d] EXCEPT !.name = job[x].cloud.name]
                                                  ELSE None]
               PROVE  IInv'
  OBVIOUS
<1>5. SUFFICES ASSUME NEW rest,
                      rest = (IF renames THEN RenameList ELSE <<>>) \o
                             (IF rekeys THEN RekeyList ELSE <<>>)
               PROVE  IInv'
  OBVIOUS
<1>6. TypeOK /\ Busy(x) /\ todo[x] = ImportList
  BY WriterAtWork, NextOperation DEF IInv, Rename, Does
<1>7. /\ x \in Handlers /\ x # Loop /\ x \in Agents /\ d \in Devices \ HubDevices
      /\ job[x] \in Job /\ job[x].config \in Config
  BY <1>1, <1>6, WriterAtWork, Heads DEF OnHub, RemoveLists, WithConfig
<1>8. Advance(x, rest, j) /\ Touches(d) /\ infos' = infos /\ configs' = configs /\ live' = live
  <2>1. LeftWith(x, rest, j)
    BY <1>1, <1>2, <1>3, <1>4, <1>5, Zenon DEF Rename, RenameList, RekeyList
  <2> QED
    BY <1>6, <1>7, <2>1, LeftWithAdvances
<1>9. WorksOn(x, d)
  BY <1>1, <1>6 DEF WorksOn
<1>10. /\ ~renames /\ ~rekeys => rest = <<>>
       /\ renames /\ ~rekeys => rest = RenameList
       /\ ~renames /\ rekeys => rest = RekeyList
       /\ renames /\ rekeys => rest = RenameRekeyList
  BY <1>5, Joins
<1>11. job[x].cloud.key \in Versions /\ job[x].cloud.name \in Versions
  BY <1>7 DEF Job, Cloud
<1>12. /\ j.id = d /\ j.config \in Config /\ j.config.profile = job[x].config.profile
       /\ renames => j.info \in Info /\ j.info.caps = infos[d].caps
       /\ ~renames => j.info = None
       /\ j \in Job
  <2>1. renames => infos[d] \in Info
    BY <1>2, <1>6, <1>7 DEF TypeOK
  <2>2. j.config = [job[x].config EXCEPT !.key = job[x].cloud.key]
    BY <1>4, <1>7 DEF Job
  <2>3. j.config \in Config /\ j.config.profile = job[x].config.profile
    BY <1>7, <1>11, <2>2 DEF Config
  <2>4. renames => j.info = [infos[d] EXCEPT !.name = job[x].cloud.name]
    BY <1>4, <1>7 DEF Job
  <2>5. renames => j.info \in Info /\ j.info.caps = infos[d].caps
    BY <1>11, <2>1, <2>4 DEF Info
  <2>6. ~renames => j.info = None
    BY <1>4, <1>7 DEF Job
  <2>7. j.id = d /\ j.cloud = job[x].cloud
    BY <1>1, <1>4, <1>7 DEF Job
  <2>8. j = [id |-> j.id, info |-> j.info, config |-> j.config, cloud |-> j.cloud]
    BY <1>4, <1>7 DEF Job
  <2>9. j.info \in Info \cup {None} /\ j.cloud \in Cloud
    BY <1>7, <2>5, <2>6, <2>7 DEF Job
  <2> QED
    BY <1>7, <2>3, <2>5, <2>6, <2>7, <2>8, <2>9 DEF Job
<1>13. MayGoOn(x, d, rest, j) /\ WriterGoesOn(x, d, rest)
  <2>1. rest \in HandlerLists \cup {<<>>}
    BY <1>10 DEF HandlerLists
  <2>2. WriterGoesOn(x, d, rest)
    BY <1>7, <2>1 DEF WriterGoesOn
  <2>3. RekeyList \notin WithInfo
    BY Heads, Different DEF WithInfo
  <2>4. <<>> \notin WithInfo \cup WithConfig
    BY ListsAreNotEmpty DEF HandlerLists, AllLists, WithInfo, WithConfig
  <2>5. rest \in WithInfo => renames
    BY <1>10, <2>3, <2>4
  <2> QED
    BY <1>12, <2>2, <2>5, DeviceStoreAssumption DEF MayGoOn
<1>14. ASSUME d \notin mixed, Progress(x, d) PROVE Arrives(x, d)'
  <2>1. /\ RunsAsStored(d)
        /\ d \notin torn => /\ Agrees(d) /\ configs[d] # None
                            /\ job[x].config.profile = configs[d].profile
    BY <1>6, <1>14 DEF Progress, LiveProgress, TreeProgress, CarefulLists
  <2>2. RunsAsStored(d)' = RunsAsStored(d) /\ Agrees(d)' = Agrees(d)
    BY <1>8 DEF RunsAsStored, Agrees, Listed
  <2>3. todo'[x] = rest /\ torn' = torn /\ (rest # <<>> => job'[x] = j)
    BY <1>6, <1>7, <1>8, Advances
  <2>4. CASE rest = <<>>
    BY <2>1, <2>2, <2>3, <2>4 DEF Arrives
  <2>5. CASE rest # <<>>
    <3>1. rest \in {RenameList, RekeyList, RenameRekeyList}
      BY <1>10, <2>5
    <3>2. LiveProgress(x, d)'
      BY <2>1, <2>2, <2>3, <3>1, Heads, Different DEF LiveProgress, CarefulLists
    <3>3. rest \in {RenameList, RenameRekeyList} => renames
      BY <1>10, <2>5, Different, Heads
    <3>4. d \notin torn /\ renames => j.info.caps \in {configs[d].profile, NoCaps}
      BY <1>12, <2>1 DEF Agrees, Listed
    <3>5. d \notin torn => TreeProgress(x, d)'
      BY <1>8, <1>12, <2>1, <2>2, <2>3, <2>5, <3>1, <3>3, <3>4, Heads, Different
      DEF TreeProgress, CarefulLists
    <3> QED
      BY <2>3, <2>5, <3>2, <3>5 DEF Arrives, Progress
  <2> QED
    BY <2>4, <2>5
<1> QED
  BY <1>7, <1>8, <1>9, <1>13, <1>14, WriterSteps

LEMMA WriterReloads ==
  ASSUME IInv, NEW x \in Writers, Reload(x)
  PROVE  IInv'
<1>1. SUFFICES ASSUME NEW d, d = job[x].id PROVE IInv'
  OBVIOUS
<1>2. SUFFICES ASSUME NEW j, j = job[x] PROVE IInv'
  OBVIOUS
<1>3. SUFFICES ASSUME NEW rest, rest = IF infos[d] = None THEN <<>> ELSE RestartList PROVE IInv'
  OBVIOUS
<1>4. TypeOK /\ Busy(x) /\ todo[x] = ReloadList
  BY WriterAtWork, NextOperation DEF IInv, Reload, Does
<1>5. /\ x \in Handlers /\ x # Loop /\ x \in Agents /\ d \in Devices \ HubDevices
      /\ j \in Job /\ j.id = d /\ j.config \in Config
  BY <1>1, <1>2, <1>4, WriterAtWork, Heads DEF OnHub, RemoveLists, WithConfig
<1>6. Advance(x, rest, j) /\ Touches(d) /\ infos' = infos /\ configs' = configs /\ live' = live
  <2>1. LeftWith(x, rest, j)
    BY <1>1, <1>2, <1>3, <1>4, Tails DEF Reload
  <2> QED
    BY <1>4, <1>5, <2>1, LeftWithAdvances
<1>7. WorksOn(x, d)
  BY <1>1, <1>4 DEF WorksOn
<1>8. MayGoOn(x, d, rest, j) /\ WriterGoesOn(x, d, rest)
  <2>1. rest \in {<<>>, RestartList}
    BY <1>3
  <2>2. <<>> \notin WithInfo \cup WithConfig
    BY ListsAreNotEmpty DEF HandlerLists, AllLists, WithInfo, WithConfig
  <2>3. RestartList \in HandlerLists /\ RestartList \notin WithInfo
    BY Heads, Different DEF HandlerLists, WithInfo
  <2>4. WriterGoesOn(x, d, rest)
    BY <1>5, <2>1, <2>3 DEF WriterGoesOn
  <2> QED
    BY <1>5, <2>1, <2>2, <2>3, <2>4, DeviceStoreAssumption DEF MayGoOn
<1>9. ASSUME d \notin mixed, Progress(x, d) PROVE Arrives(x, d)'
  <2>1. configs[d] = j.config /\ (live[d] # None => infos[d] # None) /\ (d \notin torn => Agrees(d))
    BY <1>2, <1>4, <1>9 DEF Progress, LiveProgress, TreeProgress, CarefulLists
  <2>2. Agrees(d)' = Agrees(d)
    BY <1>6 DEF Agrees, Listed
  <2>3. todo'[x] = rest /\ torn' = torn /\ (rest # <<>> => job'[x] = j)
    BY <1>4, <1>5, <1>6, Advances
  <2>4. CASE rest = <<>>
    <3>1. infos[d] = None
      BY <1>3, <2>4, ListsAreNotEmpty DEF AllLists, HandlerLists
    <3>2. RunsAsStored(d)'
      BY <1>6, <2>1, <3>1 DEF RunsAsStored
    <3> QED
      BY <2>1, <2>2, <2>3, <2>4, <3>2 DEF Arrives
  <2>5. CASE rest # <<>>
    <3>1. rest = RestartList /\ infos[d] # None
      BY <1>3, <2>5
    <3>2. LiveProgress(x, d)'
      BY <1>6, <2>1, <2>3, <2>5, <3>1, Heads, Different DEF LiveProgress, CarefulLists
    <3>3. d \notin torn => infos[d].caps \in {j.config.profile, NoCaps}
      BY <1>5, <2>1, DeviceStoreAssumption DEF Agrees, Listed
    <3>4. d \notin torn => TreeProgress(x, d)'
      BY <1>6, <2>3, <2>5, <3>1, <3>3, Heads, Different DEF TreeProgress, CarefulLists
    <3> QED
      BY <2>3, <2>5, <3>2, <3>4 DEF Arrives, Progress
  <2> QED
    BY <2>4, <2>5
<1> QED
  BY <1>2, <1>5, <1>6, <1>7, <1>8, <1>9, WriterSteps

(* The first entry of a list that stores; a new name alone leaves what the  *)
(* plugin runs with.                                                       *)
LEMMA WriterPutsInfo ==
  ASSUME IInv, NEW x \in Writers, PutInfo(x)
  PROVE  IInv'
<1>1. SUFFICES ASSUME NEW d, d = job[x].id PROVE IInv'
  OBVIOUS
<1>2. SUFFICES ASSUME NEW j, j = job[x] PROVE IInv'
  OBVIOUS
<1>3. SUFFICES ASSUME NEW rest, rest = Tail(todo[x]) PROVE IInv'
  OBVIOUS
<1>4. TypeOK /\ Busy(x) /\ todo[x] \in {Replace, New, RenameList, RenameRekeyList}
  BY WriterAtWork, NextOperation DEF IInv, PutInfo, Does
<1>5. /\ x \in Handlers /\ x # Loop /\ x \in Agents /\ d \in Devices
      /\ d \in HubDevices => todo[x] = RenameList /\ j.info = ManagedInfo
      /\ j \in Job /\ j.id = d /\ j.info \in Info
  <2>1. todo[x] \notin RemoveLists /\ todo[x] \in WithInfo /\ todo[x] # AddressList
    BY <1>4, Heads, Different DEF RemoveLists, WithInfo
  <2> QED
    BY <1>1, <1>2, <1>4, <2>1, WriterAtWork DEF OnHub
<1>6. Advance(x, rest, j) /\ infos'[d] = j.info /\ configs' = configs /\ live' = live
  <2>1. Left(x, rest) /\ infos' = [infos EXCEPT ![d] = j.info] /\ configs' = configs /\ live' = live
    BY <1>1, <1>2, <1>3, Zenon DEF PutInfo
  <2> QED
    BY <1>2, <1>4, <1>5, <2>1, LeftAdvances DEF TypeOK
<1>7. Touches(d) /\ WorksOn(x, d)
  <2>1. infos' = [infos EXCEPT ![d] = j.info]
    BY <1>1, <1>2, Zenon DEF PutInfo
  <2> QED
    BY <1>1, <1>4, <1>5, <1>6, <2>1 DEF Touches, WorksOn, TypeOK
<1>8. MayGoOn(x, d, rest, j) /\ WriterGoesOn(x, d, rest)
  <2>1. rest \in {StoreList, NewConfigList, <<>>, RekeyList}
    BY <1>3, <1>4, Tails
  <2>2. StoreList \notin WithInfo /\ NewConfigList \notin WithInfo /\ RekeyList \notin WithInfo
    BY Heads, Different DEF WithInfo
  <2>3. <<>> \notin WithInfo \cup WithConfig
    BY ListsAreNotEmpty DEF HandlerLists, AllLists, WithInfo, WithConfig
  <2>4. WriterGoesOn(x, d, rest)
    BY <1>3, <1>5, <2>1, Tails DEF WriterGoesOn, HandlerLists
  <2>5. rest # <<>> => todo[x] \in WithConfig
    BY <1>3, <1>4, Tails DEF WithConfig
  <2>6. rest \in WithConfig => j.config # None
    BY <1>2, <1>4, <1>5, <2>3, <2>5, WriterAtWork, DeviceStoreAssumption
  <2> QED
    BY <1>5, <2>1, <2>2, <2>3, <2>4, <2>6 DEF MayGoOn
<1>9. todo'[x] = rest /\ torn' = torn /\ (rest # <<>> => job'[x] = j)
  BY <1>4, <1>5, <1>6, Advances
<1>10. ASSUME d \notin mixed, Progress(x, d) PROVE Arrives(x, d)'
  <2>1. LiveProgress(x, d) /\ (d \notin torn => TreeProgress(x, d)) /\ j.info # None
    BY <1>5, <1>10, DeviceStoreAssumption DEF Progress
  <2>2. CASE todo[x] \in {Replace, New}
    <3>1. todo'[x] \in {StoreList, NewConfigList} /\ rest # <<>>
      BY <1>3, <1>9, <2>2, Tails, ListsAreNotEmpty DEF AllLists, HandlerLists
    <3>2. LiveProgress(x, d)'
      BY <1>6, <2>1, <3>1, Heads, Different DEF LiveProgress, CarefulLists
    <3>3. d \notin torn => j.info.caps \in {j.config.profile, NoCaps}
      BY <1>2, <2>1, <2>2 DEF TreeProgress
    <3>4. d \notin torn => TreeProgress(x, d)'
      BY <1>6, <1>9, <3>1, <3>3, Heads, Different DEF TreeProgress, CarefulLists
    <3> QED
      BY <1>9, <3>1, <3>2, <3>4 DEF Arrives, Progress
  <2>3. CASE todo[x] \in {RenameList, RenameRekeyList}
    <3>1. /\ RunsAsStored(d)
          /\ d \notin torn =>
               Agrees(d) /\ (configs[d] # None => j.info.caps \in {configs[d].profile, NoCaps})
      BY <1>2, <2>1, <2>3 DEF LiveProgress, TreeProgress, CarefulLists
    <3>2. RunsAsStored(d)' /\ (d \notin torn => Agrees(d)')
      BY <1>6, <2>1, <3>1 DEF RunsAsStored, Agrees, Listed
    <3>3. CASE todo[x] = RenameList
      <4>1. rest = <<>>
        BY <1>3, <3>3, Tails
      <4> QED
        BY <1>9, <3>2, <4>1 DEF Arrives
    <3>4. CASE todo[x] = RenameRekeyList
      <4>1. rest = RekeyList /\ rest # <<>>
        BY <1>3, <3>4, Tails, ListsAreNotEmpty DEF AllLists, HandlerLists
      <4>2. LiveProgress(x, d)'
        BY <1>9, <3>2, <4>1, Heads, Different DEF LiveProgress, CarefulLists
      <4>3. d \notin torn => configs[d] # None /\ j.config.profile = configs[d].profile
        BY <1>2, <2>1, <3>4 DEF TreeProgress
      <4>4. d \notin torn => TreeProgress(x, d)'
        BY <1>6, <1>9, <3>2, <4>1, <4>3, Heads, Different DEF TreeProgress, CarefulLists
      <4> QED
        BY <1>9, <4>1, <4>2, <4>4 DEF Arrives, Progress
    <3> QED
      BY <2>3, <3>3, <3>4
  <2> QED
    BY <1>4, <2>2, <2>3
<1>11. d \in HubDevices => HubValuesOf(d)'
  BY <1>5, <1>6 DEF IInv, HubValues, HubValuesOf, AnyInfo, AnyConfig, ManagedInfo
<1> QED
  BY <1>2, <1>5, <1>6, <1>7, <1>8, <1>10, <1>11, WriterSteps

(* The config; the loop only changes the address.                          *)
LEMMA WriterPutsConfig ==
  ASSUME IInv, NEW x \in Writers, PutConfig(x)
  PROVE  IInv'
<1>1. SUFFICES ASSUME NEW d, d = job[x].id PROVE IInv'
  OBVIOUS
<1>2. SUFFICES ASSUME NEW j, j = job[x] PROVE IInv'
  OBVIOUS
<1>3. SUFFICES ASSUME NEW rest, rest = Tail(todo[x]) PROVE IInv'
  OBVIOUS
<1>4. TypeOK /\ Busy(x) /\ todo[x] \in {StoreList, NewConfigList, RekeyList, AddressList}
  BY WriterAtWork, NextOperation DEF IInv, PutConfig, Does
<1>5. /\ x \in Agents /\ d \in Devices \ HubDevices
      /\ j \in Job /\ j.id = d /\ j.config \in Config
      /\ x = Loop => todo[x] = AddressList
      /\ x \in Handlers => x # Loop /\ todo[x] # AddressList
  <2>1. todo[x] \notin RemoveLists /\ todo[x] \in WithConfig
    BY <1>4, Heads DEF RemoveLists, WithConfig
  <2>2. AddressList \notin HandlerLists
    BY Heads, Different DEF HandlerLists, RemoveLists
  <2> QED
    BY <1>1, <1>2, <1>4, <2>1, <2>2, WriterAtWork, Heads DEF Writers, OnHub
<1>6. Advance(x, rest, j) /\ configs'[d] = j.config /\ infos' = infos /\ live' = live
  <2>1. Left(x, rest) /\ configs' = [configs EXCEPT ![d] = j.config] /\ infos' = infos /\ live' = live
    BY <1>1, <1>2, <1>3, Zenon DEF PutConfig
  <2> QED
    BY <1>2, <1>4, <1>5, <2>1, LeftAdvances DEF TypeOK
<1>7. Touches(d) /\ WorksOn(x, d)
  <2>1. configs' = [configs EXCEPT ![d] = j.config]
    BY <1>1, <1>2, Zenon DEF PutConfig
  <2> QED
    BY <1>1, <1>4, <1>5, <1>6, <2>1 DEF Touches, WorksOn, TypeOK
<1>8. MayGoOn(x, d, rest, j) /\ WriterGoesOn(x, d, rest)
  <2>1. /\ rest \in {RestartList, StartList, ReloadList, <<>>}
        /\ todo[x] = AddressList => rest = <<>>
    BY <1>3, <1>4, Tails
  <2>2. RestartList \notin WithInfo /\ StartList \notin WithInfo /\ ReloadList \notin WithInfo
    BY Heads, Different DEF WithInfo
  <2>3. <<>> \notin WithInfo \cup WithConfig
    BY ListsAreNotEmpty DEF HandlerLists, AllLists, WithInfo, WithConfig
  <2>4. WriterGoesOn(x, d, rest)
    BY <1>5, <2>1 DEF WriterGoesOn, HandlerLists
  <2> QED
    BY <1>5, <2>1, <2>2, <2>3, <2>4, DeviceStoreAssumption DEF MayGoOn
<1>9. todo'[x] = rest /\ torn' = torn /\ (rest # <<>> => job'[x] = j)
  BY <1>4, <1>5, <1>6, Advances
<1>10. ASSUME d \notin mixed, Progress(x, d) PROVE Arrives(x, d)'
  <2>1. LiveProgress(x, d) /\ (d \notin torn => TreeProgress(x, d)) /\ j.config # None
    BY <1>5, <1>10, DeviceStoreAssumption DEF Progress
  <2>2. CASE todo[x] \in {StoreList, NewConfigList}
    <3>1. todo'[x] \in {RestartList, StartList} /\ rest # <<>>
      BY <1>3, <1>9, <2>2, Tails, ListsAreNotEmpty DEF AllLists, HandlerLists
    <3>2. infos[d] # None /\ (d \notin torn => infos[d].caps \in {j.config.profile, NoCaps})
      BY <1>2, <2>1, <2>2 DEF LiveProgress, TreeProgress
    <3>3. LiveProgress(x, d)'
      BY <1>6, <1>9, <3>1, <3>2, Heads, Different DEF LiveProgress, CarefulLists
    <3>4. d \notin torn => TreeProgress(x, d)'
      BY <1>6, <1>9, <3>1, <3>2, Heads, Different DEF TreeProgress, CarefulLists
    <3> QED
      BY <1>9, <3>1, <3>3, <3>4 DEF Arrives, Progress
  <2>3. CASE todo[x] = RekeyList
    <3>1. todo'[x] = ReloadList /\ rest # <<>>
      BY <1>3, <1>9, <2>3, Tails, ListsAreNotEmpty DEF AllLists, HandlerLists
    <3>2. /\ RunsAsStored(d)
          /\ d \notin torn => /\ Agrees(d) /\ configs[d] # None
                              /\ j.config.profile = configs[d].profile
      BY <1>2, <2>1, <2>3 DEF LiveProgress, TreeProgress, CarefulLists
    <3>3. LiveProgress(x, d)'
      BY <1>6, <1>9, <3>1, <3>2, Heads, Different DEF LiveProgress, CarefulLists, RunsAsStored
    <3>4. d \notin torn => Agrees(d)'
      BY <1>6, <3>2 DEF Agrees, Listed
    <3>5. d \notin torn => TreeProgress(x, d)'
      BY <1>6, <1>9, <3>1, <3>4, Heads, Different DEF TreeProgress, CarefulLists
    <3> QED
      BY <1>9, <3>1, <3>3, <3>5 DEF Arrives, Progress
  <2>4. CASE todo[x] = AddressList
    <3>1. rest = <<>>
      BY <1>3, <2>4, Tails
    <3>2. /\ RunsAsStored(d) /\ (d \notin torn => Agrees(d))
          /\ configs[d] # None /\ j.config.key = configs[d].key
          /\ j.config.profile = configs[d].profile
      BY <1>2, <2>1, <2>4 DEF LiveProgress, TreeProgress, CarefulLists
    <3>3. RunsAsStored(d)' /\ (d \notin torn => Agrees(d)')
      BY <1>6, <2>1, <3>2 DEF RunsAsStored, Agrees, Listed
    <3> QED
      BY <1>9, <3>1, <3>3 DEF Arrives
  <2> QED
    BY <1>4, <2>2, <2>3, <2>4
<1> QED
  BY <1>2, <1>5, <1>6, <1>7, <1>8, <1>10, WriterSteps

LEMMA WriterRemovesInfo ==
  ASSUME IInv, NEW x \in Writers, RemoveInfo(x)
  PROVE  IInv'
<1>1. SUFFICES ASSUME NEW d, d = job[x].id PROVE IInv'
  OBVIOUS
<1>2. SUFFICES ASSUME NEW j, j = job[x] PROVE IInv'
  OBVIOUS
<1>3. SUFFICES ASSUME NEW rest, rest = Tail(todo[x]) PROVE IInv'
  OBVIOUS
<1>4. TypeOK /\ Busy(x) /\ todo[x] = RemoveList
  BY WriterAtWork, NextOperation DEF IInv, RemoveInfo, Does
<1>5. /\ x \in Handlers /\ x # Loop /\ x \in Agents /\ d \in Devices
      /\ j \in Job /\ j.id = d
  BY <1>1, <1>2, <1>4, WriterAtWork, Heads
<1>6. Advance(x, rest, j) /\ infos'[d] = None /\ configs' = configs /\ live' = live
  <2>1. Left(x, rest) /\ infos' = [infos EXCEPT ![d] = None] /\ configs' = configs /\ live' = live
    BY <1>1, <1>2, <1>3, Zenon DEF RemoveInfo
  <2> QED
    BY <1>2, <1>4, <1>5, <2>1, LeftAdvances DEF TypeOK
<1>7. Touches(d) /\ WorksOn(x, d)
  <2>1. infos' = [infos EXCEPT ![d] = None]
    BY <1>1, <1>2, Zenon DEF RemoveInfo
  <2> QED
    BY <1>1, <1>4, <1>5, <1>6, <2>1 DEF Touches, WorksOn, TypeOK
<1>8. MayGoOn(x, d, rest, j) /\ WriterGoesOn(x, d, rest)
  <2>1. rest = RemoveConfigList
    BY <1>3, <1>4, Tails
  <2>2. rest \notin WithInfo /\ rest \notin WithConfig
    BY <2>1, Heads, Different, ListsAreNotEmpty
    DEF WithInfo, WithConfig, AllLists, HandlerLists
  <2>3. WriterGoesOn(x, d, rest)
    BY <1>5, <2>1 DEF WriterGoesOn, HandlerLists, RemoveLists
  <2> QED
    BY <1>5, <2>2, <2>3 DEF MayGoOn
<1>9. todo'[x] = rest /\ torn' = torn /\ (rest # <<>> => job'[x] = j)
  BY <1>4, <1>5, <1>6, Advances
<1>10. ASSUME d \notin mixed, Progress(x, d) PROVE Arrives(x, d)'
  <2>1. live[d] = None
    BY <1>4, <1>10 DEF Progress, LiveProgress
  <2>2. todo'[x] = RemoveConfigList /\ rest # <<>>
    BY <1>3, <1>4, <1>9, Tails, ListsAreNotEmpty DEF AllLists, HandlerLists, RemoveLists
  <2>3. LiveProgress(x, d)'
    BY <1>6, <2>1, <2>2, Heads DEF LiveProgress, CarefulLists
  <2>4. TreeProgress(x, d)'
    BY <2>2, Heads DEF TreeProgress, CarefulLists
  <2> QED
    BY <1>9, <2>2, <2>3, <2>4 DEF Arrives, Progress
<1>11. d \in HubDevices => HubValuesOf(d)'
  BY <1>6 DEF IInv, HubValues, HubValuesOf, AnyInfo, AnyConfig, ManagedInfo
<1> QED
  BY <1>2, <1>5, <1>6, <1>7, <1>8, <1>10, <1>11, WriterSteps

LEMMA WriterRemovesConfig ==
  ASSUME IInv, NEW x \in Writers, RemoveConfig(x)
  PROVE  IInv'
<1>1. SUFFICES ASSUME NEW d, d = job[x].id PROVE IInv'
  OBVIOUS
<1>2. SUFFICES ASSUME NEW j, j = job[x] PROVE IInv'
  OBVIOUS
<1>3. SUFFICES ASSUME NEW rest, rest = Tail(todo[x]) PROVE IInv'
  OBVIOUS
<1>4. TypeOK /\ Busy(x) /\ todo[x] = RemoveConfigList
  BY WriterAtWork, NextOperation DEF IInv, RemoveConfig, Does
<1>5. /\ x \in Handlers /\ x # Loop /\ x \in Agents /\ d \in Devices
      /\ j \in Job /\ j.id = d
  BY <1>1, <1>2, <1>4, WriterAtWork, Heads
<1>6. Advance(x, rest, j) /\ configs'[d] = None /\ infos' = infos /\ live' = live
  <2>1. Left(x, rest) /\ configs' = [configs EXCEPT ![d] = None] /\ infos' = infos /\ live' = live
    BY <1>1, <1>2, <1>3, Zenon DEF RemoveConfig
  <2> QED
    BY <1>2, <1>4, <1>5, <2>1, LeftAdvances DEF TypeOK
<1>7. Touches(d) /\ WorksOn(x, d)
  <2>1. configs' = [configs EXCEPT ![d] = None]
    BY <1>1, <1>2, Zenon DEF RemoveConfig
  <2> QED
    BY <1>1, <1>4, <1>5, <1>6, <2>1 DEF Touches, WorksOn, TypeOK
<1>8. MayGoOn(x, d, rest, j) /\ WriterGoesOn(x, d, rest)
  <2>1. rest = <<>>
    BY <1>3, <1>4, Tails
  <2>2. rest \notin WithInfo /\ rest \notin WithConfig
    BY <2>1, Heads, Different, ListsAreNotEmpty
    DEF WithInfo, WithConfig, AllLists, HandlerLists
  <2>3. WriterGoesOn(x, d, rest)
    BY <1>5, <2>1 DEF WriterGoesOn, HandlerLists, RemoveLists
  <2> QED
    BY <1>5, <2>2, <2>3 DEF MayGoOn
<1>9. todo'[x] = rest /\ torn' = torn /\ (rest # <<>> => job'[x] = j)
  BY <1>4, <1>5, <1>6, Advances
<1>10. ASSUME d \notin mixed, Progress(x, d) PROVE Arrives(x, d)'
  <2>1. live[d] = None
    BY <1>4, <1>10 DEF Progress, LiveProgress
  <2>2. todo'[x] = <<>>
    BY <1>3, <1>4, <1>9, Tails
  <2>3. RunsAsStored(d)' /\ Agrees(d)'
    BY <1>5, <1>6, <2>1 DEF RunsAsStored, Agrees, Listed
  <2> QED
    BY <2>2, <2>3 DEF Arrives
<1>11. d \in HubDevices => HubValuesOf(d)'
  BY <1>6 DEF IInv, HubValues, HubValuesOf, AnyInfo, AnyConfig, ManagedInfo
<1> QED
  BY <1>2, <1>5, <1>6, <1>7, <1>8, <1>10, <1>11, WriterSteps

(* Nothing runs while a plugin is replaced, or once it is gone for good.    *)
LEMMA WriterDeregisters ==
  ASSUME IInv, NEW x \in Writers, Deregister(x)
  PROVE  IInv'
<1>1. SUFFICES ASSUME NEW d, d = job[x].id PROVE IInv'
  OBVIOUS
<1>2. SUFFICES ASSUME NEW j, j = job[x] PROVE IInv'
  OBVIOUS
<1>3. SUFFICES ASSUME NEW rest, rest = Tail(todo[x]) PROVE IInv'
  OBVIOUS
<1>4. TypeOK /\ Busy(x) /\ todo[x] \in {RestartList, UnregisterList}
  BY WriterAtWork, NextOperation DEF IInv, Deregister, Does
<1>5. /\ x \in Handlers /\ x # Loop /\ x \in Agents /\ d \in Devices
      /\ j \in Job /\ j.id = d
      /\ d \in HubDevices => todo[x] # RestartList
      /\ todo[x] = RestartList => j.config \in Config
  <2>1. RestartList \notin RemoveLists /\ RestartList \in WithConfig
    BY Heads, Different DEF RemoveLists, WithConfig
  <2>2. todo[x] # AddressList
    BY <1>4, Heads
  <2> QED
    BY <1>1, <1>2, <1>4, <2>1, <2>2, WriterAtWork, Heads DEF OnHub
<1>6. Advance(x, rest, j) /\ live'[d] = None /\ infos' = infos /\ configs' = configs
  <2>1. Left(x, rest) /\ live' = [live EXCEPT ![d] = None] /\ infos' = infos /\ configs' = configs
    BY <1>1, <1>2, <1>3, Zenon DEF Deregister
  <2> QED
    BY <1>2, <1>4, <1>5, <2>1, LeftAdvances DEF TypeOK
<1>7. Touches(d) /\ WorksOn(x, d)
  <2>1. live' = [live EXCEPT ![d] = None]
    BY <1>1, <1>2, Zenon DEF Deregister
  <2> QED
    BY <1>1, <1>4, <1>5, <1>6, <2>1 DEF Touches, WorksOn, TypeOK
<1>8. MayGoOn(x, d, rest, j) /\ WriterGoesOn(x, d, rest)
  <2>1. /\ rest \in {StartList, RemoveList}
        /\ todo[x] = RestartList => rest = StartList
        /\ todo[x] = UnregisterList => rest = RemoveList
    BY <1>3, <1>4, Tails
  <2>2. /\ StartList \notin WithInfo
        /\ RemoveList \notin WithInfo /\ RemoveList \notin WithConfig
    BY Heads, Different DEF WithInfo, WithConfig
  <2>3. WriterGoesOn(x, d, rest)
    BY <1>4, <1>5, <2>1 DEF WriterGoesOn, HandlerLists, RemoveLists
  <2>4. rest = StartList => todo[x] = RestartList
    BY <1>4, <2>1, Heads
  <2> QED
    BY <1>5, <2>1, <2>2, <2>3, <2>4, DeviceStoreAssumption DEF MayGoOn
<1>9. todo'[x] = rest /\ torn' = torn /\ (rest # <<>> => job'[x] = j)
  BY <1>4, <1>5, <1>6, Advances
<1>10. ASSUME d \notin mixed, Progress(x, d) PROVE Arrives(x, d)'
  <2>1. LiveProgress(x, d) /\ (d \notin torn => TreeProgress(x, d))
    BY <1>10 DEF Progress
  <2>2. CASE todo[x] = RestartList
    <3>1. todo'[x] = StartList /\ rest # <<>>
      BY <1>3, <1>9, <2>2, Tails, ListsAreNotEmpty DEF AllLists, HandlerLists
    <3>2. /\ infos[d] # None /\ configs[d] = j.config
          /\ d \notin torn => infos[d].caps \in {j.config.profile, NoCaps}
      BY <1>2, <2>1, <2>2 DEF LiveProgress, TreeProgress
    <3>3. LiveProgress(x, d)'
      BY <1>6, <1>9, <3>1, <3>2, Heads, Different DEF LiveProgress, CarefulLists
    <3>4. d \notin torn => TreeProgress(x, d)'
      BY <1>6, <1>9, <3>1, <3>2, Heads, Different DEF TreeProgress, CarefulLists
    <3> QED
      BY <1>9, <3>1, <3>3, <3>4 DEF Arrives, Progress
  <2>3. CASE todo[x] = UnregisterList
    <3>1. todo'[x] = RemoveList /\ rest # <<>>
      BY <1>3, <1>9, <2>3, Tails, ListsAreNotEmpty DEF AllLists, HandlerLists, RemoveLists
    <3>2. LiveProgress(x, d)'
      BY <1>6, <3>1, Heads DEF LiveProgress, CarefulLists
    <3>3. TreeProgress(x, d)'
      BY <3>1, Heads DEF TreeProgress, CarefulLists
    <3> QED
      BY <1>9, <3>1, <3>2, <3>3 DEF Arrives, Progress
  <2> QED
    BY <1>4, <2>2, <2>3
<1>11. d \in HubDevices => HubValuesOf(d)'
  BY <1>6 DEF IInv, HubValues, HubValuesOf, AnyInfo, AnyConfig, ManagedInfo
<1> QED
  BY <1>2, <1>5, <1>6, <1>7, <1>8, <1>10, <1>11, WriterSteps

LEMMA WriterRegisters ==
  ASSUME IInv, NEW x \in Writers, Register(x)
  PROVE  IInv'
<1>1. SUFFICES ASSUME NEW d, d = job[x].id PROVE IInv'
  OBVIOUS
<1>2. SUFFICES ASSUME NEW j, j = job[x] PROVE IInv'
  OBVIOUS
<1>3. SUFFICES ASSUME NEW rest, rest = Tail(todo[x]) PROVE IInv'
  OBVIOUS
<1>4. TypeOK /\ Busy(x) /\ todo[x] = StartList
  BY WriterAtWork, NextOperation DEF IInv, Register, Does
<1>5. /\ x \in Handlers /\ x # Loop /\ x \in Agents /\ d \in Devices \ HubDevices
      /\ j \in Job /\ j.id = d /\ j.config \in Config
  <2>1. todo[x] \notin RemoveLists /\ todo[x] \in WithConfig /\ todo[x] # AddressList
    BY <1>4, Heads, Different DEF RemoveLists, WithConfig
  <2> QED
    BY <1>1, <1>2, <1>4, <2>1, WriterAtWork, Heads DEF OnHub
<1>6. Advance(x, rest, j) /\ live'[d] = j.config /\ infos' = infos /\ configs' = configs
  <2>1. Left(x, rest) /\ live' = [live EXCEPT ![d] = j.config] /\ infos' = infos /\ configs' = configs
    BY <1>1, <1>2, <1>3, Zenon DEF Register
  <2> QED
    BY <1>2, <1>4, <1>5, <2>1, LeftAdvances DEF TypeOK
<1>7. Touches(d) /\ WorksOn(x, d)
  <2>1. live' = [live EXCEPT ![d] = j.config]
    BY <1>1, <1>2, Zenon DEF Register
  <2> QED
    BY <1>1, <1>4, <1>5, <1>6, <2>1 DEF Touches, WorksOn, TypeOK
<1>8. MayGoOn(x, d, rest, j) /\ WriterGoesOn(x, d, rest)
  <2>1. rest = <<>>
    BY <1>3, <1>4, Tails
  <2>2. <<>> \notin WithInfo \cup WithConfig
    BY ListsAreNotEmpty DEF HandlerLists, AllLists, WithInfo, WithConfig
  <2> QED
    BY <1>5, <2>1, <2>2 DEF MayGoOn, WriterGoesOn
<1>9. todo'[x] = rest /\ torn' = torn /\ (rest # <<>> => job'[x] = j)
  BY <1>4, <1>5, <1>6, Advances
<1>10. ASSUME d \notin mixed, Progress(x, d) PROVE Arrives(x, d)'
  <2>1. /\ infos[d] # None /\ configs[d] = j.config
        /\ d \notin torn => infos[d].caps \in {j.config.profile, NoCaps}
    BY <1>2, <1>4, <1>10 DEF Progress, LiveProgress, TreeProgress
  <2>2. todo'[x] = <<>>
    BY <1>3, <1>4, <1>9, Tails
  <2>3. RunsAsStored(d)' /\ (d \notin torn => Agrees(d)')
    BY <1>5, <1>6, <2>1, DeviceStoreAssumption DEF RunsAsStored, Agrees, Listed
  <2> QED
    BY <1>9, <2>2, <2>3 DEF Arrives
<1> QED
  BY <1>2, <1>5, <1>6, <1>7, <1>8, <1>10, WriterSteps

LEMMA WriterOperates ==
  ASSUME IInv, NEW x \in Writers, Operate(x)
  PROVE  IInv'
<1>1. ~Known(x) /\ ~Check(x)
  <2>1. SUFFICES ASSUME Busy(x), Head(todo[x]) \in {"known", "check"} PROVE FALSE
    BY DEF Known, Check, Does
  <2>2. todo[x] \in AllLists /\ todo[x] \in HandlerLists \cup {AddressList}
    BY <2>1, WriterAtWork DEF Writers
  <2> QED
    BY <2>1, <2>2, Heads DEF HandlerLists, RemoveLists
<1> QED
  BY <1>1, WriterLoads, WriterReadsMembers, WriterRenames, WriterReloads, WriterPutsInfo,
     WriterPutsConfig, WriterRemovesInfo, WriterRemovesConfig, WriterDeregisters,
     WriterRegisters
  DEF Operate

-----------------------------------------------------------------------------
(* The operations of a sync.                                               *)

LEMMA SyncAtWork ==
  ASSUME IInv, NEW x \in Syncs, Busy(x)
  PROVE  /\ TypeOK /\ x \in Agents /\ todo[x] \in SyncLists /\ todo[x] \in AllLists
         /\ job[x] \in Job /\ job[x].id \in Devices
         /\ job[x].info = AnyInfo /\ job[x].config = AnyConfig
         /\ HubValuesOf(job[x].id)
<1>1. Programs /\ HubValues /\ x \in Agents
  BY DEF IInv, Agents
<1>2. todo[x] \in SyncLists /\ job[x] \in Job /\ job[x].id \in HubDevices
  BY <1>1 DEF Programs, Busy, Fits
<1> QED
  BY <1>1, <1>2 DEF IInv, Programs, HubValues, HubValuesOf, Devices, AllLists

LEMMA SyncGoesOn ==
  ASSUME IInv, NEW x \in Syncs, Busy(x), NEW d, d = job[x].id, NEW rest
  PROVE  MayGoOn(x, d, rest, job[x]) /\ WorksOn(x, d)
  BY SyncAtWork, HubEntries DEF MayGoOn, WorksOn

LEMMA StartingStays ==
  ASSUME TypeOK, NEW x \in Agents, NEW d \in Devices, NEW rest, NEW j, Advance(x, rest, j),
         todo[x] # StartList, live'[d] = live[d], Starting(d)
  PROVE  Starting(d)'
<1>1. \A y \in Agents \ {x} : todo'[y] = todo[y] /\ job'[y] = job[y]
  BY Advances
<1> QED
  BY <1>1 DEF Starting, Agents

(* A sync that writes nothing.                                             *)
LEMMA SyncReads ==
  ASSUME IInv, NEW x \in Syncs, Busy(x), NEW rest, LeftWith(x, rest, job[x]),
         todo[x] # StartList, rest \in SyncLists \cup {<<>>}, rest # StartList,
         rest \in {CheckKnownList, NewConfigList} =>
           todo[x] \in {CheckKnownList, NewConfigList} \/ infos[job[x].id] # None
  PROVE  IInv'
<1>1. SUFFICES ASSUME NEW d, d = job[x].id PROVE IInv'
  OBVIOUS
<1>2. TypeOK /\ x \in Agents /\ d \in Devices
  BY <1>1, SyncAtWork
<1>3. /\ Advance(x, rest, job[x]) /\ Touches(d)
      /\ infos' = infos /\ configs' = configs /\ live' = live
  BY <1>2, LeftWithAdvances
<1>4. MayGoOn(x, d, rest, job[x]) /\ WorksOn(x, d)
  BY <1>1, SyncGoesOn
<1>5. todo'[x] = rest /\ torn' = torn
  BY <1>2, <1>3, Advances
<1>6. Fills(d)
  BY <1>3 DEF Fills
<1>7. ASSUME SyncProgress(x, d), Settled(d) PROVE Settled(d)' /\ SyncProgress(x, d)'
  <2>1. Starting(d) => Starting(d)'
    BY <1>2, <1>3, StartingStays
  <2>2. Listed(d)' = Listed(d) /\ RunsAsStored(d)' = RunsAsStored(d)
    BY <1>3 DEF Listed, RunsAsStored
  <2>3. Settled(d)'
    BY <1>3, <1>5, <1>7, <2>1, <2>2 DEF Settled
  <2> QED
    BY <1>1, <1>3, <1>5, <1>7, <2>3 DEF SyncProgress
<1> QED
  BY <1>2, <1>3, <1>4, <1>6, <1>7, SyncSteps

LEMMA SyncKnows ==
  ASSUME IInv, NEW x \in Syncs, Known(x)
  PROVE  IInv'
<1>1. SUFFICES ASSUME NEW listed,
                      listed = (IF Head(Tail(todo[x])) = "check" THEN <<"check">> ELSE <<>>) \o Tail(New)
               PROVE  IInv'
  OBVIOUS
<1>2. SUFFICES ASSUME NEW rest, rest = IF infos[job[x].id] = None THEN Tail(todo[x]) ELSE listed
               PROVE  IInv'
  OBVIOUS
<1>3. Busy(x) /\ todo[x] \in {BondList, KnownNewList}
  BY SyncAtWork, NextOperation DEF Known, Does
<1>4. LeftWith(x, rest, job[x])
  BY <1>1, <1>2, Zenon DEF Known
<1>5. CASE todo[x] = BondList
  <2>1. Tail(todo[x]) = CheckNewList /\ Head(CheckNewList) = "check"
    BY <1>5, Tails, Heads
  <2>2. listed = CheckKnownList
    BY <1>1, <2>1, Joins, Tails
  <2>3. /\ todo[x] # StartList /\ rest \in SyncLists /\ rest # StartList
        /\ rest \in {CheckKnownList, NewConfigList} => infos[job[x].id] # None
    BY <1>2, <1>5, <2>1, <2>2, Heads, Different DEF SyncLists
  <2> QED
    BY <1>3, <1>4, <2>3, SyncReads
<1>6. CASE todo[x] = KnownNewList
  <2>1. Tail(todo[x]) = New /\ Head(New) = "putInfo"
    BY <1>6, Tails, Heads
  <2>2. listed = NewConfigList
    BY <1>1, <2>1, Joins, Tails
  <2>3. /\ todo[x] # StartList /\ rest \in SyncLists /\ rest # StartList
        /\ rest \in {CheckKnownList, NewConfigList} => infos[job[x].id] # None
    BY <1>2, <1>6, <2>1, <2>2, Heads, Different DEF SyncLists
  <2> QED
    BY <1>3, <1>4, <2>3, SyncReads
<1> QED
  BY <1>3, <1>5, <1>6

LEMMA SyncChecks ==
  ASSUME IInv, NEW x \in Syncs, Check(x)
  PROVE  IInv'
<1>1. SUFFICES ASSUME NEW rest, rest = IF live[job[x].id] = None THEN Tail(todo[x]) ELSE <<>>
               PROVE  IInv'
  OBVIOUS
<1>2. Busy(x) /\ todo[x] \in {MysaList, CheckNewList, CheckKnownList}
  BY SyncAtWork, NextOperation DEF Check, Does
<1>3. LeftWith(x, rest, job[x])
  BY <1>1, Zenon DEF Check
<1>4. <<>> # StartList /\ <<>> # CheckKnownList /\ <<>> # NewConfigList
  BY ListsAreNotEmpty DEF AllLists, SyncLists
<1>5. rest \in {KnownNewList, New, NewConfigList, <<>>} /\ todo[x] # StartList
  BY <1>1, <1>2, Tails, Heads
<1>6. rest \in SyncLists \cup {<<>>} /\ rest # StartList
  BY <1>4, <1>5, Heads DEF SyncLists
<1>7. rest \in {CheckKnownList, NewConfigList} => todo[x] = CheckKnownList
  BY <1>1, <1>2, <1>4, Tails, Heads, Different
<1> QED
  BY <1>2, <1>3, <1>5, <1>6, <1>7, SyncReads

LEMMA SyncPutsInfo ==
  ASSUME IInv, NEW x \in Syncs, PutInfo(x)
  PROVE  IInv'
<1>1. SUFFICES ASSUME NEW d, d = job[x].id PROVE IInv'
  OBVIOUS
<1>2. /\ TypeOK /\ Busy(x) /\ x \in Agents /\ d \in Devices /\ HubValuesOf(d)
      /\ todo[x] \in SyncLists /\ todo[x] = New
      /\ job[x].info = AnyInfo /\ job[x].config = AnyConfig
  <2>1. Busy(x) /\ Head(todo[x]) = Head(New)
    BY Heads DEF PutInfo, Does
  <2>2. todo[x] \in SyncLists
    BY <2>1, SyncAtWork
  <2>3. todo[x] = New
    BY <2>1, <2>2, Heads DEF SyncLists
  <2> QED
    BY <1>1, <2>1, <2>2, <2>3, SyncAtWork
<1>3. Advance(x, NewConfigList, job[x]) /\ infos' = [infos EXCEPT ![d] = AnyInfo] /\ configs' = configs /\ live' = live
  <2>1. Left(x, NewConfigList) /\ infos' = [infos EXCEPT ![d] = AnyInfo] /\ configs' = configs /\ live' = live
    BY <1>1, <1>2, Tails DEF PutInfo
  <2> QED
    BY <1>2, <2>1, LeftAdvances
<1>4. infos'[d] = AnyInfo /\ Touches(d) /\ Fills(d)
  BY <1>2, <1>3, HubEntries DEF Touches, Fills, TypeOK
<1>5. MayGoOn(x, d, NewConfigList, job[x]) /\ WorksOn(x, d)
  BY <1>1, <1>2, SyncGoesOn
<1>6. todo'[x] = NewConfigList /\ torn' = torn
  BY <1>2, <1>3, Advances
<1>7. ASSUME SyncProgress(x, d), Settled(d) PROVE Settled(d)' /\ SyncProgress(x, d)'
  <2>1. AnyInfo.caps = AnyConfig.profile /\ AnyInfo # None /\ AnyConfig # None
    BY HubEntries DEF AnyInfo, Info
  <2>2. RunsAsStored(d)'
    BY <1>3, <1>4, <1>7, <2>1 DEF Settled, RunsAsStored
  <2>3. Listed(d)'
    BY <1>2, <1>3, <1>4, <2>1 DEF Listed, HubValuesOf
  <2>4. Starting(d) => Starting(d)'
    BY <1>2, <1>3, StartingStays, Heads
  <2>5. NewConfigList # StartList
    BY Heads
  <2>6. SyncProgress(x, d)'
    BY <1>4, <1>6, <2>1, <2>5 DEF SyncProgress
  <2> QED
    BY <1>3, <1>6, <1>7, <2>2, <2>3, <2>4, <2>6 DEF Settled
<1> QED
  BY <1>2, <1>3, <1>4, <1>5, <1>7, SyncSteps DEF SyncLists

LEMMA SyncPutsConfig ==
  ASSUME IInv, NEW x \in Syncs, PutConfig(x)
  PROVE  IInv'
<1>1. SUFFICES ASSUME NEW d, d = job[x].id PROVE IInv'
  OBVIOUS
<1>2. /\ TypeOK /\ Busy(x) /\ x \in Agents /\ d \in Devices /\ HubValuesOf(d)
      /\ todo[x] \in SyncLists /\ todo[x] = NewConfigList
      /\ job[x].info = AnyInfo /\ job[x].config = AnyConfig
  <2>1. Busy(x) /\ Head(todo[x]) = Head(NewConfigList)
    BY Heads DEF PutConfig, Does
  <2>2. todo[x] \in SyncLists
    BY <2>1, SyncAtWork
  <2>3. todo[x] = NewConfigList
    BY <2>1, <2>2, Heads DEF SyncLists
  <2> QED
    BY <1>1, <2>1, <2>2, <2>3, SyncAtWork
<1>3. Advance(x, StartList, job[x]) /\ configs' = [configs EXCEPT ![d] = AnyConfig] /\ infos' = infos /\ live' = live
  <2>1. Left(x, StartList) /\ configs' = [configs EXCEPT ![d] = AnyConfig] /\ infos' = infos /\ live' = live
    BY <1>1, <1>2, Tails DEF PutConfig
  <2> QED
    BY <1>2, <2>1, LeftAdvances
<1>4. configs'[d] = AnyConfig /\ Touches(d) /\ Fills(d)
  BY <1>2, <1>3, HubEntries DEF Touches, Fills, TypeOK
<1>5. MayGoOn(x, d, StartList, job[x]) /\ WorksOn(x, d)
  BY <1>1, <1>2, SyncGoesOn
<1>6. todo'[x] = StartList /\ torn' = torn
  BY <1>2, <1>3, Advances
<1>7. ASSUME SyncProgress(x, d), Settled(d) PROVE Settled(d)' /\ SyncProgress(x, d)'
  <2>1. AnyInfo.caps = AnyConfig.profile /\ AnyInfo # None /\ AnyConfig # None
    BY HubEntries DEF AnyInfo, Info
  <2>2. infos[d] # None
    BY <1>2, <1>7 DEF SyncProgress
  <2>3. RunsAsStored(d)'
    BY <1>2, <1>3, <1>4, <2>1, <2>2 DEF RunsAsStored, HubValuesOf
  <2>4. Listed(d)'
    BY <1>2, <1>3, <1>4, <2>1, <2>2 DEF Listed, HubValuesOf, ManagedInfo
  <2>5. job'[x] = job[x]
    BY <1>2, <1>3, Advances, ListsAreNotEmpty DEF AllLists, SyncLists
  <2>6. Starting(d)'
    BY <1>1, <1>6, <2>5 DEF Starting
  <2>7. SyncProgress(x, d)'
    BY <1>3, <1>4, <2>1, <2>2 DEF SyncProgress
  <2> QED
    BY <2>3, <2>4, <2>6, <2>7 DEF Settled
<1> QED
  BY <1>2, <1>3, <1>4, <1>5, <1>7, SyncSteps DEF SyncLists

LEMMA SyncRegisters ==
  ASSUME IInv, NEW x \in Syncs, Register(x)
  PROVE  IInv'
<1>1. SUFFICES ASSUME NEW d, d = job[x].id PROVE IInv'
  OBVIOUS
<1>2. /\ TypeOK /\ Busy(x) /\ x \in Agents /\ d \in Devices /\ HubValuesOf(d)
      /\ todo[x] \in SyncLists /\ todo[x] = StartList
      /\ job[x].info = AnyInfo /\ job[x].config = AnyConfig
  <2>1. Busy(x) /\ Head(todo[x]) = Head(StartList)
    BY Heads DEF Register, Does
  <2>2. todo[x] \in SyncLists
    BY <2>1, SyncAtWork
  <2>3. todo[x] = StartList
    BY <2>1, <2>2, Heads DEF SyncLists
  <2> QED
    BY <1>1, <2>1, <2>2, <2>3, SyncAtWork
<1>3. Advance(x, <<>>, job[x]) /\ live' = [live EXCEPT ![d] = AnyConfig] /\ infos' = infos /\ configs' = configs
  <2>1. Left(x, <<>>) /\ live' = [live EXCEPT ![d] = AnyConfig] /\ infos' = infos /\ configs' = configs
    BY <1>1, <1>2, Tails DEF Register
  <2> QED
    BY <1>2, <2>1, LeftAdvances
<1>4. live'[d] = AnyConfig /\ Touches(d) /\ Fills(d)
  BY <1>2, <1>3, HubEntries DEF Touches, Fills, TypeOK
<1>5. MayGoOn(x, d, <<>>, job[x]) /\ WorksOn(x, d)
  BY <1>1, <1>2, SyncGoesOn
<1>6. todo'[x] = <<>> /\ torn' = torn
  BY <1>2, <1>3, Advances
<1>7. ASSUME SyncProgress(x, d), Settled(d) PROVE Settled(d)'
  <2>1. AnyInfo.caps = AnyConfig.profile /\ AnyInfo # None /\ AnyConfig # None
    BY HubEntries DEF AnyInfo, Info
  <2>2. infos[d] # None /\ configs[d] # None
    BY <1>2, <1>7 DEF SyncProgress
  <2>3. RunsAsStored(d)'
    BY <1>2, <1>3, <1>4, <2>1, <2>2 DEF RunsAsStored, HubValuesOf
  <2>4. Listed(d)'
    BY <1>2, <1>3, <2>1, <2>2 DEF Listed, HubValuesOf, ManagedInfo
  <2>5. Starting(d)'
    BY <1>4, <2>1 DEF Starting
  <2> QED
    BY <2>3, <2>4, <2>5 DEF Settled
<1> QED
  BY <1>2, <1>3, <1>4, <1>5, <1>7, SyncSteps DEF SyncLists

LEMMA SyncOperates ==
  ASSUME IInv, NEW x \in Syncs, Operate(x)
  PROVE  IInv'
<1>1. ~Load(x) /\ ~Members(x) /\ ~Rename(x) /\ ~Reload(x) /\ ~RemoveInfo(x) /\ ~RemoveConfig(x)
      /\ ~Deregister(x)
  <2>1. SUFFICES ASSUME Busy(x),
                        Head(todo[x]) \in {"load", "members", "rename", "reload", "removeInfo",
                                           "removeConfig", "deregister"}
                 PROVE  FALSE
    BY DEF Load, Members, Rename, Reload, RemoveInfo, RemoveConfig, Deregister, Does
  <2>2. todo[x] \in SyncLists
    BY <2>1, SyncAtWork
  <2> QED
    BY <2>1, <2>2, Heads DEF SyncLists
<1> QED
  BY <1>1, SyncKnows, SyncChecks, SyncPutsInfo, SyncPutsConfig, SyncRegisters DEF Operate

-----------------------------------------------------------------------------
(* What an agent takes up.                                                 *)

(* A request, a sync or the loop begins on device d.                       *)
BeginsOn(x, d, info, config, program) ==
  /\ Begin(x, d, info, config, program)
  /\ info \in Info \cup {None} /\ config \in Config \cup {None}
  /\ requests' \in 0..MaxRequests /\ due' \subseteq Mysas

LEMMA Begins ==
  ASSUME TypeOK, NEW x \in Agents, NEW d \in Devices, NEW info, NEW config, NEW program,
         BeginsOn(x, d, info, config, program)
  PROVE  /\ infos' = infos /\ configs' = configs /\ live' = live
         /\ hubs' = hubs /\ syncing' = syncing /\ cloud' = cloud /\ crashes' = crashes
         /\ torn' = torn /\ ~Busy(x)
         /\ todo'[x] = program /\ job'[x] \in Job /\ job'[x].id = d
         /\ job'[x].info = info /\ job'[x].config = config
         /\ \A y \in Agents \ {x} : todo'[y] = todo[y] /\ job'[y] = job[y]
         /\ job' \in [Agents -> Job \cup {NoJob}]
         /\ mixed' \in {mixed, mixed \cup {d}}
         /\ d \notin mixed' =>
              \A b \in Agents : WorksOn(b, d) => x \in Syncs /\ b \in Syncs
<1>1. [id |-> d, info |-> info, config |-> config, cloud |-> cloud] \in Job
  BY DEF TypeOK, Job, BeginsOn
<1>2. /\ infos' = infos /\ configs' = configs /\ live' = live
      /\ hubs' = hubs /\ syncing' = syncing /\ cloud' = cloud /\ crashes' = crashes
      /\ torn' = torn /\ ~Busy(x)
  BY DEF BeginsOn, Begin, store
<1>3. /\ todo' = [todo EXCEPT ![x] = program]
      /\ job' = [job EXCEPT ![x] = [id |-> d, info |-> info, config |-> config, cloud |-> cloud]]
      /\ mixed' = IF \E b \in Agents : Meets(x, b, d) THEN mixed \cup {d} ELSE mixed
  BY DEF BeginsOn, Begin
<1>4. mixed' \in {mixed, mixed \cup {d}}
  BY <1>3
<1>5. d \notin mixed' => ~(\E b \in Agents : Meets(x, b, d))
  BY <1>3
<1>6. d \notin mixed' => \A b \in Agents : WorksOn(b, d) => x \in Syncs /\ b \in Syncs
  BY <1>5 DEF Meets, WorksOn
<1> QED
  BY <1>1, <1>2, <1>3, <1>4, <1>6 DEF TypeOK

LEMMA BeginKeepsTypes ==
  ASSUME TypeOK, NEW x \in Agents, NEW d \in Devices, NEW info, NEW config,
         NEW program \in AllLists, BeginsOn(x, d, info, config, program)
  PROVE  TypeOK'
<1>1. todo' \in [Agents -> Seq(Ops)]
  BY ListsAreSeqs DEF TypeOK, BeginsOn, Begin
<1>2. mixed' \subseteq Devices /\ requests' \in 0..MaxRequests /\ due' \subseteq Mysas
  <2>1. mixed' \in {mixed, mixed \cup {d}} /\ mixed \subseteq Devices
    BY Begins DEF TypeOK
  <2> QED
    BY <2>1 DEF BeginsOn
<1> QED
  BY <1>1, <1>2, Begins DEF TypeOK

LEMMA BeginElsewhere ==
  ASSUME TypeOK, NEW x \in Agents, NEW d \in Devices, NEW info, NEW config, NEW program,
         BeginsOn(x, d, info, config, program), NEW e \in Devices \ {d}, Tended(e)
  PROVE  Tended(e)'
<1>1. ~WorksOn(x, e) /\ ~WorksOn(x, e)'
  BY Begins DEF WorksOn
<1> QED
  BY <1>1, Begins, DeviceStays

(* The work of the others goes on.                                         *)
LEMMA BeginFits ==
  ASSUME TypeOK, Programs, NEW x \in Agents, NEW d \in Devices, NEW info, NEW config,
         NEW program, BeginsOn(x, d, info, config, program),
         program \in WithInfo => info # None, program \in WithConfig => config # None
  PROVE  /\ \A y \in Agents : Fits(y)'
         /\ \A y \in Agents \ {x} : Busy(y)' = Busy(y)
         /\ \A y \in Agents \ {x}, e \in Devices : WorksOn(y, e)' = WorksOn(y, e)
<1>1. \A y \in Agents \ {x} : todo'[y] = todo[y] /\ job'[y] = job[y]
  BY Begins
<1>2. todo'[x] = program /\ job'[x] \in Job /\ job'[x].info = info /\ job'[x].config = config
  BY Begins
<1>3. \A y \in Agents \ {x} : Fits(y)'
  BY <1>1 DEF Programs, Fits, Busy
<1>4. Fits(x)'
  BY <1>2 DEF Fits
<1> QED
  BY <1>1, <1>3, <1>4 DEF Busy, WorksOn

LEMMA WriterBegins ==
  ASSUME IInv, NEW x \in Writers, NEW d \in Devices, NEW info, NEW config,
         NEW program \in AllLists, BeginsOn(x, d, info, config, program),
         x \in Handlers => program \in HandlerLists,
         x = Loop => program = AddressList /\ d \in Tuyas,
         d \in HubDevices => program \in RemoveLists \/ (program = RenameList /\ info = ManagedInfo),
         program \in WithInfo => info # None, program \in WithConfig => config # None,
         d \notin mixed' /\ RunsAsStored(d) /\ (d \notin torn => Agrees(d)) => Progress(x, d)'
  PROVE  IInv'
<1>1. /\ TypeOK /\ Programs /\ HubValues /\ x \in Agents /\ x \notin Syncs
      /\ x = Loop => x \notin Handlers
  BY DeviceStoreAssumption DEF IInv, Writers, Agents
<1>2. /\ infos' = infos /\ configs' = configs /\ live' = live /\ torn' = torn /\ ~Busy(x)
      /\ todo'[x] = program /\ job'[x] \in Job /\ job'[x].id = d
      /\ job'[x].info = info
      /\ \A y \in Agents \ {x} : todo'[y] = todo[y] /\ job'[y] = job[y]
      /\ mixed' \in {mixed, mixed \cup {d}}
      /\ d \notin mixed' => \A b \in Agents : ~WorksOn(b, d)
  BY <1>1, Begins
<1>3. TypeOK'
  BY <1>1, BeginKeepsTypes
<1>4. HubValues'
  BY <1>1, <1>2 DEF HubValues, AnyInfo, AnyConfig, ManagedInfo
<1>5. Programs'
  <2>1. \A y \in Agents : Fits(y)'
    BY <1>1, BeginFits
  <2>2. \A y \in Agents \ {x} : Busy(y)' = Busy(y)
    BY <1>1, BeginFits
  <2>3. ASSUME NEW h \in Handlers
        PROVE  /\ todo'[h] \in HandlerLists \cup {<<>>}
               /\ Busy(h)' /\ job'[h].id \in HubDevices => OnHub(todo'[h], job'[h])
    <3>1. CASE h = x
      BY <1>2, <3>1 DEF OnHub
    <3>2. CASE h # x
      BY <1>1, <1>2, <2>2, <3>2 DEF Programs, Agents
    <3> QED
      BY <3>1, <3>2
  <2>4. todo'[Loop] \in {AddressList, <<>>} /\ (Busy(Loop)' => job'[Loop].id \in Tuyas)
    <3>1. CASE Loop = x
      BY <1>2, <3>1
    <3>2. CASE Loop # x
      BY <1>1, <1>2, <2>2, <3>2 DEF Programs, Agents
    <3> QED
      BY <3>1, <3>2
  <2>5. ASSUME NEW s \in Syncs
        PROVE  /\ todo'[s] \in SyncLists \cup {<<>>}
               /\ Busy(s)' => /\ job'[s].id \in HubDevices /\ job'[s].info = AnyInfo
                              /\ job'[s].config = AnyConfig
    <3>1. s # x /\ s \in Agents
      BY <1>1 DEF Agents
    <3> QED
      BY <1>1, <1>2, <2>2, <3>1 DEF Programs
  <2> QED
    BY <2>1, <2>3, <2>4, <2>5, Zenon DEF Programs
<1>6. ASSUME NEW e \in Devices \ mixed', e # d PROVE Tended(e)'
  BY <1>1, <1>2, <1>6, BeginElsewhere DEF IInv
<1>7. ASSUME d \notin mixed' PROVE Tended(d)'
  <2>1. Tended(d) /\ \A b \in Agents : ~WorksOn(b, d)
    BY <1>2, <1>7 DEF IInv
  <2>2. Settled(d) /\ ~(\E s \in Syncs : todo[s] = StartList /\ job[s].id = d)
    BY <2>1, ListsAreNotEmpty
    DEF Tended, Writers, Agents, WorksOn, Busy, AllLists, HandlerLists
  <2>3. RunsAsStored(d) /\ (d \notin torn => Agrees(d))
    BY <2>2 DEF Settled, Starting, Agrees
  <2>4. Progress(x, d)'
    BY <1>7, <2>3
  <2>5. \A y \in Agents \ {x} : ~WorksOn(y, d)'
    BY <1>1, <2>1, BeginFits
  <2>6. WorksOn(x, d)'
    BY <1>2, ListsAreNotEmpty DEF WorksOn, Busy
  <2>7. Apart(d)'
    BY <2>5 DEF Apart
  <2>8. \A y \in Writers : WorksOn(y, d)' => Progress(y, d)'
    BY <2>4, <2>5 DEF Writers, Agents
  <2>9. \A s \in Syncs : ~WorksOn(s, d)'
    BY <1>1, <2>5 DEF Agents
  <2> QED
    BY <2>6, <2>7, <2>8, <2>9 DEF Tended
<1> QED
  BY <1>3, <1>4, <1>5, <1>6, <1>7 DEF IInv

LEMMA SyncBegins ==
  ASSUME IInv, NEW x \in Syncs, NEW d \in HubDevices, NEW program \in {BondList, MysaList},
         BeginsOn(x, d, AnyInfo, AnyConfig, program)
  PROVE  IInv'
<1>1. /\ TypeOK /\ Programs /\ HubValues /\ x \in Agents /\ x \notin Writers /\ d \in Devices
      /\ program \in AllLists
  BY DeviceStoreAssumption DEF IInv, Writers, Agents, Devices, AllLists, SyncLists
<1>2. /\ infos' = infos /\ configs' = configs /\ live' = live /\ torn' = torn /\ ~Busy(x)
      /\ todo'[x] = program /\ job'[x] \in Job /\ job'[x].id = d
      /\ job'[x].info = AnyInfo /\ job'[x].config = AnyConfig
      /\ \A y \in Agents \ {x} : todo'[y] = todo[y] /\ job'[y] = job[y]
      /\ mixed' \in {mixed, mixed \cup {d}}
      /\ d \notin mixed' => \A b \in Agents : WorksOn(b, d) => b \in Syncs
  BY <1>1, Begins
<1>3. TypeOK'
  BY <1>1, BeginKeepsTypes
<1>4. HubValues'
  BY <1>1, <1>2 DEF HubValues, AnyInfo, AnyConfig, ManagedInfo
<1>5. AnyInfo # None /\ AnyConfig # None
  BY HubEntries
<1>6. Programs'
  <2>1. \A y \in Agents : Fits(y)'
    BY <1>1, <1>5, BeginFits
  <2>2. \A y \in Agents \ {x} : Busy(y)' = Busy(y)
    BY <1>1, <1>5, BeginFits
  <2>3. ASSUME NEW h \in Handlers
        PROVE  /\ todo'[h] \in HandlerLists \cup {<<>>}
               /\ Busy(h)' /\ job'[h].id \in HubDevices => OnHub(todo'[h], job'[h])
    <3>1. h # x /\ h \in Agents
      BY <1>1 DEF Writers, Agents
    <3> QED
      BY <1>1, <1>2, <2>2, <3>1 DEF Programs
  <2>4. todo'[Loop] \in {AddressList, <<>>} /\ (Busy(Loop)' => job'[Loop].id \in Tuyas)
    <3>1. Loop # x /\ Loop \in Agents
      BY <1>1 DEF Writers, Agents
    <3> QED
      BY <1>1, <1>2, <2>2, <3>1 DEF Programs
  <2>5. ASSUME NEW s \in Syncs
        PROVE  /\ todo'[s] \in SyncLists \cup {<<>>}
               /\ Busy(s)' => /\ job'[s].id \in HubDevices /\ job'[s].info = AnyInfo
                              /\ job'[s].config = AnyConfig
    <3>1. CASE s = x
      BY <1>2, <3>1 DEF SyncLists
    <3>2. CASE s # x
      BY <1>1, <1>2, <2>2, <3>2 DEF Programs, Agents
    <3> QED
      BY <3>1, <3>2
  <2> QED
    BY <2>1, <2>3, <2>4, <2>5, Zenon DEF Programs
<1>7. ASSUME NEW e \in Devices \ mixed', e # d PROVE Tended(e)'
  BY <1>1, <1>2, <1>7, BeginElsewhere DEF IInv
<1>8. ASSUME d \notin mixed' PROVE Tended(d)'
  <2>1. Tended(d) /\ \A b \in Agents : WorksOn(b, d) => b \in Syncs
    BY <1>1, <1>2, <1>8 DEF IInv
  <2>2. \A y \in Agents \ {x} : WorksOn(y, d)' = WorksOn(y, d)
    BY <1>1, <1>5, BeginFits
  <2>3. \A y \in Writers : ~WorksOn(y, d) /\ ~WorksOn(y, d)'
    BY <1>1, <2>1, <2>2, DeviceStoreAssumption DEF Writers, Agents
  <2>4. Apart(d)'
    BY <2>1, <2>2 DEF Apart
  <2>5. ASSUME NEW s \in Syncs, WorksOn(s, d)' PROVE SyncProgress(s, d)'
    <3>1. CASE s = x
      BY <1>2, <3>1, Heads, Different DEF SyncProgress
    <3>2. CASE s # x
      BY <1>2, <2>1, <2>2, <2>5, <3>2 DEF Tended, SyncProgress, Agents
    <3> QED
      BY <3>1, <3>2
  <2>6. Settled(d)'
    <3>1. Settled(d)
      BY <2>1, <2>3 DEF Tended
    <3>2. x \in Syncs /\ todo[x] # StartList
      BY <1>2, ListsAreNotEmpty DEF Busy, AllLists, HandlerLists
    <3>3. Starting(d) => Starting(d)'
      BY <1>2, <3>2 DEF Starting, Agents
    <3>4. Listed(d)' = Listed(d) /\ RunsAsStored(d)' = RunsAsStored(d)
      BY <1>2 DEF Listed, RunsAsStored
    <3> QED
      BY <1>2, <3>1, <3>3, <3>4 DEF Settled
  <2> QED
    BY <2>3, <2>4, <2>5, <2>6 DEF Tended
<1> QED
  BY <1>3, <1>4, <1>6, <1>7, <1>8 DEF IInv

LEMMA RequestKeepsTypes ==
  ASSUME TypeOK, NEW h, Request(h)
  PROVE  requests' \in 0..MaxRequests /\ due' \subseteq Mysas
  BY DeviceStoreAssumption DEF TypeOK, Request

(* What a request stores has the type of an entry.                         *)
LEMMA Entries ==
  ASSUME TypeOK
  PROVE  /\ \A p \in Profiles \cup {NoCaps} :
              /\ [name |-> cloud.name, caps |-> p] \in Info
              /\ [name |-> 0, caps |-> p] \in Info
         /\ \A p \in Profiles, i \in Ips : [key |-> cloud.key, profile |-> p, ip |-> i] \in Config
         /\ \A p \in Profiles, c \in Config :
              /\ [c EXCEPT !.profile = p] \in Config /\ [c EXCEPT !.profile = p].profile = p
         /\ \A i \in Ips, c \in Config :
              /\ [c EXCEPT !.ip = i] \in Config
              /\ [c EXCEPT !.ip = i].key = c.key /\ [c EXCEPT !.ip = i].profile = c.profile
         /\ \A p \in Profiles, f \in Info :
              /\ [f EXCEPT !.caps = p] \in Info /\ [f EXCEPT !.caps = p].caps = p
         /\ None \notin Info /\ None \notin Config
<1>1. 0 \in Versions /\ cloud.name \in Versions /\ cloud.key \in Versions
  BY DeviceStoreAssumption DEF TypeOK, Cloud, Versions
<1>2. \A p \in Profiles \cup {NoCaps} :
              /\ [name |-> cloud.name, caps |-> p] \in Info
              /\ [name |-> 0, caps |-> p] \in Info
  BY <1>1 DEF Info
<1>3. \A p \in Profiles, i \in Ips : [key |-> cloud.key, profile |-> p, ip |-> i] \in Config
  BY <1>1 DEF Config
<1>4. \A p \in Profiles, c \in Config :
              /\ [c EXCEPT !.profile = p] \in Config /\ [c EXCEPT !.profile = p].profile = p
  BY DEF Config
<1>5. \A i \in Ips, c \in Config :
              /\ [c EXCEPT !.ip = i] \in Config
              /\ [c EXCEPT !.ip = i].key = c.key /\ [c EXCEPT !.ip = i].profile = c.profile
  BY DEF Config
<1>6. \A p \in Profiles, f \in Info :
              /\ [f EXCEPT !.caps = p] \in Info /\ [f EXCEPT !.caps = p].caps = p
  BY DEF Info
<1> QED
  BY <1>2, <1>3, <1>4, <1>5, <1>6, DeviceStoreAssumption

LEMMA RegistersDevice ==
  ASSUME IInv, NEW h \in Handlers, NEW d \in Devices, NEW p \in Profiles, NEW i \in Ips, RegisterDevice(h, d, p, i)
  PROVE  IInv'
<1>1. SUFFICES ASSUME NEW info, info = [name |-> cloud.name, caps |-> p] PROVE IInv'
  OBVIOUS
<1>2. SUFFICES ASSUME NEW config, config = [key |-> cloud.key, profile |-> p, ip |-> i] PROVE IInv'
  OBVIOUS
<1>3. TypeOK /\ h \in Writers /\ h \in Agents /\ h # Loop
  BY DeviceStoreAssumption DEF IInv, Writers, Agents
<1>4. d \notin HubDevices /\ info \in Info /\ config \in Config /\ info.caps = config.profile
  <2>1. d \notin HubDevices
    BY DeviceStoreAssumption DEF RegisterDevice
  <2> QED
    BY <1>1, <1>2, <1>3, <2>1, Entries, HubEntries DEF RegisterDevice, TypeOK
<1>5. BeginsOn(h, d, info, config, New)
  <2>1. Begin(h, d, info, config, New) /\ Request(h)
    BY <1>1, <1>2, Joins DEF RegisterDevice
  <2> QED
    BY <1>3, <1>4, <2>1, RequestKeepsTypes DEF BeginsOn
<1>6. /\ todo'[h] = New /\ job'[h].info = info /\ job'[h].config = config
      /\ infos' = infos /\ configs' = configs /\ live' = live /\ torn' = torn
  BY <1>3, <1>5, Begins
<1>7. New \in HandlerLists /\ New \in AllLists
  BY DEF HandlerLists, AllLists, RemoveLists
<1>8. (New \in WithInfo => info # None) /\ (New \in WithConfig => config # None)
  BY <1>4, DeviceStoreAssumption
<1>9. ASSUME RunsAsStored(d), d \notin torn => Agrees(d) PROVE Progress(h, d)'
  <2>1. RunsAsStored(d)' /\ (d \notin torn => Agrees(d)')
    BY <1>6, <1>9 DEF RunsAsStored, Agrees, Listed
  <2>2. LiveProgress(h, d)'
    BY <1>6, <2>1, Heads, Different DEF LiveProgress, CarefulLists
  <2>3. d \notin torn => TreeProgress(h, d)'
    BY <1>4, <1>6, <2>1, Heads, Different DEF TreeProgress, CarefulLists
  <2> QED
    BY <1>6, <2>2, <2>3 DEF Progress
<1> QED
  BY <1>3, <1>4, <1>5, <1>7, <1>8, <1>9, WriterBegins

LEMMA PatchesDevice ==
  ASSUME IInv, NEW h \in Handlers, NEW d \in Devices, NEW p \in Profiles, PatchDevice(h, d, p)
  PROVE  IInv'
<1>1. SUFFICES ASSUME NEW info, info = None PROVE IInv'
  OBVIOUS
<1>2. SUFFICES ASSUME NEW config, config = [configs[d] EXCEPT !.profile = p] PROVE IInv'
  OBVIOUS
<1>3. TypeOK /\ h \in Writers /\ h \in Agents /\ h # Loop
  BY DeviceStoreAssumption DEF IInv, Writers, Agents
<1>4. d \notin HubDevices /\ info = None /\ config \in Config
  <2>1. d \notin HubDevices
    BY DeviceStoreAssumption DEF PatchDevice
  <2> QED
    BY <1>1, <1>2, <1>3, <2>1, Entries, HubEntries DEF PatchDevice, TypeOK
<1>5. BeginsOn(h, d, info, config, PatchList)
  <2>1. Begin(h, d, info, config, PatchList) /\ Request(h)
    BY <1>1, <1>2, Joins DEF PatchDevice
  <2> QED
    BY <1>3, <1>4, <2>1, RequestKeepsTypes DEF BeginsOn
<1>6. /\ todo'[h] = PatchList /\ job'[h].info = info /\ job'[h].config = config
      /\ infos' = infos /\ configs' = configs /\ live' = live /\ torn' = torn
  BY <1>3, <1>5, Begins
<1>7. PatchList \in HandlerLists /\ PatchList \in AllLists
  BY DEF HandlerLists, AllLists, RemoveLists
<1>8. (PatchList \in WithInfo => info # None) /\ (PatchList \in WithConfig => config # None)
  BY <1>4, Heads, DeviceStoreAssumption DEF WithInfo
<1>9. ASSUME RunsAsStored(d), d \notin torn => Agrees(d) PROVE Progress(h, d)'
  <2>1. RunsAsStored(d)' /\ (d \notin torn => Agrees(d)')
    BY <1>6, <1>9 DEF RunsAsStored, Agrees, Listed
  <2>2. LiveProgress(h, d)'
    BY <1>6, <2>1, Heads, Different DEF LiveProgress, CarefulLists
  <2>3. d \notin torn => TreeProgress(h, d)'
    BY <1>4, <1>6, <2>1, Heads, Different DEF TreeProgress, CarefulLists
  <2> QED
    BY <1>6, <2>2, <2>3 DEF Progress
<1> QED
  BY <1>3, <1>4, <1>5, <1>7, <1>8, <1>9, WriterBegins

LEMMA Imports ==
  ASSUME IInv, NEW h \in Handlers, NEW d \in Devices, Import(h, d)
  PROVE  IInv'
<1>1. SUFFICES ASSUME NEW info, info = None PROVE IInv'
  OBVIOUS
<1>2. SUFFICES ASSUME NEW config, config = configs[d] PROVE IInv'
  OBVIOUS
<1>3. TypeOK /\ h \in Writers /\ h \in Agents /\ h # Loop
  BY DeviceStoreAssumption DEF IInv, Writers, Agents
<1>4. /\ d \notin HubDevices /\ info = None /\ config \in Config
      /\ configs[d] # None /\ config.profile = configs[d].profile
  <2>1. d \notin HubDevices
    BY DeviceStoreAssumption DEF Import
  <2> QED
    BY <1>1, <1>2, <1>3, <2>1, Entries, HubEntries DEF Import, TypeOK
<1>5. BeginsOn(h, d, info, config, ImportList)
  <2>1. Begin(h, d, info, config, ImportList) /\ Request(h)
    BY <1>1, <1>2, Joins DEF Import, ImportList
  <2> QED
    BY <1>3, <1>4, <2>1, RequestKeepsTypes DEF BeginsOn
<1>6. /\ todo'[h] = ImportList /\ job'[h].info = info /\ job'[h].config = config
      /\ infos' = infos /\ configs' = configs /\ live' = live /\ torn' = torn
  BY <1>3, <1>5, Begins
<1>7. ImportList \in HandlerLists /\ ImportList \in AllLists
  BY DEF HandlerLists, AllLists, RemoveLists
<1>8. (ImportList \in WithInfo => info # None) /\ (ImportList \in WithConfig => config # None)
  BY <1>4, Heads, DeviceStoreAssumption DEF WithInfo
<1>9. ASSUME RunsAsStored(d), d \notin torn => Agrees(d) PROVE Progress(h, d)'
  <2>1. RunsAsStored(d)' /\ (d \notin torn => Agrees(d)')
    BY <1>6, <1>9 DEF RunsAsStored, Agrees, Listed
  <2>2. LiveProgress(h, d)'
    BY <1>6, <2>1, Heads, Different DEF LiveProgress, CarefulLists
  <2>3. d \notin torn => TreeProgress(h, d)'
    BY <1>4, <1>6, <2>1, Heads, Different DEF TreeProgress, CarefulLists
  <2> QED
    BY <1>6, <2>2, <2>3 DEF Progress
<1> QED
  BY <1>3, <1>4, <1>5, <1>7, <1>8, <1>9, WriterBegins

LEMMA Unregisters ==
  ASSUME IInv, NEW h \in Handlers, NEW d \in Devices, Unregister(h, d)
  PROVE  IInv'
<1>1. SUFFICES ASSUME NEW info, info = None PROVE IInv'
  OBVIOUS
<1>2. SUFFICES ASSUME NEW config, config = None PROVE IInv'
  OBVIOUS
<1>3. TypeOK /\ h \in Writers /\ h \in Agents /\ h # Loop
  BY DeviceStoreAssumption DEF IInv, Writers, Agents
<1>4. (d \in HubDevices => UnregisterList \in RemoveLists) /\ info = None /\ config = None
  BY <1>1, <1>2 DEF RemoveLists
<1>5. BeginsOn(h, d, info, config, UnregisterList)
  <2>1. Begin(h, d, info, config, UnregisterList) /\ Request(h)
    BY <1>1, <1>2, Joins DEF Unregister, UnregisterList
  <2> QED
    BY <1>3, <1>4, <2>1, RequestKeepsTypes DEF BeginsOn
<1>6. /\ todo'[h] = UnregisterList /\ job'[h].info = info /\ job'[h].config = config
      /\ infos' = infos /\ configs' = configs /\ live' = live /\ torn' = torn
  BY <1>3, <1>5, Begins
<1>7. UnregisterList \in HandlerLists /\ UnregisterList \in AllLists
  BY DEF HandlerLists, AllLists, RemoveLists
<1>8. (UnregisterList \in WithInfo => info # None) /\ (UnregisterList \in WithConfig => config # None)
  BY Heads, Different DEF WithInfo, WithConfig
<1>9. ASSUME RunsAsStored(d), d \notin torn => Agrees(d) PROVE Progress(h, d)'
  <2>1. RunsAsStored(d)' /\ (d \notin torn => Agrees(d)')
    BY <1>6, <1>9 DEF RunsAsStored, Agrees, Listed
  <2>2. LiveProgress(h, d)'
    BY <1>6, <2>1, Heads, Different DEF LiveProgress, CarefulLists
  <2>3. d \notin torn => TreeProgress(h, d)'
    BY <1>4, <1>6, <2>1, Heads, Different DEF TreeProgress, CarefulLists
  <2> QED
    BY <1>6, <2>2, <2>3 DEF Progress
<1> QED
  BY <1>3, <1>4, <1>5, <1>7, <1>8, <1>9, WriterBegins

(* A managed device's entry, without capabilities, goes with any config;   *)
(* it is put like a new name.                                              *)
LEMMA RegistersManaged ==
  ASSUME IInv, NEW h \in Handlers, NEW d \in Devices, RegisterManaged(h, d)
  PROVE  IInv'
<1>1. SUFFICES ASSUME NEW info, info = ManagedInfo PROVE IInv'
  OBVIOUS
<1>2. SUFFICES ASSUME NEW config, config = None PROVE IInv'
  OBVIOUS
<1>3. TypeOK /\ h \in Writers /\ h \in Agents /\ h # Loop
  BY DeviceStoreAssumption DEF IInv, Writers, Agents
<1>4. info \in Info /\ info.caps = NoCaps /\ config = None
  BY <1>1, <1>2, <1>3, Entries DEF ManagedInfo
<1>5. BeginsOn(h, d, info, config, RenameList)
  <2>1. Begin(h, d, info, config, RenameList) /\ Request(h)
    BY <1>1, <1>2, Joins DEF RegisterManaged, RenameList
  <2> QED
    BY <1>3, <1>4, <2>1, RequestKeepsTypes DEF BeginsOn
<1>6. /\ todo'[h] = RenameList /\ job'[h].info = info /\ job'[h].config = config
      /\ infos' = infos /\ configs' = configs /\ live' = live /\ torn' = torn
  BY <1>3, <1>5, Begins
<1>7. RenameList \in HandlerLists /\ RenameList \in AllLists
  BY DEF HandlerLists, AllLists, RemoveLists
<1>8. (RenameList \in WithInfo => info # None) /\ (RenameList \in WithConfig => config # None)
  BY <1>4, Heads, Different, DeviceStoreAssumption DEF WithConfig
<1>9. ASSUME RunsAsStored(d), d \notin torn => Agrees(d) PROVE Progress(h, d)'
  <2>1. RunsAsStored(d)' /\ (d \notin torn => Agrees(d)')
    BY <1>6, <1>9 DEF RunsAsStored, Agrees, Listed
  <2>2. LiveProgress(h, d)'
    BY <1>6, <2>1, Heads, Different DEF LiveProgress, CarefulLists
  <2>3. d \notin torn => TreeProgress(h, d)'
    BY <1>4, <1>6, <2>1, Heads, Different DEF TreeProgress, CarefulLists
  <2> QED
    BY <1>6, <2>2, <2>3 DEF Progress
<1> QED
  BY <1>1, <1>3, <1>4, <1>5, <1>7, <1>8, <1>9, WriterBegins

LEMMA CreatesGroup ==
  ASSUME IInv, NEW h \in Handlers, NEW d \in Devices, NEW p \in Profiles, CreateGroup(h, d, p)
  PROVE  IInv'
<1>1. SUFFICES ASSUME NEW info, info = [name |-> 0, caps |-> p] PROVE IInv'
  OBVIOUS
<1>2. SUFFICES ASSUME NEW config, config = [AnyConfig EXCEPT !.profile = p] PROVE IInv'
  OBVIOUS
<1>3. TypeOK /\ h \in Writers /\ h \in Agents /\ h # Loop
  BY DeviceStoreAssumption DEF IInv, Writers, Agents
<1>4. d \notin HubDevices /\ info \in Info /\ config \in Config /\ info.caps = config.profile
  <2>1. d \notin HubDevices
    BY DeviceStoreAssumption DEF CreateGroup
  <2> QED
    BY <1>1, <1>2, <1>3, <2>1, Entries, HubEntries DEF CreateGroup, TypeOK
<1>5. BeginsOn(h, d, info, config, New)
  <2>1. Begin(h, d, info, config, New) /\ Request(h)
    BY <1>1, <1>2, Joins DEF CreateGroup
  <2> QED
    BY <1>3, <1>4, <2>1, RequestKeepsTypes DEF BeginsOn
<1>6. /\ todo'[h] = New /\ job'[h].info = info /\ job'[h].config = config
      /\ infos' = infos /\ configs' = configs /\ live' = live /\ torn' = torn
  BY <1>3, <1>5, Begins
<1>7. New \in HandlerLists /\ New \in AllLists
  BY DEF HandlerLists, AllLists, RemoveLists
<1>8. (New \in WithInfo => info # None) /\ (New \in WithConfig => config # None)
  BY <1>4, DeviceStoreAssumption
<1>9. ASSUME RunsAsStored(d), d \notin torn => Agrees(d) PROVE Progress(h, d)'
  <2>1. RunsAsStored(d)' /\ (d \notin torn => Agrees(d)')
    BY <1>6, <1>9 DEF RunsAsStored, Agrees, Listed
  <2>2. LiveProgress(h, d)'
    BY <1>6, <2>1, Heads, Different DEF LiveProgress, CarefulLists
  <2>3. d \notin torn => TreeProgress(h, d)'
    BY <1>4, <1>6, <2>1, Heads, Different DEF TreeProgress, CarefulLists
  <2> QED
    BY <1>6, <2>2, <2>3 DEF Progress
<1> QED
  BY <1>3, <1>4, <1>5, <1>7, <1>8, <1>9, WriterBegins

LEMMA PatchesGroup ==
  ASSUME IInv, NEW h \in Handlers, NEW d \in Devices, NEW p \in Profiles, PatchGroup(h, d, p)
  PROVE  IInv'
<1>1. SUFFICES ASSUME NEW info, info = [infos[d] EXCEPT !.caps = p] PROVE IInv'
  OBVIOUS
<1>2. SUFFICES ASSUME NEW config, config = [AnyConfig EXCEPT !.profile = p] PROVE IInv'
  OBVIOUS
<1>3. TypeOK /\ h \in Writers /\ h \in Agents /\ h # Loop
  BY DeviceStoreAssumption DEF IInv, Writers, Agents
<1>4. d \notin HubDevices /\ info \in Info /\ config \in Config /\ info.caps = config.profile
  <2>1. d \notin HubDevices
    BY DeviceStoreAssumption DEF PatchGroup
  <2> QED
    BY <1>1, <1>2, <1>3, <2>1, Entries, HubEntries DEF PatchGroup, TypeOK
<1>5. BeginsOn(h, d, info, config, Replace)
  <2>1. Begin(h, d, info, config, Replace) /\ Request(h)
    BY <1>1, <1>2, Joins DEF PatchGroup
  <2> QED
    BY <1>3, <1>4, <2>1, RequestKeepsTypes DEF BeginsOn
<1>6. /\ todo'[h] = Replace /\ job'[h].info = info /\ job'[h].config = config
      /\ infos' = infos /\ configs' = configs /\ live' = live /\ torn' = torn
  BY <1>3, <1>5, Begins
<1>7. Replace \in HandlerLists /\ Replace \in AllLists
  BY DEF HandlerLists, AllLists, RemoveLists
<1>8. (Replace \in WithInfo => info # None) /\ (Replace \in WithConfig => config # None)
  BY <1>4, DeviceStoreAssumption
<1>9. ASSUME RunsAsStored(d), d \notin torn => Agrees(d) PROVE Progress(h, d)'
  <2>1. RunsAsStored(d)' /\ (d \notin torn => Agrees(d)')
    BY <1>6, <1>9 DEF RunsAsStored, Agrees, Listed
  <2>2. LiveProgress(h, d)'
    BY <1>6, <2>1, Heads, Different DEF LiveProgress, CarefulLists
  <2>3. d \notin torn => TreeProgress(h, d)'
    BY <1>4, <1>6, <2>1, Heads, Different DEF TreeProgress, CarefulLists
  <2> QED
    BY <1>6, <2>2, <2>3 DEF Progress
<1> QED
  BY <1>3, <1>4, <1>5, <1>7, <1>8, <1>9, WriterBegins

LEMMA RenamesGroup ==
  ASSUME IInv, NEW h \in Handlers, NEW d \in Devices, RenameGroup(h, d)
  PROVE  IInv'
<1>1. SUFFICES ASSUME NEW info, info = infos[d] PROVE IInv'
  OBVIOUS
<1>2. SUFFICES ASSUME NEW config, config = None PROVE IInv'
  OBVIOUS
<1>3. TypeOK /\ h \in Writers /\ h \in Agents /\ h # Loop
  BY DeviceStoreAssumption DEF IInv, Writers, Agents
<1>4. d \notin HubDevices /\ info \in Info /\ config = None /\ info = infos[d]
  <2>1. d \notin HubDevices
    BY DeviceStoreAssumption DEF RenameGroup
  <2> QED
    BY <1>1, <1>2, <1>3, <2>1, Entries, HubEntries DEF RenameGroup, TypeOK
<1>5. BeginsOn(h, d, info, config, MembersList)
  <2>1. Begin(h, d, info, config, MembersList) /\ Request(h)
    BY <1>1, <1>2, Joins DEF RenameGroup
  <2> QED
    BY <1>3, <1>4, <2>1, RequestKeepsTypes DEF BeginsOn
<1>6. /\ todo'[h] = MembersList /\ job'[h].info = info /\ job'[h].config = config
      /\ infos' = infos /\ configs' = configs /\ live' = live /\ torn' = torn
  BY <1>3, <1>5, Begins
<1>7. MembersList \in HandlerLists /\ MembersList \in AllLists
  BY DEF HandlerLists, AllLists, RemoveLists
<1>8. (MembersList \in WithInfo => info # None) /\ (MembersList \in WithConfig => config # None)
  BY <1>4, Heads, DeviceStoreAssumption DEF WithConfig
<1>9. ASSUME RunsAsStored(d), d \notin torn => Agrees(d) PROVE Progress(h, d)'
  <2>1. RunsAsStored(d)' /\ (d \notin torn => Agrees(d)')
    BY <1>6, <1>9 DEF RunsAsStored, Agrees, Listed
  <2>2. LiveProgress(h, d)'
    BY <1>6, <2>1, Heads, Different DEF LiveProgress, CarefulLists
  <2>3. d \notin torn => TreeProgress(h, d)'
    BY <1>4, <1>6, <2>1, Heads, Different DEF TreeProgress, CarefulLists
  <2> QED
    BY <1>6, <2>2, <2>3 DEF Progress
<1> QED
  BY <1>3, <1>4, <1>5, <1>7, <1>8, <1>9, WriterBegins

LEMMA LoopSyncs ==
  ASSUME IInv, NEW d \in Tuyas, NEW i \in Ips, SyncFromRouter(d, i)
  PROVE  IInv'
<1>1. SUFFICES ASSUME NEW config, config = [configs[d] EXCEPT !.ip = i] PROVE IInv'
  OBVIOUS
<1>2. /\ TypeOK /\ Loop \in Writers /\ Loop \in Agents /\ Loop \notin Handlers
      /\ d \in Devices /\ d \notin HubDevices
  BY DeviceStoreAssumption DEF IInv, Writers, Agents, Devices
<1>3. /\ configs[d] # None /\ config \in Config
      /\ config.key = configs[d].key /\ config.profile = configs[d].profile
  <2>1. configs[d] \in Config
    BY <1>2 DEF SyncFromRouter, TypeOK
  <2> QED
    BY <1>1, <1>2, <2>1, Entries
<1>4. BeginsOn(Loop, d, None, config, AddressList)
  BY <1>1, <1>2, <1>3 DEF SyncFromRouter, BeginsOn, TypeOK, AddressList
<1>5. /\ todo'[Loop] = AddressList /\ job'[Loop].config = config
      /\ infos' = infos /\ configs' = configs /\ live' = live /\ torn' = torn
  BY <1>2, <1>4, Begins
<1>6. AddressList \in AllLists /\ AddressList \notin WithInfo
  BY Heads, Different DEF AllLists, WithInfo
<1>7. ASSUME RunsAsStored(d), d \notin torn => Agrees(d) PROVE Progress(Loop, d)'
  <2>1. RunsAsStored(d)' /\ (d \notin torn => Agrees(d)')
    BY <1>5, <1>7 DEF RunsAsStored, Agrees, Listed
  <2>2. LiveProgress(Loop, d)'
    BY <1>3, <1>5, <2>1, Heads, Different DEF LiveProgress, CarefulLists
  <2>3. d \notin torn => TreeProgress(Loop, d)'
    BY <1>5, <2>1, Heads, Different DEF TreeProgress, CarefulLists
  <2> QED
    BY <1>5, <2>2, <2>3 DEF Progress
<1>8. config # None
  BY <1>3, DeviceStoreAssumption
<1> QED
  BY <1>2, <1>4, <1>6, <1>7, <1>8, WriterBegins

LEMMA HubSyncs ==
  ASSUME IInv, NEW s \in Syncs, NEW d \in HubDevices, SyncHub(s, d) \/ SyncAccount(s, d)
  PROVE  IInv'
<1>1. TypeOK /\ AnyInfo \in Info /\ AnyConfig \in Config
  BY HubEntries DEF IInv
<1>2. CASE SyncHub(s, d)
  <2>1. BeginsOn(s, d, AnyInfo, AnyConfig, BondList)
    BY <1>1, <1>2, Joins DEF SyncHub, BeginsOn, TypeOK
  <2> QED
    BY <2>1, SyncBegins
<1>3. CASE SyncAccount(s, d)
  <2>1. BeginsOn(s, d, AnyInfo, AnyConfig, MysaList)
    BY <1>1, <1>3, Joins DEF SyncAccount, BeginsOn, TypeOK
  <2> QED
    BY <2>1, SyncBegins
<1> QED
  BY <1>2, <1>3

-----------------------------------------------------------------------------
(* The rest.                                                               *)

LEMMA NobodyMoves ==
  ASSUME IInv, TypeOK', UNCHANGED <<infos, configs, live, todo, job, mixed, torn>>
  PROVE  IInv'
<1>1. \A x \in Agents : Busy(x)' = Busy(x) /\ Fits(x)' = Fits(x)
  BY DEF Busy, Fits
<1>2. \A x \in Agents : x \in Handlers \cup Syncs \cup {Loop}
  BY DEF Agents
<1>3. Programs'
  BY <1>1 DEF IInv, Programs, Agents
<1>4. HubValues'
  BY DEF IInv, HubValues, AnyInfo, AnyConfig, ManagedInfo
<1>5. ASSUME NEW d \in Devices \ mixed PROVE Tended(d)'
  <2>1. Tended(d)
    BY <1>5 DEF IInv
  <2>2. RunsAsStored(d)' = RunsAsStored(d) /\ Listed(d)' = Listed(d) /\ Agrees(d)' = Agrees(d)
    BY DEF RunsAsStored, Listed, Agrees
  <2>3. \A x \in Agents : WorksOn(x, d)' = WorksOn(x, d)
    BY DEF WorksOn, Busy
  <2>4. \A x \in Agents : /\ LiveProgress(x, d)' = LiveProgress(x, d)
                         /\ TreeProgress(x, d)' = TreeProgress(x, d)
    BY <2>2 DEF LiveProgress, TreeProgress
  <2>5. \A x \in Agents : /\ Progress(x, d)' = Progress(x, d)
                         /\ SyncProgress(x, d)' = SyncProgress(x, d)
    BY <2>4 DEF Progress, SyncProgress
  <2>6. Settled(d)' = Settled(d)
    BY <2>2 DEF Settled, Starting
  <2>7. Apart(d)'
    BY <2>1, <2>3 DEF Tended, Apart
  <2>8. (\A x \in Writers : x \in Agents) /\ (\A s \in Syncs : s \in Agents)
    BY DEF Writers, Agents
  <2>9. \A x \in Writers : WorksOn(x, d)' => Progress(x, d)'
    BY <2>1, <2>3, <2>5, <2>8 DEF Tended
  <2>10. \A s \in Syncs : WorksOn(s, d)' => SyncProgress(s, d)'
    BY <2>1, <2>3, <2>5, <2>8 DEF Tended
  <2>11. (\A x \in Writers : ~WorksOn(x, d)') => Settled(d)'
    BY <2>1, <2>3, <2>6, <2>8 DEF Tended
  <2> QED
    BY <2>7, <2>9, <2>10, <2>11 DEF Tended
<1> QED
  BY <1>3, <1>4, <1>5 DEF IInv

LEMMA RegistersHub ==
  ASSUME IInv, RegisterHub \/ RegisterMysaHub
  PROVE  IInv'
<1>1. requests' \in 0..MaxRequests
  BY DeviceStoreAssumption DEF IInv, TypeOK, RegisterHub, RegisterMysaHub
<1>2. /\ hubs' \subseteq {"bond", "mysa"} /\ syncing' \subseteq Syncs /\ due' \subseteq Mysas
      /\ UNCHANGED <<infos, configs, live, cloud, todo, job, crashes, mixed, torn>>
  BY DEF IInv, TypeOK, RegisterHub, RegisterMysaHub, store, history
<1>3. TypeOK'
  BY <1>1, <1>2 DEF IInv, TypeOK
<1> QED
  BY <1>2, <1>3, NobodyMoves

LEMMA CloudMoves ==
  ASSUME IInv, CloudChanges
  PROVE  IInv'
<1>1. cloud' \in Cloud
  <2>1. PICK f \in {"name", "key"} : cloud' = [cloud EXCEPT ![f] = @ + 1]
    BY DEF CloudChanges
  <2>2. /\ cloud.name \in 0..MaxChanges /\ cloud.key \in 0..MaxChanges
        /\ cloud.name + cloud.key < MaxChanges
    BY DEF CloudChanges, IInv, TypeOK, Cloud, Versions
  <2>3. cloud[f] + 1 \in 0..MaxChanges
    <3>1. cloud.name + 1 \in 0..MaxChanges /\ cloud.key + 1 \in 0..MaxChanges
      BY <2>2, DeviceStoreAssumption
    <3> QED
      BY <3>1
  <2>4. cloud \in [name : Versions, key : Versions]
    BY DEF IInv, TypeOK, Cloud
  <2> QED
    BY <2>1, <2>3, <2>4 DEF Cloud, Versions
<1>2. UNCHANGED <<infos, configs, live, hubs, syncing, due, todo, job, requests, crashes, mixed, torn>>
  BY DEF CloudChanges, store, tasks, history
<1>3. TypeOK'
  BY <1>1, <1>2 DEF IInv, TypeOK
<1> QED
  BY <1>2, <1>3, NobodyMoves

(* A start: what was at work or mixed is torn, the rest was settled, and a *)
(* plugin is built only from two entries.                                  *)
LEMMA Restarts ==
  ASSUME IInv, Restart
  PROVE  IInv'
<1>1. /\ TypeOK /\ infos' = infos /\ configs' = configs /\ live' = [d \in Devices |-> Started(d)]
      /\ hubs' = hubs /\ cloud' = cloud /\ requests' = requests
      /\ mixed' = {} /\ torn' = torn \cup mixed \cup {d \in Devices : AtWorkOn(d)}
      /\ todo' = [a \in Agents |-> <<>>] /\ job' = [a \in Agents |-> NoJob]
  BY DEF Restart, IInv
<1>2. live' \in [Devices -> Config \cup {None}]
  BY <1>1 DEF Started, TypeOK
<1>3. crashes' \in 0..MaxCrashes
  BY <1>1, DeviceStoreAssumption DEF Restart, TypeOK
<1>4. syncing' \subseteq Syncs
  BY DEF Restart
<1>5. due' \subseteq Mysas
  BY DEF Restart
<1>6. todo' \in [Agents -> Seq(Ops)] /\ job' \in [Agents -> Job \cup {NoJob}]
  BY <1>1
<1>7. TypeOK'
  BY <1>1, <1>2, <1>3, <1>4, <1>5, <1>6 DEF TypeOK
<1>8. \A x \in Agents : todo'[x] = <<>> /\ ~Busy(x)'
  BY <1>1 DEF Busy
<1>9. <<>> \notin WithInfo \cup WithConfig
  BY ListsAreNotEmpty DEF HandlerLists, AllLists, WithInfo, WithConfig
<1>10. Programs'
  <2>1. \A x \in Agents : Fits(x)'
    BY <1>8, <1>9 DEF Fits
  <2> QED
    BY <1>8, <2>1 DEF Programs, Agents
<1>11. HubValues'
  <2>1. SUFFICES ASSUME NEW d \in HubDevices PROVE HubValuesOf(d)'
    BY DEF HubValues, HubValuesOf
  <2>2. HubValuesOf(d) /\ d \in Devices
    BY DEF IInv, HubValues, HubValuesOf, Devices
  <2>3. live'[d] \in {None, configs[d]}
    BY <1>1, <2>2 DEF Started
  <2> QED
    BY <1>1, <2>2, <2>3 DEF HubValuesOf, AnyInfo, AnyConfig, ManagedInfo
<1>12. ASSUME NEW d \in Devices PROVE Tended(d)'
  <2>1. \A x \in Agents : ~WorksOn(x, d)'
    BY <1>8 DEF WorksOn
  <2>2. live'[d] = IF infos[d] = None THEN None ELSE configs[d]
    BY <1>1 DEF Started
  <2>3. RunsAsStored(d)'
    BY <1>1, <2>2 DEF RunsAsStored
  <2>4. ASSUME d \notin torn' PROVE Listed(d)' /\ (configs'[d] # None => Starting(d)')
    <3>1. d \notin mixed /\ d \notin torn /\ ~AtWorkOn(d)
      BY <1>1, <2>4
    <3>2. Settled(d)
      BY <3>1 DEF IInv, Tended, AtWorkOn, WorksOn, Writers, Agents
    <3>3. Listed(d)
      BY <3>1, <3>2 DEF Settled
    <3> QED
      BY <1>1, <2>2, <3>3 DEF Listed, Starting
  <2>5. Settled(d)'
    BY <2>3, <2>4 DEF Settled
  <2> QED
    BY <2>1, <2>5 DEF Tended, Apart, Writers, Agents
<1> QED
  BY <1>7, <1>10, <1>11, <1>12 DEF IInv

-----------------------------------------------------------------------------
(* The theorems.                                                           *)

LEMMA InitIInv == Init => IInv
<1> SUFFICES ASSUME Init PROVE IInv
  OBVIOUS
<1>1. /\ infos = [d \in Devices |-> None] /\ configs = [d \in Devices |-> None]
      /\ live = [d \in Devices |-> None]
      /\ todo = [a \in Agents |-> <<>>] /\ job = [a \in Agents |-> NoJob]
  BY DEF Init
<1>2. cloud \in Cloud /\ requests \in 0..MaxRequests /\ crashes \in 0..MaxCrashes
  BY DeviceStoreAssumption DEF Init, Cloud, Versions
<1>3. TypeOK
  BY <1>1, <1>2 DEF Init, TypeOK
<1>4. \A x \in Agents : todo[x] = <<>> /\ ~Busy(x)
  BY <1>1 DEF Busy
<1>5. <<>> \notin WithInfo \cup WithConfig
  BY ListsAreNotEmpty DEF HandlerLists, AllLists, WithInfo, WithConfig
<1>6. \A x \in Agents : Fits(x)
  BY <1>4, <1>5 DEF Fits
<1>7. Programs
  BY <1>4, <1>6 DEF Programs, Agents
<1>8. HubValues
  BY <1>1 DEF HubValues, Devices
<1>9. ASSUME NEW d \in Devices PROVE Tended(d)
  <2>1. Settled(d)
    BY <1>1 DEF Settled, RunsAsStored, Listed
  <2> QED
    BY <1>4, <2>1 DEF Tended, Apart, WorksOn, Writers, Agents
<1> QED
  BY <1>3, <1>7, <1>8, <1>9 DEF IInv

LEMMA NextIInv == IInv /\ [Next]_vars => IInv'
<1> SUFFICES ASSUME IInv, [Next]_vars PROVE IInv'
  OBVIOUS
<1>1. ASSUME NEW h \in Handlers, NEW d \in Devices,
             \/ \E p \in Profiles, i \in Ips : RegisterDevice(h, d, p, i)
             \/ \E p \in Profiles : PatchDevice(h, d, p) \/ CreateGroup(h, d, p) \/ PatchGroup(h, d, p)
             \/ Import(h, d) \/ Unregister(h, d) \/ RegisterManaged(h, d) \/ RenameGroup(h, d)
      PROVE  IInv'
  BY <1>1, RegistersDevice, PatchesDevice, CreatesGroup, PatchesGroup, Imports, Unregisters,
     RegistersManaged, RenamesGroup
<1>2. CASE RegisterHub \/ RegisterMysaHub
  BY <1>2, RegistersHub
<1>3. ASSUME NEW s \in Syncs, NEW d \in HubDevices, SyncHub(s, d) \/ SyncAccount(s, d)
      PROVE  IInv'
  BY <1>3, HubSyncs
<1>4. ASSUME NEW d \in Tuyas, NEW i \in Ips, SyncFromRouter(d, i)
      PROVE  IInv'
  BY <1>4, LoopSyncs
<1>5. ASSUME NEW a \in Agents, Operate(a)
      PROVE  IInv'
  BY <1>5, WriterOperates, SyncOperates DEF Agents, Writers
<1>6. CASE CloudChanges
  BY <1>6, CloudMoves
<1>7. CASE Restart
  BY <1>7, Restarts
<1>8. CASE UNCHANGED vars
  <2>1. UNCHANGED <<infos, configs, live, hubs, syncing, due, cloud, todo, job, requests, crashes,
                    mixed, torn>>
    BY <1>8 DEF vars
  <2>2. TypeOK'
    BY <2>1 DEF IInv, TypeOK
  <2> QED
    BY <2>1, <2>2, NobodyMoves
<1> QED
  BY <1>1, <1>2, <1>3, <1>4, <1>5, <1>6, <1>7, <1>8 DEF Next

THEOREM Invariance == Spec => []IInv
  BY InitIInv, NextIInv, PTL DEF Spec

(* The trees and the plugin registry hold entries of their type, and a     *)
(* handler, a sync or the loop has a list of operations left (devices.rs,  *)
(* groups.rs, pairing.rs, bond_sync.rs, mysa_sync.rs, router_client.rs).   *)
THEOREM TypeCorrect == Spec => []TypeOK
<1>1. IInv => TypeOK
  BY DEF IInv
<1> QED
  BY <1>1, Invariance, PTL

(* For any number of handlers, syncs and devices, and whenever the daemon  *)
(* stops: the plugin of a device nobody is at work on, and that no two     *)
(* that are not both syncs worked on at once, runs with the key and the    *)
(* profile that are stored (devices.rs, pairing.rs, main.rs:87-167).       *)
THEOREM LiveMatchesStore == Spec => []LiveIsStored
<1>1. IInv => LiveIsStored
  <2> SUFFICES ASSUME IInv, NEW d \in Devices \ mixed, ~AtWorkOn(d), live[d] # None
               PROVE  /\ infos[d] # None /\ configs[d] # None
                      /\ live[d].key = configs[d].key /\ live[d].profile = configs[d].profile
    BY DEF LiveIsStored
  <2>1. \A x \in Agents : ~WorksOn(x, d)
    BY DEF AtWorkOn, WorksOn
  <2>2. Settled(d)
    BY <2>1 DEF IInv, Tended, Writers, Agents
  <2> QED
    BY <2>2 DEF Settled, RunsAsStored
<1> QED
  BY <1>1, Invariance, PTL

(* Unless the daemon also stopped in the middle, what has a config is      *)
(* listed with the capabilities of its profile or members, or with none    *)
(* since it was registered as a managed device, and runs (devices.rs,      *)
(* groups.rs, bond_sync.rs).                                               *)
THEOREM TreesAgree == Spec => []StoreAgrees
<1>1. IInv => StoreAgrees
  <2> SUFFICES ASSUME IInv, NEW d \in Devices \ (mixed \cup torn), ~AtWorkOn(d), configs[d] # None
               PROVE  /\ live[d] # None /\ infos[d] # None
                      /\ infos[d].caps \in {configs[d].profile, NoCaps}
    BY DEF StoreAgrees
  <2>1. \A x \in Agents : ~WorksOn(x, d)
    BY DEF AtWorkOn, WorksOn
  <2>2. Settled(d)
    BY <2>1 DEF IInv, Tended, Writers, Agents
  <2>3. ~(\E s \in Syncs : todo[s] = StartList /\ job[s].id = d)
    BY <2>1, ListsAreNotEmpty DEF WorksOn, Busy, Agents, AllLists, HandlerLists
  <2> QED
    BY <2>2, <2>3 DEF Settled, Listed, Starting
<1> QED
  BY <1>1, Invariance, PTL
=============================================================================
