-------------------------- MODULE MysaSessionProofs --------------------------
(***************************************************************************)
(* Theorems about MysaSession, for any thermostats, callers, sizes of the  *)
(* worker's channel and of its connection's inbox, and any bounds.         *)
(*                                                                         *)
(* A call is about a stored device (CallsKnown), and so is a Subscribe in  *)
(* the channel (QueueKnown).  From the snapshot of the stored ids on, not  *)
(* only once the worker runs, a known device that is not subscribed on the *)
(* live connection is told to the worker or about to be (Covered).         *)
(***************************************************************************)
EXTENDS MysaSession, SequenceTheorems, TLAPS

-----------------------------------------------------------------------------
(* The inductive invariant.                                                *)

CallKnown(t) ==
  /\ task[t].pc # "idle" => task[t].dev \in known
  /\ task[t].pc = "insert" => task[t].got \in Heard
CallsKnown == task[Worker].op = None /\ \A t \in Callers : CallKnown(t)

SubscribeOf(d) == [kind |-> "subscribe", dev |-> d]
QueueKnown == \A i \in 1..Len(queue) : queue[i].kind = "subscribe" => queue[i].dev \in known

(* The worker has taken its snapshot and the connection lives.             *)
Connected == task[Worker].pc \in {"subscribing", "run"} /\ link = "up"

Announces(t, d) == task[t].pc = "announce" /\ task[t].dev = d
Told(d) ==
  \/ \E i \in 1..Len(queue) : queue[i] = SubscribeOf(d)
  \/ \E t \in Callers : Announces(t, d)
Covered == Connected => \A d \in known \ (topics \cup skipped) : Told(d)

IInv == TypeOK /\ CallsKnown /\ QueueKnown /\ Covered

-----------------------------------------------------------------------------
(* How a step moves a task.                                                *)

TaskSet == [pc : WorkerStages \cup CallerStages, op : Ops \cup {None},
            dev : Devices \cup {None}, got : Heard \cup {None}]

StagesOf(t) == IF t = Worker THEN WorkerStages ELSE CallerStages

TaskTyped ==
  /\ task \in [Tasks -> TaskSet]
  /\ \A t \in Tasks : task[t].pc \in StagesOf(t)

(* All of TypeOK that is not about the tasks.                              *)
RestTyped ==
  /\ creds \in Sessions \cup {None}
  /\ refreshable \in BOOLEAN /\ writer \in Tasks \cup {None}
  /\ known \subseteq Devices /\ skipped \subseteq known
  /\ queue \in Seq(Commands) /\ Len(queue) <= QueueCapacity
  /\ link \in {"none", "up", "broken"}
  /\ topics \subseteq known
  /\ inbox \in Seq(Messages) /\ Len(inbox) <= MaxInbox
  /\ cache \in [Devices -> Heard \cup {None}]
  /\ device \in [Devices -> States]
  /\ changes \in 0..MaxChanges /\ faults \in 0..MaxFaults
  /\ expiries \in 0..MaxExpiries /\ logouts \in 0..MaxLogouts

LEMMA Typed == ASSUME MysaAssumption PROVE TypeOK <=> TaskTyped /\ RestTyped
  BY DEF MysaAssumption, TypeOK, TaskTyped, RestTyped, TaskSet, StagesOf, Tasks

(* Task t goes to a stage and does there what it did; idle, it does        *)
(* nothing.                                                                *)
Moved(t, stage) ==
  /\ TaskTyped'
  /\ \A u \in Tasks \ {t} : task'[u] = task[u]
  /\ task'[t].pc = stage
  /\ stage # "idle" => /\ task'[t].op = task[t].op /\ task'[t].dev = task[t].dev
                       /\ task'[t].got = task[t].got

(* Caller t starts a call.                                                 *)
Started(t, o, d, stage) ==
  /\ TaskTyped'
  /\ \A u \in Tasks \ {t} : task'[u] = task[u]
  /\ task[t].pc = "idle" /\ task'[t].pc = stage
  /\ task'[t].op = o /\ task'[t].dev = d

LEMMA GotoMoves ==
  ASSUME MysaAssumption, TaskTyped, NEW t \in Tasks, NEW stage \in StagesOf(t),
         Goto(t, stage)
  PROVE  Moved(t, stage)
<1> USE DEF TaskTyped
<1>1. task[t] \in TaskSet /\ stage \in WorkerStages \cup CallerStages
  BY DEF StagesOf
<1>2. CASE stage = "idle"
  <2>1. At("idle", None, None) \in TaskSet /\ At("idle", None, None).pc = "idle"
    BY DEF At, TaskSet, CallerStages
  <2>2. task' = [task EXCEPT ![t] = At("idle", None, None)]
    BY <1>2 DEF Goto
  <2> QED
    BY <1>2, <2>1, <2>2 DEF Moved
<1>3. CASE stage # "idle"
  <2>1. task' = [task EXCEPT ![t] = [task[t] EXCEPT !.pc = stage]]
    BY <1>3 DEF Goto
  <2>2. [task[t] EXCEPT !.pc = stage] \in TaskSet
    BY <1>1 DEF TaskSet
  <2>3. /\ [task[t] EXCEPT !.pc = stage].pc = stage
        /\ [task[t] EXCEPT !.pc = stage].op = task[t].op
        /\ [task[t] EXCEPT !.pc = stage].dev = task[t].dev
        /\ [task[t] EXCEPT !.pc = stage].got = task[t].got
    BY <1>1 DEF TaskSet
  <2>4. task'[t] = [task[t] EXCEPT !.pc = stage]
    BY <2>1
  <2> QED
    BY <2>1, <2>2, <2>3, <2>4 DEF Moved
<1> QED
  BY <1>2, <1>3

LEMMA StartMoves ==
  ASSUME MysaAssumption, TaskTyped, NEW t \in Callers, NEW o \in Ops, NEW d \in Devices,
         NEW stage \in {"announce", "auth"}, Start(t, o, d, stage)
  PROVE  Started(t, o, d, stage)
<1>1. At(stage, o, d) \in TaskSet
  BY DEF At, TaskSet, CallerStages
<1>2. /\ At(stage, o, d).pc = stage
      /\ At(stage, o, d).op = o /\ At(stage, o, d).dev = d
  BY DEF At
<1>3. t \in Tasks /\ stage \in StagesOf(t)
  BY DEF Tasks, StagesOf, MysaAssumption, CallerStages
<1>4. task' = [task EXCEPT ![t] = At(stage, o, d)] /\ task[t].pc = "idle"
  BY DEF Start
<1>5. task'[t] = At(stage, o, d)
  BY <1>3, <1>4 DEF TaskTyped
<1>6. TaskTyped'
  BY <1>1, <1>2, <1>3, <1>4 DEF TaskTyped
<1> QED
  BY <1>2, <1>3, <1>4, <1>5, <1>6 DEF Started, TaskTyped

(* The answer of the HTTP request is kept until it is inserted.            *)
LEMMA AnsweredMoves ==
  ASSUME MysaAssumption, TaskTyped, NEW t \in Callers, NEW st \in Heard, Answered(t, st)
  PROVE  /\ TaskTyped'
         /\ \A u \in Tasks \ {t} : task'[u] = task[u]
         /\ task'[t].pc = "insert" /\ task'[t].got = st
         /\ task'[t].op = task[t].op /\ task'[t].dev = task[t].dev
<1> USE DEF TaskTyped
<1>1. t \in Tasks /\ "insert" \in StagesOf(t)
  BY DEF Tasks, StagesOf, MysaAssumption, CallerStages
<1>2. task[t] \in TaskSet
  BY <1>1
<1>3. task' = [task EXCEPT ![t] = [task[t] EXCEPT !.pc = "insert", !.got = st]]
  BY DEF Answered
<1> SUFFICES ASSUME NEW r, r = [task[t] EXCEPT !.pc = "insert", !.got = st]
             PROVE  /\ TaskTyped'
                    /\ \A u \in Tasks \ {t} : task'[u] = task[u]
                    /\ task'[t].pc = "insert" /\ task'[t].got = st
                    /\ task'[t].op = task[t].op /\ task'[t].dev = task[t].dev
  OBVIOUS
<1>4. r \in TaskSet /\ r.pc = "insert" /\ r.got = st /\ r.op = task[t].op /\ r.dev = task[t].dev
  BY <1>2 DEF TaskSet, CallerStages
<1>5. task' = [task EXCEPT ![t] = r]
  BY <1>3
<1> QED
  BY <1>1, <1>4, <1>5

(* Stages that only a caller can be at, and ops that only a caller has.    *)
LEMMA OnlyCallers ==
  ASSUME MysaAssumption, TaskTyped, CallsKnown, NEW t \in Tasks,
         task[t].pc \in {"idle", "announce", "post", "insert"} \/ task[t].op \in Ops
  PROVE  t \in Callers
  BY DEF MysaAssumption, TaskTyped, StagesOf, WorkerStages, CallsKnown, Tasks

LEMMA Stages ==
  ASSUME MysaAssumption
  PROVE  /\ Worker \in Tasks /\ Callers \subseteq Tasks
         /\ StagesOf(Worker) = WorkerStages
         /\ \A t \in Callers : StagesOf(t) = CallerStages
         /\ \A t \in Tasks : {"auth", "lock", "renew", "exchange", "ready"} \subseteq StagesOf(t)
  BY DEF MysaAssumption, StagesOf, Tasks, WorkerStages, CallerStages

LEMMA FailedMoves ==
  ASSUME MysaAssumption, TaskTyped, NEW t \in Tasks, Failed(t)
  PROVE  Moved(t, IF t = Worker THEN "down" ELSE "idle")
<1> SUFFICES ASSUME NEW stage, stage = IF t = Worker THEN "down" ELSE "idle"
             PROVE  Moved(t, stage)
  OBVIOUS
<1>1. stage \in StagesOf(t)
  BY DEF StagesOf, WorkerStages, CallerStages
<1>2. Goto(t, stage)
  BY DEF Failed
<1> QED
  BY <1>1, <1>2, GotoMoves

(* What each action does to the tasks.                                     *)
LEMMA AuthMoves ==
  ASSUME MysaAssumption, TaskTyped, NEW t \in Tasks
  PROVE  /\ ReadSession(t) => Moved(t, IF Fresh THEN "ready" ELSE "lock")
         /\ LockSession(t) => Moved(t, IF Fresh THEN "ready" ELSE "renew")
         /\ Renew(t) => Moved(t, "exchange")
         /\ Exchange(t) => Moved(t, "ready")
         /\ AuthFails(t) => Moved(t, IF t = Worker THEN "down" ELSE "idle")
<1>1. \A stage \in {"auth", "lock", "renew", "exchange", "ready"} :
        Goto(t, stage) => Moved(t, stage)
  BY GotoMoves, Stages
<1>2. CASE Fresh
  BY <1>1, <1>2, FailedMoves DEF ReadSession, LockSession, Renew, Exchange, AuthFails
<1>3. CASE ~Fresh
  BY <1>1, <1>3, FailedMoves DEF ReadSession, LockSession, Renew, Exchange, AuthFails
<1> QED
  BY <1>2, <1>3

LEMMA CallMoves ==
  ASSUME MysaAssumption, TaskTyped, CallsKnown, NEW t \in Tasks
  PROVE  /\ Announce(t) => t \in Callers /\ Moved(t, "idle")
         /\ Publish(t) => t \in Callers /\ (Moved(t, "idle") \/ Moved(t, "post"))
         /\ Post(t) => t \in Callers /\ Moved(t, "idle")
         /\ Insert(t) => t \in Callers /\ Moved(t, "idle")
<1>1. \A stage \in {"idle", "post"} : t \in Callers /\ Goto(t, stage) => Moved(t, stage)
  BY GotoMoves, Stages DEF CallerStages
<1>2. Announce(t) \/ Publish(t) \/ Post(t) \/ Insert(t) => t \in Callers
  BY OnlyCallers DEF Announce, Publish, Post, Insert, Ops
<1> QED
  BY <1>1, <1>2 DEF Announce, Publish, Post, Insert

LEMMA ConnectMoves ==
  ASSUME MysaAssumption, TaskTyped
  PROVE  /\ Dial => Moved(Worker, "subscribe") \/ Moved(Worker, "down")
         /\ Snapshot => Moved(Worker, "subscribing")
         /\ SubscribeAll => Moved(Worker, "run")
         /\ (Closed \/ PublishFails) => Moved(Worker, "down")
         /\ Wake => Moved(Worker, "auth")
<1>1. \A stage \in WorkerStages : Goto(Worker, stage) => Moved(Worker, stage)
  BY GotoMoves, Stages
<1>2. Failed(Worker) => Moved(Worker, "down")
  BY FailedMoves, Stages
<1> QED
  BY <1>1, <1>2
  DEF Dial, Snapshot, SubscribeAll, Closed, PublishFails, EndSession, Wake, WorkerStages

-----------------------------------------------------------------------------
(* Types.                                                                  *)

(* A device changes and the connection may hear of it.                     *)
LEMMA ChangedTyped ==
  ASSUME MysaAssumption, RestTyped, NEW d \in Devices, Changed(d)
  PROVE  /\ device' \in [Devices -> States] /\ changes' \in 0..MaxChanges
         /\ inbox' \in Seq(Messages) /\ Len(inbox') <= MaxInbox
<1> USE DEF RestTyped, MysaAssumption
<1>1. changes' \in 0..MaxChanges /\ changes + 1 \in Setpoints
  BY DEF Changed, Setpoints
<1>2. \A m \in Messages : InboxWith(m) \in Seq(Messages) /\ Len(InboxWith(m)) <= MaxInbox
  BY DEF Changed, InboxWith
<1>3. device[d] \in States
  OBVIOUS
<1>4. CASE \E mode \in Modes :
             /\ device' = [device EXCEPT ![d].mode = mode]
             /\ inbox' = InboxWith(Message(d, mode, None))
  <2>1. PICK mode \in Modes :
          /\ device' = [device EXCEPT ![d].mode = mode]
          /\ inbox' = InboxWith(Message(d, mode, None))
    BY <1>4
  <2>2. Message(d, mode, None) \in Messages
    BY DEF Message, Messages
  <2>3. [device[d] EXCEPT !.mode = mode] \in States
    BY <1>3 DEF States
  <2> QED
    BY <1>1, <1>2, <2>1, <2>2, <2>3
<1>5. CASE /\ device' = [device EXCEPT ![d].sp = changes + 1]
           /\ inbox' = InboxWith(Message(d, None, changes + 1))
  <2>1. Message(d, None, changes + 1) \in Messages
    BY <1>1 DEF Message, Messages
  <2>2. [device[d] EXCEPT !.sp = changes + 1] \in States
    BY <1>1, <1>3 DEF States
  <2> QED
    BY <1>1, <1>2, <1>5, <2>1, <2>2
<1> QED
  BY <1>4, <1>5 DEF Changed

LEMMA KnownTyped ==
  ASSUME RestTyped, NEW d \in Devices
  PROVE  Known(d) \in Heard
<1>1. Default \in Heard
  BY DEF Default, Heard, Modes
<1> QED
  BY <1>1 DEF RestTyped, Known

LEMMA EnqueueTyped ==
  ASSUME MysaAssumption, RestTyped, HasRoom, NEW kind \in {"publish", "subscribe"},
         NEW d \in Devices \cup {None}, Enqueue(kind, d)
  PROVE  queue' \in Seq(Commands) /\ Len(queue') <= QueueCapacity
<1>1. [kind |-> kind, dev |-> d] \in Commands
  BY DEF Commands
<1> QED
  BY <1>1 DEF RestTyped, MysaAssumption, HasRoom, Enqueue

LEMMA TailTyped ==
  ASSUME RestTyped, MysaAssumption, queue # <<>>
  PROVE  /\ Tail(queue) \in Seq(Commands) /\ Len(Tail(queue)) <= QueueCapacity
         /\ Head(queue) \in Commands
<1>1. Tail(queue) \in Seq(Commands) /\ Len(Tail(queue)) = Len(queue) - 1
  BY DEF RestTyped
<1> QED
  BY <1>1 DEF RestTyped, MysaAssumption

LEMMA AuthTyped ==
  ASSUME MysaAssumption, TaskTyped, RestTyped, NEW t \in Tasks, Auth(t)
  PROVE  TaskTyped' /\ RestTyped'
<1>1. TaskTyped'
  BY AuthMoves DEF Auth, Moved
<1>2. creds' \in Sessions \cup {None} /\ writer' \in Tasks \cup {None}
  <2>1. CASE Renew(t)
    <3>1. creds # None => \A id \in IdTokens : [creds EXCEPT !.id = id] \in Sessions
      BY DEF RestTyped, Sessions
    <3> QED
      BY <2>1, <3>1 DEF Renew, RestTyped
  <2>2. CASE Exchange(t)
    <3>1. creds # None => [creds EXCEPT !.aws = TRUE] \in Sessions
      BY DEF RestTyped, Sessions
    <3>2. \A id \in IdTokens : [id |-> id, aws |-> TRUE] \in Sessions
      BY DEF Sessions
    <3> QED
      BY <2>2, <3>1, <3>2 DEF Exchange
  <2>3. CASE ReadSession(t) \/ LockSession(t) \/ AuthFails(t)
    BY <2>3 DEF ReadSession, LockSession, AuthFails, RestTyped, authVars
  <2> QED
    BY <2>1, <2>2, <2>3 DEF Auth
<1>3. faults' \in 0..MaxFaults /\ UNCHANGED <<refreshable, changes, expiries, logouts>>
  BY DEF Auth, ReadSession, LockSession, Renew, Exchange, AuthFails, IdToken, Fault,
         authVars, bounds, RestTyped, MysaAssumption
<1>4. UNCHANGED <<known, queue, skipped, linkVars, cache, device>>
  BY DEF Auth, ReadSession, LockSession, Renew, Exchange, AuthFails
<1> QED
  BY <1>1, <1>2, <1>3, <1>4 DEF RestTyped, linkVars

LEMMA CallTyped ==
  ASSUME MysaAssumption, TaskTyped, CallsKnown, RestTyped, NEW t \in Tasks, Call(t)
  PROVE  TaskTyped' /\ RestTyped'
<1>1. t \in Callers
  BY CallMoves, OnlyCallers DEF Call, Fetch, Ops
<1>2. task[t].dev \in known /\ task[t].dev \in Devices
  BY <1>1 DEF Call, Announce, Publish, Post, Fetch, Insert, CallsKnown, CallKnown, RestTyped
<1>3. CASE Announce(t)
  <2>1. TaskTyped'
    BY <1>3, CallMoves DEF Moved
  <2>2. CASE HasRoom
    <3>1. queue' \in Seq(Commands) /\ Len(queue') <= QueueCapacity
      BY <1>2, <1>3, <2>2, EnqueueTyped DEF Announce
    <3> QED
      BY <1>3, <2>1, <2>2, <3>1 DEF Announce, RestTyped, authVars, linkVars, bounds
  <2>3. CASE ~HasRoom
    BY <1>2, <1>3, <2>1, <2>3 DEF Announce, RestTyped, authVars, linkVars, bounds
  <2> QED
    BY <2>2, <2>3
<1>4. CASE Publish(t)
  <2>1. TaskTyped'
    BY <1>4, CallMoves DEF Moved
  <2>2. CASE HasRoom
    <3>1. queue' \in Seq(Commands) /\ Len(queue') <= QueueCapacity
      BY <1>2, <1>4, <2>2, EnqueueTyped DEF Publish
    <3> QED
      BY <1>4, <2>1, <2>2, <3>1 DEF Publish, RestTyped, authVars, linkVars, bounds
  <2>3. CASE ~HasRoom
    BY <1>4, <2>1, <2>3 DEF Publish, RestTyped, authVars, linkVars, bounds
  <2> QED
    BY <2>2, <2>3
<1>5. CASE Post(t)
  <2>1. TaskTyped'
    BY <1>5, CallMoves DEF Moved
  <2>2. CASE Changed(task[t].dev) /\ UNCHANGED faults
    <3>1. /\ device' \in [Devices -> States] /\ changes' \in 0..MaxChanges
          /\ inbox' \in Seq(Messages) /\ Len(inbox') <= MaxInbox
      BY <1>2, <2>2, ChangedTyped
    <3> QED
      BY <1>5, <2>1, <2>2, <3>1 DEF Post, RestTyped, authVars
  <2>3. CASE UNCHANGED <<device, inbox, changes, faults>>
    BY <1>5, <2>1, <2>3 DEF Post, RestTyped, authVars
  <2> QED
    BY <1>5, <2>2, <2>3 DEF Post
<1>6. CASE Fetch(t)
  <2>1. faults' \in 0..MaxFaults
    BY <1>6 DEF Fetch, Fault, RestTyped, MysaAssumption
  <2>2. RestTyped'
    BY <1>6, <2>1 DEF Fetch, RestTyped, authVars, linkVars
  <2>3. device[task[t].dev] \in Heard /\ Default \in Heard
    BY <1>2 DEF RestTyped, States, Heard, Default, Modes
  <2>4. Failed(t) => TaskTyped'
    BY FailedMoves DEF Moved
  <2>5. \A st \in Heard : Answered(t, st) => TaskTyped'
    BY <1>1, AnsweredMoves
  <2> QED
    BY <1>6, <2>2, <2>3, <2>4, <2>5 DEF Fetch
<1>7. CASE Insert(t)
  <2>1. TaskTyped'
    BY <1>7, CallMoves DEF Moved
  <2>2. task[t].got \in Heard
    BY <1>1, <1>7 DEF Insert, CallsKnown, CallKnown
  <2>3. cache' \in [Devices -> Heard \cup {None}]
    BY <1>7, <2>2 DEF Insert, RestTyped
  <2> QED
    BY <1>7, <2>1, <2>3 DEF Insert, RestTyped, authVars, linkVars, bounds
<1> QED
  BY <1>3, <1>4, <1>5, <1>6, <1>7 DEF Call

LEMMA ConnectTyped ==
  ASSUME MysaAssumption, TaskTyped, RestTyped, Connect \/ PublishFails
  PROVE  TaskTyped' /\ RestTyped'
<1>1. TaskTyped'
  BY ConnectMoves DEF Connect, Moved
<1>2. CASE Dial
  <2>1. faults' \in 0..MaxFaults
    BY <1>2 DEF Dial, Fault, RestTyped, MysaAssumption
  <2>2. link' \in {"none", "up", "broken"}
    BY <1>2 DEF Dial, RestTyped
  <2> QED
    BY <1>1, <1>2, <2>1, <2>2 DEF Dial, RestTyped, authVars
<1>3. CASE Snapshot
  BY <1>1, <1>3 DEF Snapshot, RestTyped, authVars, bounds
<1>4. CASE SubscribeAll \/ Wake
  BY <1>1, <1>4 DEF SubscribeAll, Wake, RestTyped, authVars, bounds, linkVars
<1>5. ASSUME NEW rest, rest \in Seq(Commands), Len(rest) <= QueueCapacity, EndSession(rest)
      PROVE  RestTyped'
  <2>1. inbox' \in Seq(Messages) /\ Len(inbox') <= MaxInbox
    BY <1>5 DEF EndSession, MysaAssumption
  <2> QED
    BY <1>5, <2>1 DEF EndSession, RestTyped, authVars, bounds
<1>6. CASE Closed
  BY <1>1, <1>5, <1>6 DEF Closed, RestTyped
<1>7. CASE PublishFails
  BY <1>1, <1>5, <1>7, TailTyped DEF PublishFails
<1> QED
  BY <1>2, <1>3, <1>4, <1>6, <1>7 DEF Connect

(* The steps of the cloud, and those of the worker that leave it where it  *)
(* is.                                                                     *)
Outside ==
  \/ Expire \/ LogOut \/ Break \/ OtherCommand
  \/ \E d \in Devices : ChangeByHand(d) \/ Telemetry(d)
Takes == Receive \/ TakeSubscribe \/ TakePublish

LEMMA OutsideTyped ==
  ASSUME MysaAssumption, TaskTyped, RestTyped, Outside
  PROVE  TaskTyped' /\ RestTyped'
<1>1. TaskTyped'
  BY DEF Outside, Expire, LogOut, Break, OtherCommand, ChangeByHand, Telemetry, TaskTyped
<1>2. CASE Expire
  <2>1. creds \in Sessions
    BY <1>2 DEF Expire, RestTyped
  <2>2. [creds EXCEPT !.id = "expired"] \in Sessions /\ [creds EXCEPT !.aws = FALSE] \in Sessions
    BY <2>1 DEF Sessions, IdTokens
  <2>3. creds' \in Sessions \cup {None}
    BY <1>2, <2>2 DEF Expire
  <2>4. expiries < MaxExpiries /\ expiries' = expiries + 1
    BY <1>2 DEF Expire
  <2>5. expiries' \in 0..MaxExpiries
    BY <2>4 DEF RestTyped, MysaAssumption
  <2>6. UNCHANGED <<refreshable, writer, known, queue, skipped, linkVars, cache, device,
                    changes, faults, logouts>>
    BY <1>2 DEF Expire
  <2> QED
    BY <1>1, <2>3, <2>5, <2>6 DEF RestTyped, linkVars
<1>3. CASE LogOut
  <2>1. logouts < MaxLogouts /\ logouts' = logouts + 1 /\ refreshable' = FALSE
    BY <1>3 DEF LogOut
  <2>2. logouts' \in 0..MaxLogouts
    BY <2>1 DEF RestTyped, MysaAssumption
  <2> QED
    BY <1>1, <1>3, <2>1, <2>2 DEF LogOut, RestTyped, linkVars
<1>4. CASE Break
  <2>1. faults' \in 0..MaxFaults
    BY <1>4 DEF Break, Fault, RestTyped, MysaAssumption
  <2> QED
    BY <1>1, <1>4, <2>1 DEF Break, RestTyped, authVars
<1>5. CASE OtherCommand
  <2>1. queue' \in Seq(Commands) /\ Len(queue') <= QueueCapacity
    BY <1>5, EnqueueTyped DEF OtherCommand
  <2> QED
    BY <1>1, <1>5, <2>1 DEF OtherCommand, RestTyped, authVars, linkVars, bounds
<1>6. ASSUME NEW d \in Devices, ChangeByHand(d)
      PROVE  RestTyped'
  <2>1. /\ device' \in [Devices -> States] /\ changes' \in 0..MaxChanges
        /\ inbox' \in Seq(Messages) /\ Len(inbox') <= MaxInbox
    BY <1>6, ChangedTyped DEF ChangeByHand
  <2> QED
    BY <1>6, <2>1 DEF ChangeByHand, RestTyped, authVars
<1>7. ASSUME NEW d \in Devices, Telemetry(d)
      PROVE  RestTyped'
  <2>1. Message(d, None, device[d].sp) \in Messages
    BY DEF Message, Messages, RestTyped, States
  <2>2. inbox' \in Seq(Messages) /\ Len(inbox') <= MaxInbox
    BY <1>7, <2>1 DEF Telemetry, MysaAssumption
  <2> QED
    BY <1>7, <2>2 DEF Telemetry, RestTyped, authVars, bounds
<1> QED
  BY <1>1, <1>2, <1>3, <1>4, <1>5, <1>6, <1>7 DEF Outside

LEMMA TakesTyped ==
  ASSUME MysaAssumption, TaskTyped, QueueKnown, RestTyped, Takes
  PROVE  TaskTyped' /\ RestTyped'
<1>1. TaskTyped'
  BY DEF Takes, Receive, TakeSubscribe, TakePublish, TaskTyped
<1>2. CASE Receive
  <2>0. PICK m : m = Head(inbox)
    OBVIOUS
  <2>1. /\ m \in Messages
        /\ inbox' \in Seq(Messages) /\ Len(inbox') = Len(inbox) - 1
    BY <1>2, <2>0 DEF Receive, RestTyped
  <2>2. m.dev \in Devices /\ m.mode \in Modes \cup {None} /\ m.sp \in Setpoints \cup {None}
    BY <2>1 DEF Messages
  <2>3. Known(m.dev).mode \in Modes /\ Known(m.dev).sp \in Setpoints \cup {DefaultSetpoint}
    BY <2>2, KnownTyped DEF Heard
  <2>4. /\ (IF m.mode = None THEN Known(m.dev).mode ELSE m.mode) \in Modes
        /\ (IF m.sp = None THEN Known(m.dev).sp ELSE m.sp) \in Setpoints \cup {DefaultSetpoint}
    BY <2>2, <2>3
  <2>5. [mode |-> IF m.mode = None THEN Known(m.dev).mode ELSE m.mode,
         sp |-> IF m.sp = None THEN Known(m.dev).sp ELSE m.sp] \in Heard
    BY <2>4 DEF Heard
  <2>6. cache' = [cache EXCEPT ![m.dev] =
          [mode |-> IF m.mode = None THEN Known(m.dev).mode ELSE m.mode,
           sp |-> IF m.sp = None THEN Known(m.dev).sp ELSE m.sp]]
    BY <1>2, <2>0 DEF Receive
  <2>7. cache' \in [Devices -> Heard \cup {None}]
    BY <2>5, <2>6 DEF RestTyped
  <2>8. Len(inbox') <= MaxInbox
    BY <2>1 DEF RestTyped, MysaAssumption
  <2>9. /\ creds' = creds /\ refreshable' = refreshable /\ writer' = writer
        /\ known' = known /\ skipped' = skipped /\ link' = link /\ topics' = topics
        /\ queue' = queue /\ device' = device /\ changes' = changes
        /\ faults' = faults /\ expiries' = expiries /\ logouts' = logouts
    BY <1>2 DEF Receive, authVars, bounds
  <2> QED
    BY <1>1, <2>1, <2>7, <2>8, <2>9 DEF RestTyped
<1>3. CASE TakeSubscribe
  <2>1. queue' \in Seq(Commands) /\ Len(queue') <= QueueCapacity
    BY <1>3, TailTyped DEF TakeSubscribe
  <2>2. 1 \in 1..Len(queue) /\ Head(queue) = queue[1]
    BY <1>3 DEF TakeSubscribe, RestTyped
  <2>3. Head(queue).dev \in known
    BY <1>3, <2>2 DEF TakeSubscribe, QueueKnown
  <2>4. topics' \subseteq known
    BY <1>3, <2>3 DEF TakeSubscribe, RestTyped
  <2>5. /\ creds' = creds /\ refreshable' = refreshable /\ writer' = writer
        /\ known' = known /\ skipped' = skipped /\ link' = link /\ inbox' = inbox
        /\ cache' = cache /\ device' = device /\ changes' = changes
        /\ faults' = faults /\ expiries' = expiries /\ logouts' = logouts
    BY <1>3 DEF TakeSubscribe, authVars, bounds
  <2> QED
    BY <1>1, <2>1, <2>4, <2>5 DEF RestTyped
<1>4. CASE TakePublish
  <2>0. /\ creds' = creds /\ refreshable' = refreshable /\ writer' = writer
        /\ known' = known /\ skipped' = skipped /\ link' = link /\ topics' = topics
        /\ cache' = cache /\ faults' = faults /\ expiries' = expiries
        /\ logouts' = logouts
    BY <1>4 DEF TakePublish, authVars
  <2>1. queue' \in Seq(Commands) /\ Len(queue') <= QueueCapacity /\ Head(queue) \in Commands
    BY <1>4, TailTyped DEF TakePublish
  <2>2. CASE Head(queue).dev # None /\ Changed(Head(queue).dev)
    <3>1. Head(queue).dev \in Devices
      BY <2>1, <2>2 DEF Commands
    <3>2. /\ device' \in [Devices -> States] /\ changes' \in 0..MaxChanges
          /\ inbox' \in Seq(Messages) /\ Len(inbox') <= MaxInbox
      BY <2>2, <3>1, ChangedTyped
    <3> QED
      BY <1>1, <2>0, <2>1, <3>2 DEF RestTyped
  <2>3. CASE UNCHANGED <<device, inbox, changes>>
    BY <1>1, <2>0, <2>1, <2>3 DEF RestTyped
  <2> QED
    BY <1>4, <2>2, <2>3 DEF TakePublish
<1> QED
  BY <1>1, <1>2, <1>3, <1>4 DEF Takes

(* A caller starts a call about d.                                         *)
Starts(t, d) == AddDevice(t, d) \/ Command(t, d) \/ Poll(t, d)

LEMMA StartsMoves ==
  ASSUME MysaAssumption, TaskTyped, NEW t \in Callers, NEW d \in Devices
  PROVE  /\ AddDevice(t, d) => Started(t, "add", d, "announce")
         /\ Command(t, d) => Started(t, "command", d, "auth")
         /\ Poll(t, d) => Started(t, "poll", d, "auth")
<1>1. \A o \in Ops, stage \in {"announce", "auth"} :
        Start(t, o, d, stage) => Started(t, o, d, stage)
  BY StartMoves
<1> QED
  BY <1>1 DEF AddDevice, Command, Poll, Ops

LEMMA StartsTyped ==
  ASSUME MysaAssumption, TaskTyped, RestTyped,
         NEW t \in Callers, NEW d \in Devices, Starts(t, d)
  PROVE  TaskTyped' /\ RestTyped'
<1>1. TaskTyped'
  BY StartsMoves DEF Starts, Started
<1> QED
  BY <1>1 DEF Starts, AddDevice, Command, Poll, RestTyped, authVars, linkVars, bounds

-----------------------------------------------------------------------------
(* A step is one of these.                                                 *)
LEMMA NextCases ==
  ASSUME Next
  PROVE  \/ Outside \/ Takes \/ Connect \/ PublishFails
         \/ \E t \in Tasks : Auth(t) \/ Call(t)
         \/ \E t \in Callers, d \in Devices : Starts(t, d)
<1>1. TakeNext => Takes \/ PublishFails
  BY DEF TakeNext, Takes
<1>2. Receive => Takes
  BY DEF Takes
<1>3. (\/ Expire \/ LogOut \/ Break \/ OtherCommand
       \/ \E d \in Devices : ChangeByHand(d) \/ Telemetry(d)) => Outside
  BY DEF Outside
<1>4. \A t \in Callers, d \in Devices :
        AddDevice(t, d) \/ Command(t, d) \/ Poll(t, d) => Starts(t, d)
  BY DEF Starts
<1> QED
  BY <1>1, <1>2, <1>3, <1>4 DEF Next

LEMMA NextTyped ==
  ASSUME MysaAssumption, IInv, Next
  PROVE  TaskTyped' /\ RestTyped'
<1>1. TaskTyped /\ RestTyped /\ CallsKnown /\ QueueKnown
  BY Typed DEF IInv
<1> QED
  BY <1>1, NextCases, OutsideTyped, TakesTyped, ConnectTyped, AuthTyped, CallTyped, StartsTyped

(* No step forgets a device.                                               *)
LEMMA KnownGrows ==
  ASSUME Next
  PROVE  known \subseteq known'
<1>2. Outside => known' = known
  BY DEF Outside, Expire, LogOut, Break, OtherCommand, ChangeByHand, Telemetry
<1>3. Takes => known' = known
  BY DEF Takes, Receive, TakeSubscribe, TakePublish
<1>4. (Connect \/ PublishFails) => known' = known
  BY DEF Connect, Dial, Snapshot, SubscribeAll, Closed, Wake, PublishFails, EndSession
<1>5. \A t \in Tasks : Auth(t) => known' = known
  BY DEF Auth, ReadSession, LockSession, Renew, Exchange, AuthFails
<1>6. \A t \in Tasks : Call(t) => known' = known
  BY DEF Call, Announce, Publish, Post, Fetch, Insert
<1>7. \A t \in Callers, d \in Devices : Starts(t, d) => known \subseteq known'
  BY DEF Starts, AddDevice, Command, Poll
<1> QED
  BY <1>2, <1>3, <1>4, <1>5, <1>6, <1>7, NextCases

-----------------------------------------------------------------------------
(* Calls are about stored devices.                                         *)

LEMMA MovedKeepsCalls ==
  ASSUME MysaAssumption, TaskTyped, CallsKnown, NEW t \in Tasks, NEW stage,
         Moved(t, stage), stage # "insert", task[t].pc # "idle",
         known \subseteq known'
  PROVE  CallsKnown'
<1>1. ASSUME NEW u \in Callers
      PROVE  CallKnown(u)'
  <2>1. CASE u # t
    <3>1. task'[u] = task[u]
      BY <2>1, Stages DEF Moved
    <3> QED
      BY <3>1 DEF CallsKnown, CallKnown
  <2>2. CASE u = t
    BY <2>2 DEF Moved, CallsKnown, CallKnown
  <2> QED
    BY <2>1, <2>2
<1>2. task'[Worker].op = None
  <2>1. CASE t = Worker
    <3>1. stage # "idle"
      BY <2>1, Stages DEF Moved, TaskTyped, StagesOf, WorkerStages
    <3> QED
      BY <2>1, <3>1 DEF Moved, CallsKnown
  <2>2. CASE t # Worker
    BY <2>2, Stages DEF Moved, CallsKnown
  <2> QED
    BY <2>1, <2>2
<1> QED
  BY <1>1, <1>2 DEF CallsKnown

LEMMA NextCallsKnown ==
  ASSUME MysaAssumption, IInv, Next
  PROVE  CallsKnown'
<1>1. TaskTyped /\ RestTyped /\ CallsKnown /\ known \subseteq known'
  BY Typed, KnownGrows DEF IInv
<1>2. CASE Outside \/ Takes
  <2>1. task' = task
    BY <1>2 DEF Outside, Expire, LogOut, Break, OtherCommand, ChangeByHand, Telemetry,
                Takes, Receive, TakeSubscribe, TakePublish
  <2> QED
    BY <1>1, <2>1 DEF CallsKnown, CallKnown
<1>3. CASE Connect \/ PublishFails
  <2>1. Worker \in Tasks /\ task[Worker].pc # "idle"
    BY <1>1, Stages DEF TaskTyped, WorkerStages
  <2>2. \E stage \in {"subscribe", "down", "subscribing", "run", "auth"} : Moved(Worker, stage)
    BY <1>1, <1>3, ConnectMoves DEF Connect
  <2> QED
    BY <1>1, <2>1, <2>2, MovedKeepsCalls
<1>4. ASSUME NEW t \in Tasks, Auth(t)
      PROVE  CallsKnown'
  <2>1. task[t].pc # "idle"
    BY <1>4 DEF Auth, ReadSession, LockSession, Renew, Exchange, AuthFails
  <2>2. \E stage \in {"ready", "lock", "renew", "exchange", "down", "idle"} : Moved(t, stage)
    BY <1>1, <1>4, AuthMoves DEF Auth
  <2> QED
    BY <1>1, <2>1, <2>2, MovedKeepsCalls
<1>5. ASSUME NEW t \in Tasks, Announce(t) \/ Publish(t) \/ Post(t) \/ Insert(t)
      PROVE  CallsKnown'
  <2>1. task[t].pc # "idle"
    BY <1>5 DEF Announce, Publish, Post, Insert
  <2>2. \E stage \in {"idle", "post"} : Moved(t, stage)
    BY <1>1, <1>5, CallMoves
  <2> QED
    BY <1>1, <2>1, <2>2, MovedKeepsCalls
<1>6. ASSUME NEW t \in Tasks, Fetch(t)
      PROVE  CallsKnown'
  <2>1. t \in Callers /\ task[t].pc = "ready"
    BY <1>1, <1>6, OnlyCallers DEF Fetch, Ops
  <2>2. task[t].dev \in known /\ task[t].dev \in Devices
    BY <1>1, <2>1 DEF CallsKnown, CallKnown, RestTyped
  <2>3. device[task[t].dev] \in Heard /\ Default \in Heard
    BY <1>1, <2>2 DEF RestTyped, States, Heard, Default, Modes
  <2>4. ASSUME NEW st \in Heard, Answered(t, st)
        PROVE  CallsKnown'
    <3>1. /\ \A u \in Tasks \ {t} : task'[u] = task[u]
          /\ task'[t].got = st /\ task'[t].dev = task[t].dev
      BY <1>1, <2>1, <2>4, AnsweredMoves
    <3>2. CallKnown(t)'
      BY <1>1, <2>2, <3>1 DEF CallKnown
    <3>3. \A u \in Callers \ {t} : CallKnown(u)'
      BY <1>1, <3>1, Stages DEF CallsKnown, CallKnown
    <3>4. task'[Worker] = task[Worker]
      BY <2>1, <3>1, Stages DEF MysaAssumption
    <3> QED
      BY <1>1, <3>2, <3>3, <3>4 DEF CallsKnown
  <2>5. Failed(t) => \E stage \in {"idle", "down"} : Moved(t, stage)
    BY <1>1, FailedMoves
  <2> QED
    BY <1>1, <1>6, <2>1, <2>3, <2>4, <2>5, MovedKeepsCalls DEF Fetch
<1>7. ASSUME NEW t \in Callers, NEW d \in Devices, Starts(t, d)
      PROVE  CallsKnown'
  <2>1. d \in known'
    BY <1>7 DEF Starts, AddDevice, Command, Poll
  <2>2. /\ \A u \in Tasks \ {t} : task'[u] = task[u]
        /\ task'[t].pc # "insert" /\ task'[t].dev = d
    BY <1>1, <1>7, StartsMoves DEF Starts, Started
  <2>3. CallKnown(t)'
    BY <2>1, <2>2 DEF CallKnown
  <2>4. \A u \in Callers \ {t} : CallKnown(u)'
    BY <1>1, <2>2, Stages DEF CallsKnown, CallKnown
  <2>5. task'[Worker] = task[Worker]
    BY <2>2, Stages DEF MysaAssumption
  <2> QED
    BY <1>1, <2>3, <2>4, <2>5 DEF CallsKnown
<1> QED
  BY <1>2, <1>3, <1>4, <1>5, <1>6, <1>7, NextCases DEF Call

-----------------------------------------------------------------------------
(* The channel.                                                            *)

Stays == queue' = queue
Gets(kind, d) == queue' = Append(queue, [kind |-> kind, dev |-> d])
Drops == queue # <<>> /\ queue' = Tail(queue)

(* A step puts no Subscribe into the channel but that of a stored device.  *)
LEMMA QueueSteps ==
  ASSUME MysaAssumption, IInv, Next
  PROVE  \/ Stays \/ Drops
         \/ \E d \in Devices \cup {None} : Gets("publish", d)
         \/ \E d \in known : Gets("subscribe", d)
<1>1. TaskTyped /\ RestTyped /\ CallsKnown
  BY Typed DEF IInv
<1>2. OtherCommand => Gets("publish", None)
  BY DEF OtherCommand, Enqueue, Gets
<1>3. Outside => OtherCommand \/ Stays
  BY DEF Outside, Expire, LogOut, Break, ChangeByHand, Telemetry, Stays
<1>4. Takes => Stays \/ Drops
  BY DEF Takes, Receive, TakeSubscribe, TakePublish, Stays, Drops
<1>5. (Connect \/ PublishFails) => Stays \/ Drops
  BY DEF Connect, Dial, Snapshot, SubscribeAll, Closed, Wake, PublishFails, EndSession,
         Stays, Drops
<1>6. \A t \in Tasks : Auth(t) => Stays
  BY DEF Auth, ReadSession, LockSession, Renew, Exchange, AuthFails, Stays
<1>7. ASSUME NEW t \in Tasks, Call(t)
      PROVE  \/ Stays
             \/ \E d \in Devices \cup {None} : Gets("publish", d)
             \/ \E d \in known : Gets("subscribe", d)
  <2>1. t \in Callers
    BY <1>1, <1>7, CallMoves, OnlyCallers DEF Call, Fetch, Ops
  <2>2. task[t].dev \in known /\ task[t].dev \in Devices
    BY <1>1, <1>7, <2>1 DEF Call, Announce, Publish, Post, Fetch, Insert, CallsKnown, CallKnown,
                            RestTyped
  <2>3. Announce(t) => Gets("subscribe", task[t].dev) \/ Stays
    BY DEF Announce, Enqueue, Gets, Stays
  <2>4. Publish(t) => Gets("publish", task[t].dev) \/ Stays
    BY DEF Publish, Enqueue, Gets, Stays
  <2>5. Post(t) \/ Fetch(t) \/ Insert(t) => Stays
    BY DEF Post, Fetch, Insert, Stays
  <2> QED
    BY <1>7, <2>2, <2>3, <2>4, <2>5 DEF Call
<1>8. \A t \in Callers, d \in Devices : Starts(t, d) => Stays
  BY DEF Starts, AddDevice, Command, Poll, Stays
<1> QED
  BY <1>2, <1>3, <1>4, <1>5, <1>6, <1>7, <1>8, NextCases

LEMMA NextQueueKnown ==
  ASSUME MysaAssumption, IInv, Next
  PROVE  QueueKnown'
<1>1. queue \in Seq(Commands) /\ QueueKnown /\ known \subseteq known' /\ known \subseteq Devices
  BY KnownGrows DEF IInv, TypeOK
<1> SUFFICES ASSUME NEW i \in 1..Len(queue'), queue'[i].kind = "subscribe"
             PROVE  queue'[i].dev \in known'
  BY DEF QueueKnown
<1>2. CASE Stays
  BY <1>1, <1>2 DEF Stays, QueueKnown
<1>3. CASE Drops
  <2>1. Len(queue') = Len(queue) - 1 /\ queue'[i] = queue[i + 1]
    BY <1>1, <1>3 DEF Drops
  <2>2. i + 1 \in 1..Len(queue)
    BY <1>1, <2>1
  <2> QED
    BY <1>1, <2>1, <2>2 DEF QueueKnown
<1>4. ASSUME NEW kind \in {"publish", "subscribe"}, NEW d \in Devices \cup {None},
             kind = "subscribe" => d \in known, Gets(kind, d)
      PROVE  queue'[i].dev \in known'
  <2>1. PICK c : c = [kind |-> kind, dev |-> d]
    OBVIOUS
  <2>2. queue' = Append(queue, c) /\ c \in Commands /\ c.kind = kind /\ c.dev = d
    BY <1>4, <2>1 DEF Gets, Commands
  <2>3. CASE i = Len(queue) + 1
    <3>1. queue'[i] = c
      BY <1>1, <2>2, <2>3
    <3> QED
      BY <1>1, <1>4, <2>2, <3>1
  <2>4. CASE i # Len(queue) + 1
    <3>1. i \in 1..Len(queue) /\ queue'[i] = queue[i]
      BY <1>1, <2>2, <2>4
    <3> QED
      BY <1>1, <3>1 DEF QueueKnown
  <2> QED
    BY <2>3, <2>4
<1> QED
  BY <1>1, <1>2, <1>3, <1>4, QueueSteps

-----------------------------------------------------------------------------
(* What the worker has to hear of.                                         *)

(* No caller leaves its announcement.                                      *)
NoneAnnounces == \A t \in Callers : task[t].pc = "announce" => task'[t] = task[t]
QueueKept == queue' = queue \/ \E c \in Commands : queue' = Append(queue, c)

LEMMA ToldStays ==
  ASSUME queue \in Seq(Commands), QueueKept, NoneAnnounces, NEW d, Told(d)
  PROVE  Told(d)'
<1>1. ASSUME NEW i \in 1..Len(queue), queue[i] = SubscribeOf(d)
      PROVE  Told(d)'
  <2>1. i \in 1..Len(queue') /\ queue'[i] = queue[i]
    BY DEF QueueKept
  <2> QED
    BY <1>1, <2>1 DEF Told, SubscribeOf
<1>2. ASSUME NEW t \in Callers, Announces(t, d)
      PROVE  Told(d)'
  BY <1>2 DEF NoneAnnounces, Announces, Told
<1> QED
  BY <1>1, <1>2 DEF Told

LEMMA ToldAfterTail ==
  ASSUME queue \in Seq(Commands), queue # <<>>, queue' = Tail(queue), NoneAnnounces,
         NEW d, Head(queue) # SubscribeOf(d), Told(d)
  PROVE  Told(d)'
<1>1. ASSUME NEW i \in 1..Len(queue), queue[i] = SubscribeOf(d)
      PROVE  Told(d)'
  <2>1. i # 1
    BY <1>1
  <2>2. i - 1 \in 1..Len(queue') /\ queue'[i - 1] = queue[i]
    BY <2>1
  <2> QED
    BY <1>1, <2>2 DEF Told, SubscribeOf
<1>2. ASSUME NEW t \in Callers, Announces(t, d)
      PROVE  Told(d)'
  BY <1>2 DEF NoneAnnounces, Announces, Told
<1> QED
  BY <1>1, <1>2 DEF Told

(* A step after which the connection was there before it, and that takes   *)
(* nothing from what covers the devices.                                   *)
CoverKept ==
  /\ known' = known /\ topics' = topics /\ skipped' = skipped
  /\ QueueKept /\ NoneAnnounces
  /\ Connected' => Connected

LEMMA KeptCovered ==
  ASSUME queue \in Seq(Commands), Covered, CoverKept
  PROVE  Covered'
  BY ToldStays DEF Covered, CoverKept

(* A task that was not announcing anything moves.                          *)
LEMMA MovedAnnounces ==
  ASSUME MysaAssumption, NEW t \in Tasks, NEW stage, Moved(t, stage),
         task[t].pc # "announce"
  PROVE  NoneAnnounces
  BY Stages DEF Moved, NoneAnnounces

LEMMA CallersLeaveLink ==
  ASSUME MysaAssumption, NEW t \in Callers, NEW stage, Moved(t, stage), link' = link
  PROVE  Connected' => Connected
  BY Stages DEF Moved, Connected, MysaAssumption

LEMMA OutsideCovered ==
  ASSUME IInv, Outside
  PROVE  Covered'
<1>1. task' = task /\ known' = known /\ topics' = topics /\ skipped' = skipped
  BY DEF Outside, Expire, LogOut, Break, OtherCommand, ChangeByHand, Telemetry, linkVars
<1>2. link' = link \/ link' = "broken"
  BY DEF Outside, Expire, LogOut, Break, OtherCommand, ChangeByHand, Telemetry, linkVars
<1>3. QueueKept
  <2>1. OtherCommand => queue' = Append(queue, [kind |-> "publish", dev |-> None])
    BY DEF OtherCommand, Enqueue
  <2>2. [kind |-> "publish", dev |-> None] \in Commands
    BY DEF Commands
  <2>3. Outside => OtherCommand \/ queue' = queue
    BY DEF Outside, Expire, LogOut, Break, ChangeByHand, Telemetry
  <2> QED
    BY <2>1, <2>2, <2>3 DEF QueueKept
<1>4. CoverKept
  BY <1>1, <1>2, <1>3 DEF CoverKept, NoneAnnounces, Connected
<1> QED
  BY <1>4, KeptCovered DEF IInv, TypeOK

LEMMA TakesCovered ==
  ASSUME IInv, Takes
  PROVE  Covered'
<1>1. queue \in Seq(Commands) /\ Covered
  BY DEF IInv, TypeOK
<1>2. task' = task /\ known' = known /\ skipped' = skipped /\ link' = link /\ NoneAnnounces
  BY DEF Takes, Receive, TakeSubscribe, TakePublish, NoneAnnounces
<1>3. Connected' => Connected
  BY <1>2 DEF Connected
<1>4. CASE Receive
  <2>1. CoverKept
    BY <1>2, <1>3, <1>4 DEF Receive, CoverKept, QueueKept
  <2> QED
    BY <1>1, <2>1, KeptCovered
<1>5. CASE TakeSubscribe
  <2> SUFFICES ASSUME Connected', NEW d \in known' \ (topics' \cup skipped')
               PROVE  Told(d)'
    BY DEF Covered
  <2>1. link = "up" /\ topics' = topics \cup {Head(queue).dev}
    BY <1>3, <1>5 DEF Connected, TakeSubscribe
  <2>2. Told(d) /\ d # Head(queue).dev
    BY <1>1, <1>2, <1>3, <2>1 DEF Covered
  <2>3. Head(queue) # SubscribeOf(d)
    BY <2>2 DEF SubscribeOf
  <2> QED
    BY <1>1, <1>2, <1>5, <2>2, <2>3, ToldAfterTail DEF TakeSubscribe
<1>6. CASE TakePublish
  <2> SUFFICES ASSUME Connected', NEW d \in known' \ (topics' \cup skipped')
               PROVE  Told(d)'
    BY DEF Covered
  <2>1. topics' = topics /\ Head(queue).kind = "publish"
    BY <1>6 DEF TakePublish
  <2>2. Told(d)
    BY <1>1, <1>2, <1>3, <2>1 DEF Covered
  <2>3. Head(queue) # SubscribeOf(d)
    BY <2>1 DEF SubscribeOf
  <2> QED
    BY <1>1, <1>2, <1>6, <2>2, <2>3, ToldAfterTail DEF TakePublish
<1> QED
  BY <1>4, <1>5, <1>6 DEF Takes

LEMMA ConnectCovered ==
  ASSUME MysaAssumption, IInv, Connect \/ PublishFails
  PROVE  Covered'
<1>1. TaskTyped /\ Covered /\ queue \in Seq(Commands)
  BY Typed DEF IInv, TypeOK
<1>2. CASE Snapshot
  BY <1>2 DEF Snapshot, Covered
<1>3. CASE SubscribeAll
  <2>1. Moved(Worker, "run") /\ task[Worker].pc # "announce"
    BY <1>1, <1>3, ConnectMoves DEF SubscribeAll
  <2>2. NoneAnnounces
    BY <2>1, MovedAnnounces, Stages
  <2>3. CoverKept
    BY <1>3, <2>2 DEF SubscribeAll, CoverKept, QueueKept, Connected, linkVars
  <2> QED
    BY <1>1, <2>3, KeptCovered
<1>4. CASE Dial \/ Closed \/ PublishFails \/ Wake
  <2>1. task'[Worker].pc \in {"subscribe", "down", "auth"}
    BY <1>1, <1>4, ConnectMoves DEF Moved
  <2> QED
    BY <2>1 DEF Covered, Connected
<1> QED
  BY <1>2, <1>3, <1>4 DEF Connect

LEMMA AuthCovered ==
  ASSUME MysaAssumption, IInv, NEW t \in Tasks, Auth(t)
  PROVE  Covered'
<1>1. TaskTyped /\ Covered /\ queue \in Seq(Commands)
  BY Typed DEF IInv, TypeOK
<1>2. PICK stage \in {"ready", "lock", "renew", "exchange", "down", "idle"} : Moved(t, stage)
  BY <1>1, AuthMoves DEF Auth
<1>3. CASE t = Worker
  BY <1>2, <1>3 DEF Moved, Covered, Connected
<1>4. CASE t # Worker
  <2>1. t \in Callers /\ task[t].pc # "announce"
    BY <1>4 DEF Tasks, Auth, ReadSession, LockSession, Renew, Exchange, AuthFails
  <2>2. NoneAnnounces
    BY <1>2, <2>1, MovedAnnounces
  <2>3. /\ known' = known /\ topics' = topics /\ skipped' = skipped
        /\ queue' = queue /\ link' = link
    BY DEF Auth, ReadSession, LockSession, Renew, Exchange, AuthFails, linkVars
  <2>4. Connected' => Connected
    BY <1>2, <2>1, <2>3, CallersLeaveLink
  <2>5. CoverKept
    BY <2>2, <2>3, <2>4 DEF CoverKept, QueueKept
  <2> QED
    BY <1>1, <2>5, KeptCovered
<1> QED
  BY <1>3, <1>4

LEMMA AnnounceCovered ==
  ASSUME MysaAssumption, IInv, NEW t \in Tasks, Announce(t)
  PROVE  Covered'
<1>1. TaskTyped /\ CallsKnown /\ Covered /\ queue \in Seq(Commands)
  BY Typed DEF IInv, TypeOK
<1>2. t \in Callers /\ Moved(t, "idle")
  BY <1>1, CallMoves
<1>3. known' = known /\ topics' = topics /\ link' = link
  BY DEF Announce, linkVars
<1>4. Connected' => Connected
  BY <1>2, <1>3, CallersLeaveLink
<1> SUFFICES ASSUME Connected', NEW d \in known' \ (topics' \cup skipped')
             PROVE  Told(d)'
  BY DEF Covered
<1>5. \A u \in Callers \ {t} : task'[u] = task[u]
  BY <1>2, Stages DEF Moved
<1>6. skipped \subseteq skipped'
  BY DEF Announce
<1>7. Told(d)
  BY <1>1, <1>3, <1>4, <1>6 DEF Covered
<1>8. CASE HasRoom
  <2>1. queue' = Append(queue, SubscribeOf(task[t].dev))
    BY <1>8 DEF Announce, Enqueue, SubscribeOf
  <2>2. CASE \E i \in 1..Len(queue) : queue[i] = SubscribeOf(d)
    <3>1. PICK i \in 1..Len(queue) : queue[i] = SubscribeOf(d)
      BY <2>2
    <3>2. i \in 1..Len(queue') /\ queue'[i] = queue[i]
      BY <1>1, <2>1
    <3> QED
      BY <3>1, <3>2 DEF Told, SubscribeOf
  <2>3. CASE Announces(t, d)
    <3>1. Len(queue) + 1 \in 1..Len(queue') /\ queue'[Len(queue) + 1] = SubscribeOf(task[t].dev)
      BY <1>1, <2>1
    <3> QED
      BY <2>3, <3>1 DEF Told, SubscribeOf, Announces
  <2>4. ASSUME NEW u \in Callers \ {t}, Announces(u, d)
        PROVE  Told(d)'
    BY <1>5, <2>4 DEF Told, Announces
  <2> QED
    BY <1>7, <2>2, <2>3, <2>4 DEF Told
<1>9. CASE ~HasRoom
  <2>1. queue' = queue /\ skipped' = skipped \cup {task[t].dev}
    BY <1>9 DEF Announce
  <2>2. ~Announces(t, d)
    BY <2>1 DEF Announces
  <2> QED
    BY <1>5, <1>7, <2>1, <2>2 DEF Told, Announces, SubscribeOf
<1> QED
  BY <1>8, <1>9

LEMMA CallCovered ==
  ASSUME MysaAssumption, IInv, NEW t \in Tasks, Call(t)
  PROVE  Covered'
<1>1. TaskTyped /\ RestTyped /\ CallsKnown /\ Covered /\ queue \in Seq(Commands)
  BY Typed DEF IInv, TypeOK
<1>2. CASE Announce(t)
  BY <1>2, AnnounceCovered
<1>3. CASE Publish(t) \/ Post(t) \/ Fetch(t) \/ Insert(t)
  <2>1. t \in Callers /\ task[t].pc # "announce"
    BY <1>1, <1>3, OnlyCallers DEF Publish, Post, Fetch, Insert, Ops
  <2>2. /\ \A u \in Tasks \ {t} : task'[u] = task[u]
    <3>1. \A st : st \in Heard /\ Answered(t, st) => \A u \in Tasks \ {t} : task'[u] = task[u]
      BY <1>1, <2>1, AnsweredMoves
    <3>2. task[t].dev \in Devices
      BY <1>1, <1>3, <2>1 DEF Publish, Post, Fetch, Insert, CallsKnown, CallKnown, RestTyped
    <3>3. device[task[t].dev] \in Heard /\ Default \in Heard
      BY <1>1, <3>2 DEF RestTyped, States, Heard, Default, Modes
    <3>4. Failed(t) => \A u \in Tasks \ {t} : task'[u] = task[u]
      BY <1>1, FailedMoves DEF Moved
    <3>5. Fetch(t) => \A u \in Tasks \ {t} : task'[u] = task[u]
      BY <3>1, <3>3, <3>4 DEF Fetch
    <3> QED
      BY <1>1, <1>3, <3>5, CallMoves DEF Moved
  <2>3. NoneAnnounces
    BY <2>1, <2>2, Stages DEF NoneAnnounces
  <2>4. known' = known /\ topics' = topics /\ skipped' = skipped /\ link' = link
    BY <1>3 DEF Publish, Post, Fetch, Insert, linkVars
  <2>5. task'[Worker] = task[Worker]
    BY <2>1, <2>2, Stages DEF MysaAssumption
  <2>6. Connected' => Connected
    BY <2>4, <2>5 DEF Connected
  <2>7. QueueKept
    <3>1. [kind |-> "publish", dev |-> task[t].dev] \in Commands
      BY <1>1 DEF Commands, TaskTyped, TaskSet
    <3> QED
      BY <1>3, <3>1 DEF Publish, Enqueue, Post, Fetch, Insert, QueueKept
  <2> QED
    BY <1>1, <2>3, <2>4, <2>6, <2>7, KeptCovered DEF CoverKept
<1> QED
  BY <1>2, <1>3 DEF Call

LEMMA StartsCovered ==
  ASSUME MysaAssumption, IInv, NEW t \in Callers, NEW d \in Devices, Starts(t, d)
  PROVE  Covered'
<1>1. TaskTyped /\ Covered /\ queue \in Seq(Commands)
  BY Typed DEF IInv, TypeOK
<1>2. /\ \A u \in Tasks \ {t} : task'[u] = task[u]
      /\ task[t].pc = "idle" /\ task'[t].dev = d
  BY <1>1, StartsMoves DEF Starts, Started
<1>3. NoneAnnounces
  BY <1>2, Stages DEF NoneAnnounces
<1>4. queue' = queue /\ topics' = topics /\ skipped' = skipped /\ link' = link
  BY DEF Starts, AddDevice, Command, Poll, linkVars
<1>5. task'[Worker] = task[Worker]
  BY <1>2, Stages DEF MysaAssumption
<1>6. Connected' => Connected
  BY <1>4, <1>5 DEF Connected
<1>7. CASE AddDevice(t, d)
  <2> SUFFICES ASSUME Connected', NEW e \in known' \ (topics' \cup skipped')
               PROVE  Told(e)'
    BY DEF Covered
  <2>1. CASE e = d
    <3>1. task'[t].pc = "announce" /\ task'[t].dev = d
      BY <1>1, <1>7, StartsMoves DEF Started
    <3> QED
      BY <2>1, <3>1 DEF Told, Announces
  <2>2. CASE e # d
    <3>1. e \in known \ (topics \cup skipped)
      BY <1>4, <1>7, <2>2 DEF AddDevice
    <3>2. Told(e) /\ QueueKept
      BY <1>1, <1>4, <1>6, <3>1 DEF Covered, QueueKept
    <3> QED
      BY <1>1, <1>3, <3>2, ToldStays
  <2> QED
    BY <2>1, <2>2
<1>8. CASE Command(t, d) \/ Poll(t, d)
  <2>1. CoverKept
    BY <1>3, <1>4, <1>6, <1>8 DEF CoverKept, QueueKept, Command, Poll
  <2> QED
    BY <1>1, <2>1, KeptCovered
<1> QED
  BY <1>7, <1>8 DEF Starts

-----------------------------------------------------------------------------
LEMMA InitInv == MysaAssumption /\ Init => IInv
<1> SUFFICES ASSUME MysaAssumption, Init PROVE IInv
  OBVIOUS
<1>1. \A t \in Tasks : task[t] = At(IF t = Worker THEN "auth" ELSE "idle", None, None)
  BY DEF Init
<1>2. TaskTyped
  <2>1. /\ At("auth", None, None) \in TaskSet /\ At("auth", None, None).pc = "auth"
        /\ At("idle", None, None) \in TaskSet /\ At("idle", None, None).pc = "idle"
    BY DEF At, TaskSet, WorkerStages, CallerStages
  <2>2. \A t \in Tasks : task[t] \in TaskSet
    BY <1>1, <2>1
  <2>3. \A t \in Tasks : task[t].pc \in StagesOf(t)
    BY <1>1, <2>1 DEF StagesOf, WorkerStages, CallerStages
  <2>4. task = [t \in Tasks |-> At(IF t = Worker THEN "auth" ELSE "idle", None, None)]
    BY DEF Init
  <2> QED
    BY <2>2, <2>3, <2>4 DEF TaskTyped
<1>3. RestTyped
  <2>1. device \in [Devices -> States]
    BY DEF Init, States, Setpoints, MysaAssumption
  <2>2. /\ changes \in 0..MaxChanges /\ faults \in 0..MaxFaults
        /\ expiries \in 0..MaxExpiries /\ logouts \in 0..MaxLogouts
    BY DEF Init, MysaAssumption
  <2>3. /\ queue \in Seq(Commands) /\ Len(queue) <= QueueCapacity
        /\ inbox \in Seq(Messages) /\ Len(inbox) <= MaxInbox
    BY DEF Init, MysaAssumption
  <2> QED
    BY <2>1, <2>2, <2>3 DEF Init, RestTyped
<1>4. CallsKnown /\ Covered
  <2>1. task[Worker].op = None /\ task[Worker].pc = "auth"
    <3>1. task[Worker] = At("auth", None, None)
      BY <1>1, Stages
    <3> QED
      BY <3>1 DEF At
  <2>2. \A t \in Callers : task[t].pc = "idle"
    <3>1. \A t \in Callers : task[t] = At("idle", None, None)
      BY <1>1, Stages DEF MysaAssumption
    <3> QED
      BY <3>1 DEF At
  <2> QED
    BY <2>1, <2>2 DEF CallsKnown, CallKnown, Covered, Connected
<1>5. QueueKnown
  BY DEF Init, QueueKnown
<1> QED
  BY <1>2, <1>3, <1>4, <1>5, Typed DEF IInv

LEMMA StutterInv ==
  ASSUME IInv, UNCHANGED vars
  PROVE  IInv'
<1>1. /\ creds' = creds /\ refreshable' = refreshable /\ writer' = writer
      /\ task' = task /\ known' = known /\ queue' = queue /\ skipped' = skipped
      /\ link' = link /\ topics' = topics /\ inbox' = inbox
      /\ cache' = cache /\ device' = device /\ changes' = changes
      /\ faults' = faults /\ expiries' = expiries /\ logouts' = logouts
  BY DEF vars, authVars, linkVars, bounds
<1>2. TypeOK'
  BY <1>1 DEF IInv, TypeOK
<1>3. CallsKnown' /\ QueueKnown' /\ Covered'
  BY <1>1 DEF IInv, CallsKnown, CallKnown, QueueKnown, Covered, Connected, Told, Announces
<1> QED
  BY <1>2, <1>3 DEF IInv

LEMMA NextInv ==
  ASSUME MysaAssumption, IInv, [Next]_vars
  PROVE  IInv'
<1>1. CASE Next
  <2>2. TypeOK'
    <3>1. TaskTyped' /\ RestTyped'
      BY <1>1, NextTyped
    <3> QED
      BY <3>1 DEF MysaAssumption, TypeOK, TaskTyped, RestTyped, TaskSet, StagesOf, Tasks
  <2>3. CallsKnown' /\ QueueKnown'
    BY <1>1, NextCallsKnown, NextQueueKnown
  <2>4. Covered'
    BY <1>1, NextCases, OutsideCovered, TakesCovered, ConnectCovered, AuthCovered, CallCovered,
       StartsCovered
  <2> QED
    BY <2>2, <2>3, <2>4 DEF IInv
<1>2. CASE UNCHANGED vars
  BY <1>2, StutterInv
<1> QED
  BY <1>1, <1>2

LEMMA Invariant == ASSUME MysaAssumption PROVE Spec => []IInv
<1>1. Init => IInv
  BY InitInv
<1>2. IInv /\ [Next]_vars => IInv'
  BY NextInv
<1> QED
  BY <1>1, <1>2, PTL DEF Spec

(* Type correctness: what a message or a poll puts into the cache is a     *)
(* whole state (mqtt.rs:264), only stored devices are subscribed, and the  *)
(* channel keeps to its capacity.                                          *)
THEOREM TypeCorrect == ASSUME MysaAssumption PROVE Spec => []TypeOK
<1>1. IInv => TypeOK
  BY DEF IInv
<1> QED
  BY <1>1, Invariant, PTL

(* NothingUnsubscribed: add_device stores the id before it tells the       *)
(* worker, and subscribe_all collects the ids before the worker reads its  *)
(* channel, so a device is in the snapshot or its Subscribe comes later.   *)
THEOREM NoDeviceIsForgotten == ASSUME MysaAssumption PROVE Spec => []NothingUnsubscribed
<1>1. IInv => NothingUnsubscribed
  <2> SUFFICES ASSUME IInv, task[Worker].pc = "run", link = "up",
                      NEW d \in known \ (topics \cup skipped)
               PROVE  \/ \E i \in DOMAIN queue : queue[i] = [kind |-> "subscribe", dev |-> d]
                      \/ \E t \in Callers : task[t].pc = "announce" /\ task[t].dev = d
    BY DEF NothingUnsubscribed
  <2>1. Told(d)
    BY DEF IInv, Covered, Connected
  <2>2. DOMAIN queue = 1..Len(queue)
    BY DEF IInv, TypeOK
  <2> QED
    BY <2>1, <2>2 DEF Told, SubscribeOf, Announces
<1> QED
  BY <1>1, Invariant, PTL

(* The task that refreshes has the write lock, so one task at most does,   *)
(* and nothing expires on it between the two halves.                       *)
Refreshing ==
  \A t \in Tasks : task[t].pc \in {"renew", "exchange"} =>
    /\ writer = t
    /\ (task[t].pc = "exchange" /\ creds # None) => creds.id # "expired"

(* Steps that leave the session alone and bring no task to its refresh.    *)
LEMMA QuietRefreshing ==
  ASSUME Refreshing, creds' = creds, writer' = writer,
         \A t \in Tasks : task'[t].pc \in {"renew", "exchange"} => task'[t].pc = task[t].pc
  PROVE  Refreshing'
BY DEF Refreshing

LEMMA CallRefreshing ==
  ASSUME MysaAssumption, IInv, Refreshing, NEW u \in Tasks, Call(u)
  PROVE  Refreshing'
<1>1. TaskTyped /\ RestTyped /\ CallsKnown
  BY Typed DEF IInv
<1>2. creds' = creds /\ writer' = writer
  BY DEF Call, Announce, Publish, Post, Fetch, Insert, authVars
<1>3. CASE Announce(u) \/ Publish(u) \/ Post(u) \/ Insert(u)
  BY <1>1, <1>2, <1>3, CallMoves, QuietRefreshing DEF Moved
<1>4. CASE Fetch(u)
  <2>1. u \in Callers
    BY <1>1, <1>4, OnlyCallers DEF Fetch, Ops
  <2>2. task[u].dev \in Devices
    BY <1>1, <1>4, <2>1 DEF Fetch, CallsKnown, CallKnown, RestTyped
  <2>3. device[task[u].dev] \in Heard /\ Default \in Heard
    BY <1>1, <2>2 DEF RestTyped, States, Heard, Default, Modes
  <2>4. \A st \in Heard : Answered(u, st) => Refreshing'
    BY <1>1, <1>2, <2>1, AnsweredMoves, QuietRefreshing
  <2>5. Failed(u) => Refreshing'
    BY <1>1, <1>2, FailedMoves, QuietRefreshing DEF Moved
  <2> QED
    BY <1>4, <2>3, <2>4, <2>5 DEF Fetch
<1> QED
  BY <1>3, <1>4 DEF Call

LEMMA AuthRefreshing ==
  ASSUME MysaAssumption, IInv, Refreshing, NEW u \in Tasks, Auth(u)
  PROVE  Refreshing'
<1>1. TaskTyped /\ RestTyped
  BY Typed DEF IInv
<1>2. CASE ReadSession(u)
  <2>1. creds' = creds /\ writer' = writer
    BY <1>2 DEF ReadSession, authVars
  <2> QED
    BY <1>1, <1>2, <2>1, AuthMoves, QuietRefreshing DEF Moved
<1>3. CASE LockSession(u)
  <2>1. \A t \in Tasks : task[t].pc \notin {"renew", "exchange"}
    BY <1>3 DEF LockSession, Refreshing, MysaAssumption
  <2>2. Moved(u, IF Fresh THEN "ready" ELSE "renew")
    BY <1>1, <1>3, AuthMoves
  <2>3. ~Fresh => writer' = u
    BY <1>3 DEF LockSession
  <2> QED
    BY <2>1, <2>2, <2>3 DEF Moved, Refreshing
<1>4. CASE Renew(u)
  <2>1. writer = u /\ writer' = u
    BY <1>4 DEF Renew, Refreshing
  <2>2. Moved(u, "exchange")
    BY <1>1, <1>4, AuthMoves
  <2>3. creds' # None => creds'.id # "expired"
    <3>1. CASE creds = None
      BY <1>4, <3>1 DEF Renew
    <3>2. CASE creds # None
      <4>1. PICK id \in IdTokens : IdToken(id) /\ creds' = [creds EXCEPT !.id = id]
        BY <1>4, <3>2 DEF Renew
      <4>2. creds \in Sessions /\ id # "expired"
        BY <1>1, <3>2, <4>1 DEF RestTyped, IdToken
      <4> QED
        BY <4>1, <4>2 DEF Sessions
    <3> QED
      BY <3>1, <3>2
  <2> QED
    BY <2>1, <2>2, <2>3 DEF Moved, Refreshing
<1>5. CASE Exchange(u) \/ AuthFails(u)
  <2>1. writer = u
    BY <1>5 DEF Exchange, AuthFails, Refreshing
  <2>2. Moved(u, "ready") \/ Moved(u, "down") \/ Moved(u, "idle")
    BY <1>1, <1>5, AuthMoves
  <2> QED
    BY <2>1, <2>2 DEF Moved, Refreshing
<1> QED
  BY <1>2, <1>3, <1>4, <1>5 DEF Auth

LEMMA NextRefreshing ==
  ASSUME MysaAssumption, IInv, Refreshing, [Next]_vars
  PROVE  Refreshing'
<1>1. TaskTyped /\ RestTyped /\ CallsKnown
  BY Typed DEF IInv
<1>2. CASE Outside
  <2>1. task' = task
    BY <1>2 DEF Outside, Expire, LogOut, Break, OtherCommand, ChangeByHand, Telemetry
  <2>2. CASE Expire
    <3>1. \A t \in Tasks : task[t].pc \notin {"renew", "exchange"}
      BY <2>2 DEF Expire, Refreshing, MysaAssumption
    <3> QED
      BY <2>1, <3>1 DEF Refreshing
  <2>3. CASE ~Expire
    <3>1. creds' = creds /\ writer' = writer
      BY <1>2, <2>3 DEF Outside, LogOut, Break, OtherCommand, ChangeByHand, Telemetry, authVars
    <3> QED
      BY <2>1, <3>1, QuietRefreshing
  <2> QED
    BY <2>2, <2>3
<1>3. CASE Takes
  <2>1. task' = task /\ creds' = creds /\ writer' = writer
    BY <1>3 DEF Takes, Receive, TakeSubscribe, TakePublish, authVars
  <2> QED
    BY <2>1, QuietRefreshing
<1>4. CASE Connect \/ PublishFails
  <2>1. creds' = creds /\ writer' = writer
    BY <1>4 DEF Connect, Dial, Snapshot, SubscribeAll, Closed, Wake, PublishFails, EndSession,
       authVars
  <2>2. \E stage \in {"subscribe", "subscribing", "run", "down", "auth"} : Moved(Worker, stage)
    BY <1>1, <1>4, ConnectMoves DEF Connect
  <2> QED
    BY <2>1, <2>2, QuietRefreshing DEF Moved
<1>5. ASSUME NEW u \in Callers, NEW d \in Devices, Starts(u, d)
      PROVE  Refreshing'
  <2>1. creds' = creds /\ writer' = writer
    BY <1>5 DEF Starts, AddDevice, Command, Poll, authVars
  <2>2. \E o \in Ops, stage \in {"announce", "auth"} : Started(u, o, d, stage)
    BY <1>1, <1>5, StartsMoves DEF Starts, Ops
  <2> QED
    BY <2>1, <2>2, QuietRefreshing DEF Started
<1>6. CASE UNCHANGED vars
  BY <1>6 DEF vars, authVars, Refreshing
<1> QED
  BY <1>2, <1>3, <1>4, <1>5, <1>6, NextCases, AuthRefreshing, CallRefreshing

LEMMA OneRefreshes == ASSUME MysaAssumption PROVE Spec => [](IInv /\ Refreshing)
<1>1. Init => Refreshing
  BY DEF Init, Refreshing, At
<1>2. IInv /\ Refreshing /\ [Next]_vars => Refreshing'
  BY NextRefreshing
<1> QED
  BY <1>1, <1>2, Invariant, PTL DEF Spec

(* CredentialsFresh: whoever leaves ensure_auth has looked at both tokens  *)
(* under the lock, or has just exchanged one for the other under it, the   *)
(* id token being as new as its own refresh (plugin.rs:58-90).             *)
THEOREM NoExpiredCredentials == ASSUME MysaAssumption PROVE Spec => CredentialsFresh
<1>1. ASSUME IInv, Refreshing, Next,
             NEW t \in Tasks, task[t].pc # "ready", task'[t].pc = "ready"
      PROVE  creds' # None /\ creds'.id # "expired" /\ creds'.aws
  <2>1. TaskTyped /\ RestTyped /\ CallsKnown
    BY <1>1, Typed DEF IInv
  <2>2. ~Outside /\ ~Takes
    BY <1>1 DEF Outside, Expire, LogOut, Break, OtherCommand, ChangeByHand, Telemetry,
                Takes, Receive, TakeSubscribe, TakePublish
  <2>3. ~Connect /\ ~PublishFails
    BY <1>1, <2>1, ConnectMoves DEF Connect, Moved
  <2>4. \A u \in Callers, d \in Devices : ~Starts(u, d)
    BY <1>1, <2>1, StartsMoves DEF Starts, Started
  <2>5. \A u \in Tasks : ~Call(u)
    <3>1. ASSUME NEW u \in Tasks, Announce(u) \/ Publish(u) \/ Post(u) \/ Insert(u)
          PROVE  FALSE
      BY <1>1, <2>1, <3>1, CallMoves DEF Moved
    <3>2. ASSUME NEW u \in Tasks, Fetch(u)
          PROVE  FALSE
      <4>1. u \in Callers
        BY <2>1, <3>2, OnlyCallers DEF Fetch, Ops
      <4>2. task[u].dev \in Devices
        BY <2>1, <3>2, <4>1 DEF Fetch, CallsKnown, CallKnown, RestTyped
      <4>3. device[task[u].dev] \in Heard /\ Default \in Heard
        BY <2>1, <4>2 DEF RestTyped, States, Heard, Default, Modes
      <4>4. \A st \in Heard : ~Answered(u, st)
        BY <1>1, <2>1, <4>1, AnsweredMoves
      <4>5. ~Failed(u)
        BY <1>1, <2>1, FailedMoves DEF Moved
      <4> QED
        BY <3>2, <4>3, <4>4, <4>5 DEF Fetch
    <3> QED
      BY <3>1, <3>2 DEF Call
  <2>6. PICK u \in Tasks : Auth(u)
    BY <1>1, <2>2, <2>3, <2>4, <2>5, NextCases
  <2>7. u = t
    BY <1>1, <2>1, <2>6, AuthMoves DEF Auth, Moved
  <2>8. ~Renew(t) /\ ~AuthFails(t)
    BY <1>1, <2>1, AuthMoves DEF Moved
  <2>9. CASE Exchange(t)
    <3>1. CASE creds = None
      <4>1. PICK id \in IdTokens : IdToken(id) /\ creds' = [id |-> id, aws |-> TRUE]
        BY <2>9, <3>1 DEF Exchange
      <4>2. id # "expired" /\ creds' \in Sessions
        BY <4>1 DEF IdToken, Sessions
      <4> QED
        BY <4>1, <4>2 DEF MysaAssumption
    <3>2. CASE creds # None
      <4>1. creds \in Sessions /\ creds.id # "expired"
        BY <1>1, <2>1, <2>9, <3>2 DEF Exchange, Refreshing, RestTyped
      <4>2. creds' = [creds EXCEPT !.aws = TRUE] /\ creds' \in Sessions
        BY <2>9, <3>2, <4>1 DEF Exchange, Sessions
      <4> QED
        BY <4>1, <4>2 DEF MysaAssumption, Sessions
    <3> QED
      BY <3>1, <3>2
  <2>10. CASE ReadSession(t) \/ LockSession(t)
    <3>1. Fresh /\ creds' = creds
      BY <1>1, <2>1, <2>10, AuthMoves DEF Moved, ReadSession, LockSession, authVars
    <3> QED
      BY <3>1 DEF Fresh
  <2> QED
    BY <2>6, <2>7, <2>8, <2>9, <2>10 DEF Auth
<1>2. IInv /\ Refreshing /\ [Next]_vars =>
        [\A t \in Tasks : (task[t].pc # "ready" /\ task'[t].pc = "ready") =>
           creds' # None /\ creds'.id # "expired" /\ creds'.aws]_vars
  BY <1>1
<1> QED
  BY <1>2, OneRefreshes, PTL DEF Spec, CredentialsFresh
=============================================================================
