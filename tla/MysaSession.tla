------------------------------ MODULE MysaSession ------------------------------
(***************************************************************************)
(* A Mysa account (synaptex-mysa/plugin.rs, mqtt.rs, auth.rs): the shared  *)
(* Cognito session behind its lock, the worker that keeps an MQTT          *)
(* connection and reconnects, the bounded queue of what the worker is to   *)
(* send, and the cache that messages and HTTP polls fill.                  *)
(*                                                                         *)
(* The cloud is external: it delivers what a device publishes to the       *)
(* topics the present connection has subscribed, and nothing from before.  *)
(* A device publishes a change of its mode or its setpoint on /out, and    *)
(* its setpoint and temperature from time to time on /batch.  The          *)
(* temperature travels with the setpoint and is left out; a setpoint is    *)
(* the number of times it was changed.                                     *)
(***************************************************************************)
EXTENDS Integers, Sequences, FiniteSets

CONSTANTS
  Devices,         \* thermostats of the account
  Worker,          \* run_mqtt_worker
  Callers,         \* tasks that add devices, poll and command
  None,            \* the Option is None; no task
  QueueCapacity,   \* of the worker's channel (64 in the code)
  MaxInbox,        \* bound: messages delivered and not read
  MaxChanges,      \* bound: changes of the devices, commanded or by hand
  MaxFaults,       \* bound: failed requests and lost connections
  MaxExpiries,     \* bound: expiries of the session's tokens
  MaxLogouts       \* bound: expiries of the refresh token

Tasks == {Worker} \cup Callers
Ops == {"add", "command", "poll"}

(* The id token, fresh or expired or of an expiry that could not be read,  *)
(* and whether the AWS credentials are fresh.                              *)
IdTokens == {"fresh", "unread", "expired"}
Sessions == [id : IdTokens, aws : BOOLEAN]

ASSUME MysaAssumption ==
  /\ Worker \notin Callers
  /\ None \notin Tasks /\ None \notin Ops /\ None \notin Sessions
  /\ QueueCapacity \in Nat \ {0} /\ MaxInbox \in Nat \ {0}
  /\ MaxChanges \in Nat /\ MaxFaults \in Nat /\ MaxExpiries \in Nat /\ MaxLogouts \in Nat

VARIABLES
  creds,       \* the session: None, or how fresh its two tokens are
  refreshable, \* the refresh token is accepted
  writer,      \* the task with the session's write lock
  task,        \* per task: where it is (pc), what it does, to which device,
               \* and the state its HTTP request answered
  known,       \* device_ids
  queue,       \* the channel to the worker
  skipped,     \* devices whose Subscribe found the channel full
  link,        \* the worker's connection: "none", "up", "broken"
  topics,      \* devices subscribed on it
  inbox,       \* messages on it that are not read
  cache,       \* state_cache
  device,      \* the devices themselves
  changes, faults, expiries, logouts  \* so far

authVars == <<creds, refreshable, writer>>
linkVars == <<link, topics, inbox>>
bounds == <<changes, faults, expiries, logouts>>
vars == <<authVars, task, known, queue, skipped, linkVars, cache, device, bounds>>

Modes == {"off", "heat"}
Setpoints == 0..MaxChanges
DefaultSetpoint == -1      \* 20 or 21 degrees where nothing was heard
States == [mode : Modes, sp : Setpoints]
Heard == [mode : Modes, sp : Setpoints \cup {DefaultSetpoint}]
Messages == [dev : Devices, mode : Modes \cup {None}, sp : Setpoints \cup {None}]
Commands == [kind : {"publish", "subscribe"}, dev : Devices \cup {None}]

WorkerStages == {"auth", "lock", "renew", "exchange", "ready",
                 "subscribe", "subscribing", "run", "down"}
CallerStages == {"idle", "announce", "auth", "lock", "renew", "exchange", "ready",
                 "post", "insert"}

At(stage, o, d) == [pc |-> stage, op |-> o, dev |-> d, got |-> None]

TypeOK ==
  /\ creds \in Sessions \cup {None}
  /\ refreshable \in BOOLEAN /\ writer \in Tasks \cup {None}
  /\ task \in [Tasks ->
       [pc : WorkerStages \cup CallerStages, op : Ops \cup {None},
        dev : Devices \cup {None}, got : Heard \cup {None}]]
  /\ task[Worker].pc \in WorkerStages
  /\ \A t \in Callers : task[t].pc \in CallerStages
  /\ known \subseteq Devices /\ skipped \subseteq known
  /\ queue \in Seq(Commands) /\ Len(queue) <= QueueCapacity
  /\ link \in {"none", "up", "broken"}
  /\ topics \subseteq known
  /\ inbox \in Seq(Messages) /\ Len(inbox) <= MaxInbox
  /\ cache \in [Devices -> Heard \cup {None}]
  /\ device \in [Devices -> States]
  /\ changes \in 0..MaxChanges /\ faults \in 0..MaxFaults
  /\ expiries \in 0..MaxExpiries /\ logouts \in 0..MaxLogouts

Init ==
  /\ creds = None /\ refreshable = TRUE /\ writer = None
  /\ task = [t \in Tasks |-> At(IF t = Worker THEN "auth" ELSE "idle", None, None)]
  /\ known = {} /\ queue = <<>> /\ skipped = {}
  /\ link = "none" /\ topics = {} /\ inbox = <<>>
  /\ cache = [d \in Devices |-> None]
  /\ device \in [Devices -> [mode : Modes, sp : {0}]]
  /\ changes = 0 /\ faults = 0 /\ expiries = 0 /\ logouts = 0

Goto(t, stage) ==
  task' = [task EXCEPT ![t] = IF stage = "idle" THEN At("idle", None, None)
                              ELSE [@ EXCEPT !.pc = stage]]
Fault == faults < MaxFaults /\ faults' = faults + 1

-----------------------------------------------------------------------------
(* ensure_auth.                                                            *)

(* Mutant of Fresh: the AWS credentials are not looked at.                 *)
FreshId == creds # None /\ creds.id = "fresh"

(* Neither token is about to expire, as far as the session can tell.       *)
Fresh == creds # None /\ creds.id = "fresh" /\ creds.aws

(* The read lock, then the write lock if it has to be renewed; whoever     *)
(* waited for it looks again.                                              *)
ReadSession(t) ==
  /\ task[t].pc = "auth" /\ writer = None
  /\ Goto(t, IF Fresh THEN "ready" ELSE "lock")
  /\ UNCHANGED <<authVars, known, queue, skipped, linkVars, cache, device,
                 bounds>>

LockSession(t) ==
  /\ task[t].pc = "lock" /\ writer = None
  /\ IF Fresh THEN Goto(t, "ready") /\ UNCHANGED writer
     ELSE Goto(t, "renew") /\ writer' = t
  /\ UNCHANGED <<creds, refreshable, known, queue, skipped, linkVars, cache,
                 device, bounds>>

(* jwt_exp of a new id token; one it cannot parse has the expiry 0.        *)
IdToken(id) ==
  \/ id = "fresh" /\ UNCHANGED faults
  \/ id = "unread" /\ Fault

(* The first half of authenticate, or of refresh, which keeps the new id   *)
(* token even if the exchange for AWS credentials fails after it.          *)
Renew(t) ==
  /\ task[t].pc = "renew" /\ Goto(t, "exchange")
  /\ \/ creds = None /\ UNCHANGED <<creds, faults>>
     \/ /\ creds # None /\ refreshable
        /\ \E id \in IdTokens : IdToken(id) /\ creds' = [creds EXCEPT !.id = id]
  /\ UNCHANGED <<refreshable, writer, known, queue, skipped, linkVars, cache,
                 device, changes, expiries, logouts>>

(* The second half, after which the session is taken without another look. *)
Exchange(t) ==
  /\ task[t].pc = "exchange" /\ Goto(t, "ready") /\ writer' = None
  /\ \/ /\ creds = None
        /\ \E id \in IdTokens : IdToken(id) /\ creds' = [id |-> id, aws |-> TRUE]
     \/ creds # None /\ creds' = [creds EXCEPT !.aws = TRUE] /\ UNCHANGED faults
  /\ UNCHANGED <<refreshable, known, queue, skipped, linkVars, cache, device,
                 changes, expiries, logouts>>

(* Mutant of Failed: the worker returns instead of trying again.           *)
FailedForGood(t) == Goto(t, "idle")

(* After an error a call is over, and the worker tries again in a while.   *)
Failed(t) == Goto(t, IF t = Worker THEN "down" ELSE "idle")

(* A request fails; a refresh token that has expired is never replaced.    *)
AuthFails(t) ==
  /\ task[t].pc \in {"renew", "exchange"}
  /\ \/ Fault
     \/ task[t].pc = "renew" /\ creds # None /\ ~refreshable /\ UNCHANGED faults
  /\ Failed(t) /\ writer' = None
  /\ UNCHANGED <<creds, refreshable, known, queue, skipped, linkVars, cache,
                 device, changes, expiries, logouts>>

Expire ==
  /\ creds # None /\ writer = None /\ expiries < MaxExpiries
  /\ expiries' = expiries + 1
  /\ creds' \in {[creds EXCEPT !.id = "expired"], [creds EXCEPT !.aws = FALSE]}
  /\ UNCHANGED <<refreshable, writer, task, known, queue, skipped, linkVars, cache,
                 device, changes, faults, logouts>>

(* The refresh token goes unnoticed while the others are fresh.             *)
LogOut ==
  /\ creds # None /\ ~Fresh /\ logouts < MaxLogouts /\ logouts' = logouts + 1
  /\ refreshable' = FALSE
  /\ UNCHANGED <<creds, writer, task, known, queue, skipped, linkVars, cache, device,
                 changes, faults, expiries>>

-----------------------------------------------------------------------------
(* The devices and what reaches the connection.                            *)

Message(d, mode, sp) == [dev |-> d, mode |-> mode, sp |-> sp]
InboxWith(m) == IF m.dev \in topics /\ link = "up" THEN Append(inbox, m) ELSE inbox

(* A device's mode or setpoint changes, by hand or by a command.           *)
Changed(d) ==
  /\ changes < MaxChanges /\ Len(inbox) < MaxInbox
  /\ changes' = changes + 1
  /\ \/ \E mode \in Modes :
          /\ device' = [device EXCEPT ![d].mode = mode]
          /\ inbox' = InboxWith(Message(d, mode, None))
     \/ /\ device' = [device EXCEPT ![d].sp = changes + 1]
        /\ inbox' = InboxWith(Message(d, None, changes + 1))

ChangeByHand(d) ==
  /\ Changed(d)
  /\ UNCHANGED <<authVars, task, known, queue, skipped, link, topics, cache, faults,
                 expiries, logouts>>

Telemetry(d) ==
  /\ link = "up" /\ d \in topics /\ inbox = <<>>
  /\ inbox' = <<Message(d, None, device[d].sp)>>
  /\ UNCHANGED <<authVars, task, known, queue, skipped, link, topics, cache, device,
                 bounds>>

-----------------------------------------------------------------------------
(* Calls.                                                                  *)

Start(t, o, d, stage) ==
  /\ t \in Callers /\ task[t].pc = "idle"
  /\ task' = [task EXCEPT ![t] = At(stage, o, d)]

(* add_device: the id is stored, then the worker is told.                  *)
AddDevice(t, d) ==
  /\ d \notin known /\ known' = known \cup {d}
  /\ Start(t, "add", d, "announce")
  /\ UNCHANGED <<authVars, queue, skipped, linkVars, cache, device, bounds>>

HasRoom == Len(queue) < QueueCapacity
Enqueue(kind, d) == queue' = Append(queue, [kind |-> kind, dev |-> d])

(* Mutant of Announce: only a connected worker is told.                    *)
AnnounceConnected(t) ==
  /\ task[t].pc = "announce" /\ Goto(t, "idle")
  /\ IF task[Worker].pc # "run" THEN UNCHANGED <<queue, skipped>>
     ELSE IF HasRoom THEN Enqueue("subscribe", task[t].dev) /\ UNCHANGED skipped
     ELSE UNCHANGED queue /\ skipped' = skipped \cup {task[t].dev}
  /\ UNCHANGED <<authVars, known, linkVars, cache, device, bounds>>

(* try_send; a full channel drops the Subscribe.                           *)
Announce(t) ==
  /\ task[t].pc = "announce" /\ Goto(t, "idle")
  /\ IF HasRoom THEN Enqueue("subscribe", task[t].dev) /\ UNCHANGED skipped
     ELSE UNCHANGED queue /\ skipped' = skipped \cup {task[t].dev}
  /\ UNCHANGED <<authVars, known, linkVars, cache, device, bounds>>

(* execute_command, publish_command: queued if there is room, else posted. *)
Command(t, d) ==
  /\ d \in known /\ Start(t, "command", d, "auth")
  /\ UNCHANGED <<authVars, known, queue, skipped, linkVars, cache, device, bounds>>

Publish(t) ==
  /\ task[t].pc = "ready" /\ task[t].op = "command"
  /\ IF HasRoom THEN Enqueue("publish", task[t].dev) /\ Goto(t, "idle")
     ELSE UNCHANGED queue /\ Goto(t, "post")
  /\ UNCHANGED <<authVars, known, skipped, linkVars, cache, device, bounds>>

(* A command to a thermostat that is not followed here takes its place.    *)
OtherCommand ==
  /\ Fresh /\ HasRoom /\ Enqueue("publish", None)
  /\ UNCHANGED <<authVars, task, known, skipped, linkVars, cache, device, bounds>>

Post(t) ==
  /\ task[t].pc = "post" /\ Goto(t, "idle")
  /\ \/ Changed(task[t].dev) /\ UNCHANGED faults
     \/ UNCHANGED <<device, inbox, changes, faults>>
  /\ UNCHANGED <<authVars, known, queue, skipped, link, topics, cache,
                 expiries, logouts>>

(* poll_state asks the cloud only while nothing is cached.                 *)
Poll(t, d) ==
  /\ d \in known /\ cache[d] = None /\ Start(t, "poll", d, "auth")
  /\ UNCHANGED <<authVars, known, queue, skipped, linkVars, cache, device, bounds>>

Default == [mode |-> "off", sp |-> DefaultSetpoint]

Answered(t, st) == task' = [task EXCEPT ![t].pc = "insert", ![t].got = st]

(* The answer to get_state_batch; a device it lacks is the default.        *)
Fetch(t) ==
  /\ task[t].pc = "ready" /\ task[t].op = "poll"
  /\ \/ Answered(t, device[task[t].dev]) /\ UNCHANGED faults
     \/ Answered(t, Default) /\ Fault
     \/ Failed(t) /\ Fault
  /\ UNCHANGED <<authVars, known, queue, skipped, linkVars, cache, device,
                 changes, expiries, logouts>>

Insert(t) ==
  /\ task[t].pc = "insert" /\ Goto(t, "idle")
  /\ cache' = [cache EXCEPT ![task[t].dev] = task[t].got]
  /\ UNCHANGED <<authVars, known, queue, skipped, linkVars, device, bounds>>

-----------------------------------------------------------------------------
(* The worker.                                                             *)

(* run_session: a new connection has no subscriptions.                     *)
Dial ==
  /\ task[Worker].pc = "ready"
  /\ \/ Goto(Worker, "subscribe") /\ link' = "up" /\ UNCHANGED faults
     \/ Failed(Worker) /\ Fault /\ UNCHANGED link
  /\ UNCHANGED <<authVars, known, queue, skipped, topics, inbox, cache,
                 device, changes, expiries, logouts>>

(* subscribe_all: the ids are collected, then the packets are sent.        *)
Snapshot ==
  /\ task[Worker].pc = "subscribe" /\ link = "up"
  /\ Goto(Worker, "subscribing")
  /\ topics' = known /\ skipped' = {}
  /\ UNCHANGED <<authVars, known, queue, link, inbox, cache, device, bounds>>
SubscribeAll ==
  /\ task[Worker].pc = "subscribing" /\ link = "up"
  /\ Goto(Worker, "run")
  /\ UNCHANGED <<authVars, known, queue, skipped, linkVars, cache, device,
                 bounds>>

(* The entry a message updates; the first one fills in the default.        *)
Known(d) == IF cache[d] = None THEN Default ELSE cache[d]

(* handle_publish: dispatch_json takes the fields that are there,          *)
(* dispatch_batch the setpoint.                                            *)
Receive ==
  /\ task[Worker].pc = "run" /\ inbox # <<>>
  /\ inbox' = Tail(inbox)
  /\ LET m == Head(inbox) IN
       cache' = [cache EXCEPT ![m.dev] =
         [mode |-> IF m.mode = None THEN Known(m.dev).mode ELSE m.mode,
          sp |-> IF m.sp = None THEN Known(m.dev).sp ELSE m.sp]]
  /\ UNCHANGED <<authVars, task, known, queue, skipped, link, topics, device, bounds>>

(* The worker takes the next entry of its channel.  A publish has QoS 0    *)
(* and may be lost; one that cannot be written ends the session.  A        *)
(* Subscribe that cannot be written is only logged.                        *)
TakeSubscribe ==
  /\ task[Worker].pc = "run" /\ queue # <<>> /\ Head(queue).kind = "subscribe"
  /\ queue' = Tail(queue)
  /\ topics' = IF link = "up" THEN topics \cup {Head(queue).dev} ELSE topics
  /\ UNCHANGED <<authVars, task, known, skipped, link, inbox, cache, device, bounds>>
TakePublish ==
  /\ task[Worker].pc = "run" /\ link = "up"
  /\ queue # <<>> /\ Head(queue).kind = "publish"
  /\ queue' = Tail(queue)
  /\ \/ Head(queue).dev # None /\ Changed(Head(queue).dev)
     \/ UNCHANGED <<device, inbox, changes>>
  /\ UNCHANGED <<authVars, task, known, skipped, link, topics, cache, faults, expiries,
                 logouts>>

(* The session is over: the connection is dropped with its subscriptions.  *)
EndSession(rest) ==
  /\ Failed(Worker)
  /\ link' = "none" /\ topics' = {} /\ inbox' = <<>>
  /\ queue' = rest
  /\ UNCHANGED <<authVars, known, skipped, cache, device, bounds>>
PublishFails ==
  /\ task[Worker].pc = "run" /\ link = "broken"
  /\ queue # <<>> /\ Head(queue).kind = "publish"
  /\ EndSession(Tail(queue))
Closed ==
  /\ task[Worker].pc \in {"subscribe", "subscribing", "run"} /\ link = "broken"
  /\ EndSession(queue)

(* The connection is lost, which the worker notices later.                 *)
Break ==
  /\ link = "up" /\ Fault
  /\ link' = "broken"
  /\ UNCHANGED <<authVars, task, known, queue, skipped, topics, inbox, cache, device,
                 changes, expiries, logouts>>

Wake ==
  /\ task[Worker].pc = "down" /\ Goto(Worker, "auth")
  /\ UNCHANGED <<authVars, known, queue, skipped, linkVars, cache, device,
                 bounds>>

-----------------------------------------------------------------------------
Auth(t) ==
  ReadSession(t) \/ LockSession(t) \/ Renew(t) \/ Exchange(t) \/ AuthFails(t)
Call(t) == Announce(t) \/ Publish(t) \/ Post(t) \/ Fetch(t) \/ Insert(t)
Connect == Dial \/ Snapshot \/ SubscribeAll \/ Closed \/ Wake
TakeNext == TakeSubscribe \/ TakePublish \/ PublishFails

Next ==
  \/ Expire \/ LogOut \/ Break \/ OtherCommand \/ Connect \/ Receive \/ TakeNext
  \/ \E t \in Tasks : Auth(t) \/ Call(t)
  \/ \E d \in Devices :
       \/ ChangeByHand(d) \/ Telemetry(d)
       \/ \E t \in Callers : AddDevice(t, d) \/ Command(t, d) \/ Poll(t, d)

Spec == Init /\ [][Next]_vars

(* Tasks that can go on do, also the one that waits for the lock, which    *)
(* tokio hands out in order; the stored devices are added at start-up; the *)
(* select of the worker serves each of its branches; a thermostat reports  *)
(* its telemetry on a connection that stays.                               *)
FairSpec ==
  /\ Spec
  /\ \A t \in Tasks : SF_vars(Auth(t)) /\ WF_vars(Call(t))
  /\ WF_vars(Connect) /\ SF_vars(Receive) /\ SF_vars(TakeNext)
  /\ \A d \in Devices :
       /\ SF_vars(Telemetry(d)) /\ SF_vars(\E t \in Callers : AddDevice(t, d))

-----------------------------------------------------------------------------
(* On a live connection every known device is subscribed, or the worker is *)
(* about to hear of it, unless the channel was full: add_device races with *)
(* subscribe_all's snapshot and with the reconnects.                       *)
NothingUnsubscribed ==
  (task[Worker].pc = "run" /\ link = "up") =>
    \A d \in known \ (topics \cup skipped) :
      \/ \E i \in DOMAIN queue : queue[i] = [kind |-> "subscribe", dev |-> d]
      \/ \E t \in Callers : task[t].pc = "announce" /\ task[t].dev = d

(* ensure_auth never hands out a session with an expired token, also after *)
(* a refresh that failed half-way.                                         *)
CredentialsFresh ==
  [][\A t \in Tasks : (task[t].pc # "ready" /\ task'[t].pc = "ready") =>
       creds' # None /\ creds'.id # "expired" /\ creds'.aws]_vars

(* Once faults and changes are over, the cache has every thermostat's      *)
(* setpoint: the worker reconnects, subscribes and hears the telemetry.    *)
(* A device that found the channel full is left out, and an account whose  *)
(* refresh token has expired.                                              *)
Shown == \A d \in Devices \ skipped : cache[d] # None /\ cache[d].sp = device[d].sp
SetpointHeals == <>[](logouts > 0 \/ Shown)

(* Checked by hand, and violated: an expired refresh token is tried again  *)
(* for ever, though the account's password is known.                       *)
AccountHeals == <>[]Shown

(* The same of the mode, which no telemetry carries.                       *)
ModeHeals ==
  <>[](\A d \in Devices : cache[d] # None /\ cache[d].mode = device[d].mode)

(* is_connected's comment: online with a fresh session and a cached state. *)
ConnectedIsFresh == \A d \in Devices : cache[d] # None => Fresh

(* add_device's comment: a running worker subscribes the device.           *)
KnownIsSubscribed == <>[](known \subseteq topics)
=============================================================================
