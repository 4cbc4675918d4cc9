------------------------------ MODULE TuyaSession ------------------------------
(***************************************************************************)
(* The calls of one TuyaPlugin (synaptex-tuya/plugin.rs): every poll and   *)
(* every command opens a TCP connection of its own, negotiates the version *)
(* the router's hint names, writes one frame and reads until a frame with  *)
(* data points comes, a time-out passes or the connection fails.           *)
(*                                                                         *)
(* Concurrent calls share the sequence counter, the hint and the poll      *)
(* back-off that a connection reset by the device starts.  The device is   *)
(* external: it answers frames of its own version, pushes its changes on   *)
(* the connections it has, and within MaxFaults may stay silent, refuse a  *)
(* command, close or reset a connection.                                   *)
(*                                                                         *)
(* The device's state is the number of changes it has gone through.        *)
(* last_version, which only names the protocol in listings, is left out.   *)
(***************************************************************************)
EXTENDS Integers, FiniteSets, Sequences

CONSTANTS
  Supervisor,      \* the task that polls for ever
  Requests,        \* tasks of the callers of execute_command and poll_device
  None,            \* the Option is None
  DeviceVersions,  \* the versions the device may speak
  StoredFor,       \* the config's protocol_version or None, by the version spoken
  Offline,         \* the state of a poll that failed
  MaxRequests,     \* bound: calls by requests
  MaxChanges,      \* bound: changes of the device by itself
  MaxFaults,       \* bound: silences, refusals, closes, resets
  MaxSeq           \* bound: numbers used while connections overlap

Tasks == {Supervisor} \cup Requests
Versions == {"3.3", "3.4", "3.5"}
Ops == {"poll", "command"}

ASSUME SessionAssumption ==
  /\ Supervisor \notin Requests /\ IsFiniteSet(Requests)
  /\ DeviceVersions \subseteq Versions
  /\ StoredFor \in [DeviceVersions -> Versions \cup {None}]
  /\ None \notin Versions
  /\ MaxRequests \in Nat /\ MaxChanges \in Nat /\ MaxFaults \in Nat /\ MaxSeq \in Nat
  /\ Offline \notin [val : Nat, whole : BOOLEAN]

VARIABLES
  seq,       \* seq_no: the next frame's number
  backoff,   \* poll_backoff_until lies ahead
  version,   \* the version the device speaks; never changes
  hint,      \* version_hints' entry for the device, or None
  pc, op,    \* per task: where its call is, and what it does
  conn,      \* per task: its connection
  began,     \* per task: the device's state when its call began
  result,    \* per task: what its last call returned
  shown,     \* the last state a call reported
  val,       \* the device's state
  session,   \* per task: the device's side of the negotiation
  done,      \* per task: the device carried its command out
  late,      \* controls in flight on connections already dropped
  requests, faults  \* calls and faults so far

callVars == <<pc, op, began, result>>
deviceVars == <<version, val, session, done, late>>
vars == <<seq, backoff, hint, conn, shown, callVars, deviceVars, requests, faults>>

Up(kind, form, n) == [kind |-> kind, form |-> form, seq |-> n]
Down(kind, v, whole) == [kind |-> kind, val |-> v, whole |-> whole]
State(v, whole) == [val |-> v, whole |-> whole]

(* proto: the version spoken; up and down: the bytes in flight and unread. *)
NoConn == [status |-> "none", proto |-> None, up |-> <<>>, down |-> <<>>]

MaxVal == MaxRequests + MaxChanges
States == [val : 0..MaxVal, whole : BOOLEAN]

TypeOK ==
  /\ seq \in 1..(MaxSeq + 1) /\ backoff \in BOOLEAN
  /\ version \in DeviceVersions /\ hint \in {None, version}
  /\ pc \in [Tasks -> {"idle", "check", "connect", "probe", "ready", "await"}]
  /\ op \in [Tasks -> Ops]
  /\ conn \in [Tasks ->
       [status : {"none", "open", "closed", "reset"}, proto : Versions \cup {None},
        up : Seq([kind : {"start", "finish", "query", "control"}, form : Versions,
                  seq : 1..MaxSeq]),
        down : Seq([kind : {"resp", "dps", "ack", "error"}, val : 0..MaxVal,
                    whole : BOOLEAN])]]
  /\ began \in [Tasks -> 0..MaxVal]
  /\ result \in [Tasks -> {"none", "ok", "err", "dropped"}]
  /\ shown \in States \cup {Offline}
  /\ val \in 0..MaxVal
  /\ session \in [Tasks -> {"new", "asked", "agreed"}]
  /\ done \in [Tasks -> BOOLEAN] /\ late \in 0..MaxRequests
  /\ requests \in 0..MaxRequests /\ faults \in 0..MaxFaults

Init ==
  /\ seq = 1 /\ backoff = FALSE /\ hint = None
  /\ version \in DeviceVersions
  /\ pc = [t \in Tasks |-> "idle"]
  /\ op = [t \in Tasks |-> "poll"]
  /\ conn = [t \in Tasks |-> NoConn]
  /\ began = [t \in Tasks |-> 0]
  /\ result = [t \in Tasks |-> "none"]
  /\ shown = Offline
  /\ val = 0
  /\ session = [t \in Tasks |-> "new"]
  /\ done = [t \in Tasks |-> FALSE]
  /\ late = 0 /\ requests = 0 /\ faults = 0

-----------------------------------------------------------------------------
(* What the calls are made of.                                             *)

(* Mutant of NextSeq: the number is read and not advanced.                 *)
NextSeqKept == UNCHANGED seq

(* fetch_add; the frame that is written with it carries seq.               *)
NextSeq == seq' = seq + 1

(* Numbers matter between open connections only: without any the counter   *)
(* is wound back, which keeps the supervisor's endless polls finite.       *)
RewindSeq(t) == seq' = IF \A u \in Tasks \ {t} : pc[u] = "idle" THEN 1 ELSE seq

(* The stored config's version never changes, nor does the device's.       *)
ConfigVersion == StoredFor[version]

(* Mutant of VersionHint: the stored version goes first.                   *)
VersionOfConfig == IF ConfigVersion # None THEN ConfigVersion ELSE hint

(* open_connection: the router's word before the stored one.               *)
VersionHint == IF hint # None THEN hint ELSE ConfigVersion

(* Mutant of Dropped: a connection is kept for the next call.              *)
Kept(t) == conn' = conn

(* The connection is dropped; what was written to it is still delivered.   *)
Dropped(t) == conn' = [conn EXCEPT ![t] = NoConn]

(* A call writes one control at most.                                      *)
Carries(t) ==
  \E i \in DOMAIN conn[t].up :
    conn[t].up[i].kind = "control" /\ conn[t].up[i].form = version
MayArrive(t) ==
  late' = late + (IF conn[t].status # "reset" /\ Carries(t) THEN 1 ELSE 0)

(* The call returns r, having reported the state s if there is one.        *)
Return(t, r, s) ==
  /\ pc' = [pc EXCEPT ![t] = "idle"]
  /\ result' = [result EXCEPT ![t] = r]
  /\ shown' = IF s = None THEN shown ELSE s
  /\ Dropped(t) /\ MayArrive(t) /\ RewindSeq(t)
  /\ UNCHANGED <<version, hint, op, began, val, session, done, requests>>

(* maybe_set_backoff: polls only, on a reset only.                         *)
MaybeSetBackoff(t, reset) == backoff' = (backoff \/ (op[t] = "poll" /\ reset))

(* Mutant of FailAwait: the error of the echo is the command's.            *)
FailAwaitErr(t, reset) ==
  /\ IF op[t] = "poll" THEN Return(t, "ok", Offline) ELSE Return(t, "err", None)
  /\ MaybeSetBackoff(t, reset)

(* A failed poll is an Ok with the offline state.  A command fails until   *)
(* its frame is written; the wait for its echo is best effort.             *)
FailOpen(t, reset) ==
  /\ IF op[t] = "poll" THEN Return(t, "ok", Offline) ELSE Return(t, "err", None)
  /\ MaybeSetBackoff(t, reset)
FailAwait(t, reset) ==
  /\ IF op[t] = "poll" THEN Return(t, "ok", Offline) ELSE Return(t, "ok", None)
  /\ MaybeSetBackoff(t, reset)

Goto(t, stage) == pc' = [pc EXCEPT ![t] = stage]

(* What the call reads next, and the connection after reading it.          *)
Heard(t) == Head(conn[t].down)
Read(t) == [conn[t] EXCEPT !.down = Tail(@)]

(* A frame of the given kind is written on the connection c.               *)
Write(t, kind, c) ==
  /\ conn' = [conn EXCEPT ![t] = [c EXCEPT !.up = Append(@, Up(kind, c.proto, seq))]]
  /\ NextSeq

-----------------------------------------------------------------------------
(* The calls.                                                              *)

Begin(t, o, stage) ==
  /\ pc[t] = "idle" /\ seq + 3 * Cardinality(Tasks) <= MaxSeq + 1
  /\ Goto(t, stage)
  /\ op' = [op EXCEPT ![t] = o]
  /\ began' = [began EXCEPT ![t] = val]
  /\ result' = [result EXCEPT ![t] = "none"]
  /\ session' = [session EXCEPT ![t] = "new"]
  /\ done' = [done EXCEPT ![t] = FALSE]
  /\ UNCHANGED <<seq, version, hint, conn, shown, val, late, faults>>

(* The supervisor's poll.                                                  *)
SupervisorPoll == Begin(Supervisor, "poll", "check") /\ UNCHANGED <<backoff, requests>>

(* A request clears the back-off before it calls the plugin.               *)
Request(t, o) ==
  /\ t \in Requests /\ requests < MaxRequests
  /\ requests' = requests + 1
  /\ backoff' = FALSE
  /\ Begin(t, o, IF o = "poll" THEN "check" ELSE "connect")

(* poll_state looks at the back-off.                                       *)
Check(t) ==
  /\ pc[t] = "check" /\ ~backoff
  /\ Goto(t, "connect")
  /\ UNCHANGED <<seq, backoff, hint, conn, shown, op, began, result, deviceVars,
                 requests, faults>>
Suppressed(t) ==
  /\ pc[t] = "check" /\ backoff
  /\ Return(t, "ok", Offline)
  /\ UNCHANGED <<backoff, faults>>

Opened(t) == [conn[t] EXCEPT !.status = "open", !.proto = VersionHint]

(* The TCP connection is there: a hinted 3.4 or 3.5 is negotiated, any     *)
(* other version is spoken at once, without a version the call fails.      *)
Connected(t) ==
  /\ pc[t] = "connect" /\ VersionHint # None
  /\ IF VersionHint = "3.3"
     THEN Goto(t, "ready") /\ conn' = [conn EXCEPT ![t] = Opened(t)] /\ UNCHANGED seq
     ELSE Goto(t, "probe") /\ Write(t, "start", Opened(t))
  /\ UNCHANGED <<backoff, hint, shown, op, began, result, deviceVars, requests, faults>>

VersionUnknown(t) ==
  /\ pc[t] = "connect" /\ VersionHint = None
  /\ FailOpen(t, FALSE) /\ UNCHANGED faults

(* The device or the network refuses, or the kernel gives up connecting.   *)
Refused(t, reset) ==
  /\ pc[t] = "connect" /\ faults < MaxFaults
  /\ faults' = faults + 1
  /\ FailOpen(t, reset)

Readable(t) == conn[t].status # "reset" /\ conn[t].down # <<>>

(* The device's answer to the probe: the key is derived, the finish sent.  *)
Finish(t) ==
  /\ pc[t] = "probe" /\ Readable(t) /\ Heard(t).kind = "resp"
  /\ Goto(t, "ready") /\ Write(t, "finish", Read(t))
  /\ UNCHANGED <<backoff, hint, shown, op, began, result, deviceVars, requests, faults>>

(* open_connection takes the data frame's number, send writes it.          *)
Send(t) ==
  /\ pc[t] = "ready" /\ conn[t].status # "reset"
  /\ Goto(t, "await")
  /\ Write(t, IF op[t] = "poll" THEN "query" ELSE "control", conn[t])
  /\ UNCHANGED <<backoff, hint, shown, op, began, result, deviceVars, requests, faults>>

(* recv_state passes over a frame without data points.                     *)
Skip(t) ==
  /\ pc[t] = "await" /\ Readable(t) /\ Heard(t).kind = "ack"
  /\ conn' = [conn EXCEPT ![t] = Read(t)]
  /\ UNCHANGED <<seq, backoff, hint, shown, callVars, deviceVars, requests, faults>>

(* The first data points are the answer: a poll returns them, and either   *)
(* call puts them on the bus.                                              *)
Receive(t) ==
  /\ pc[t] = "await" /\ Readable(t) /\ Heard(t).kind = "dps"
  /\ Return(t, "ok", State(Heard(t).val, Heard(t).whole))
  /\ UNCHANGED <<backoff, faults>>

(* A return code, or a connection closed with nothing left to read.        *)
Refusal(t) ==
  /\ pc[t] = "await"
  /\ \/ Readable(t) /\ Heard(t).kind = "error"
     \/ conn[t].status = "closed" /\ conn[t].down = <<>>
  /\ FailAwait(t, FALSE) /\ UNCHANGED faults
ProbeRefused(t) ==
  /\ pc[t] = "probe"
  /\ \/ Readable(t) /\ Heard(t).kind # "resp"
     \/ conn[t].status = "closed" /\ conn[t].down = <<>>
  /\ FailOpen(t, FALSE) /\ UNCHANGED faults

(* The write or the read of a reset connection fails.                      *)
Broken(t) ==
  /\ pc[t] \in {"probe", "ready", "await"} /\ conn[t].status = "reset"
  /\ IF pc[t] = "await" THEN FailAwait(t, TRUE) ELSE FailOpen(t, TRUE)
  /\ UNCHANGED faults

(* 500 ms for the probe, 2 s for a poll's answer, 1 s for an echo.  While  *)
(* the device still has something to say, running out of time is a fault.  *)
Silent(t) == conn[t].up = <<>> /\ conn[t].down = <<>>
TimedOut(t) ==
  /\ pc[t] \in {"probe", "await"} /\ conn[t].status = "open"
  /\ IF Silent(t) THEN UNCHANGED faults
     ELSE faults < MaxFaults /\ faults' = faults + 1
  /\ IF pc[t] = "await" THEN FailAwait(t, FALSE) ELSE FailOpen(t, FALSE)

(* A caller with a limit of its own (a group, a room, a REST client that   *)
(* hangs up) drops the call in the middle.                                 *)
Abandon(t) ==
  /\ t \in Requests /\ pc[t] # "idle"
  /\ Return(t, "dropped", None)
  /\ UNCHANGED <<backoff, faults>>

(* The ten minutes are over.                                               *)
BackoffEnds ==
  /\ backoff /\ backoff' = FALSE
  /\ UNCHANGED <<seq, hint, conn, shown, callVars, deviceVars, requests, faults>>

(* Mutant of LearnVersion: the hint is another device's.                   *)
LearnOther ==
  /\ hint = None /\ hint' \in Versions
  /\ UNCHANGED <<seq, backoff, conn, shown, callVars, deviceVars, requests, faults>>

(* run_discovery_loop learns the device's version from the router.         *)
LearnVersion ==
  /\ hint = None /\ hint' = version
  /\ UNCHANGED <<seq, backoff, conn, shown, callVars, deviceVars, requests, faults>>

-----------------------------------------------------------------------------
(* The device.                                                             *)

(* Connections whose negotiation is over; 3.3 has none.                    *)
Talking(t) ==
  conn[t].status = "open" /\ conn[t].proto = version
    /\ (version = "3.3" \/ session[t] = "agreed")

(* The connections after the device wrote to t and pushed a change.        *)
Answered(t, frames, push) ==
  conn' = [u \in Tasks |->
    [conn[u] EXCEPT
       !.up = IF u = t THEN Tail(@) ELSE @,
       !.down = (IF u = t THEN @ \o frames ELSE @)
                \o (IF push /\ u # t /\ Talking(u) THEN <<Down("dps", val + 1, FALSE)>>
                    ELSE <<>>)]]

Asked(t) == conn[t].status = "open" /\ conn[t].up # <<>>
Question(t) == Head(conn[t].up)

(* It negotiates, or reads over a frame it cannot understand.              *)
Negotiate(t) ==
  /\ Asked(t) /\ Question(t).kind \in {"start", "finish"}
  /\ IF Question(t).form # version
     THEN Answered(t, <<>>, FALSE) /\ UNCHANGED session
     ELSE /\ Answered(t, IF Question(t).kind = "start" THEN <<Down("resp", val, FALSE)>>
                         ELSE <<>>, FALSE)
          /\ session' = [session EXCEPT ![t] =
               IF Question(t).kind = "start" THEN "asked" ELSE "agreed"]
  /\ UNCHANGED <<seq, backoff, hint, shown, callVars, version, val, done, late,
                 requests, faults>>

(* It answers a query with all data points, one it understands.            *)
Query(t) ==
  /\ Asked(t) /\ Question(t).kind = "query"
  /\ Answered(t, IF Talking(t) THEN <<Down("dps", val, TRUE)>> ELSE <<>>, FALSE)
  /\ UNCHANGED <<seq, backoff, hint, shown, callVars, deviceVars, requests, faults>>

(* It carries a control out and echoes it, after an empty answer or not.   *)
Control(t) ==
  /\ Asked(t) /\ Question(t).kind = "control"
  /\ IF Talking(t)
     THEN /\ \E ack \in {<<>>, <<Down("ack", val, FALSE)>>} :
               Answered(t, ack \o <<Down("dps", val + 1, FALSE)>>, TRUE)
          /\ val' = val + 1 /\ done' = [done EXCEPT ![t] = TRUE]
     ELSE Answered(t, <<>>, FALSE) /\ UNCHANGED <<val, done>>
  /\ UNCHANGED <<seq, backoff, hint, shown, callVars, version, session, late,
                 requests, faults>>

(* A fault of the device or the network on an open connection: a control   *)
(* refused or carried out without an echo, a frame left unanswered, the    *)
(* connection closed, or reset with all that is in flight.                 *)
Misbehave(t) ==
  /\ conn[t].status = "open" /\ faults < MaxFaults /\ faults' = faults + 1
  /\ \/ /\ Asked(t) /\ Question(t).kind = "control" /\ Talking(t)
        /\ \/ Answered(t, <<Down("error", val, FALSE)>>, FALSE) /\ UNCHANGED <<val, done>>
           \/ /\ Answered(t, <<>>, TRUE)
              /\ val' = val + 1 /\ done' = [done EXCEPT ![t] = TRUE]
     \/ Asked(t) /\ Answered(t, <<>>, FALSE) /\ UNCHANGED <<val, done>>
     \/ /\ conn' = [conn EXCEPT ![t].status = "closed", ![t].up = <<>>]
        /\ UNCHANGED <<val, done>>
     \/ /\ conn' = [conn EXCEPT ![t].status = "reset", ![t].up = <<>>, ![t].down = <<>>]
        /\ UNCHANGED <<val, done>>
  /\ UNCHANGED <<seq, backoff, hint, shown, callVars, version, session, late, requests>>

(* It changes by itself and pushes the changed data points.                *)
StatusPush ==
  /\ val < MaxChanges
  /\ val' = val + 1
  /\ conn' = [u \in Tasks |-> [conn[u] EXCEPT !.down =
       IF Talking(u) THEN Append(@, Down("dps", val + 1, FALSE)) ELSE @]]
  /\ UNCHANGED <<seq, backoff, hint, shown, callVars, version, session, done, late,
                 requests, faults>>

(* A control that was in flight when its call was over arrives, or not.    *)
LateControl ==
  /\ late > 0 /\ late' = late - 1
  /\ val' \in {val, val + 1}
  /\ conn' = [u \in Tasks |-> [conn[u] EXCEPT !.down =
       IF val' # val /\ Talking(u) THEN Append(@, Down("dps", val', FALSE)) ELSE @]]
  /\ UNCHANGED <<seq, backoff, hint, shown, callVars, version, session, done,
                 requests, faults>>

-----------------------------------------------------------------------------
Step(t) ==
  \/ Check(t) \/ Suppressed(t) \/ Connected(t) \/ VersionUnknown(t)
  \/ Finish(t) \/ Send(t) \/ Skip(t) \/ Receive(t)
  \/ Refusal(t) \/ ProbeRefused(t) \/ Broken(t) \/ TimedOut(t)
Device(t) == Negotiate(t) \/ Query(t) \/ Control(t)

Next ==
  \/ SupervisorPoll \/ BackoffEnds \/ LearnVersion \/ StatusPush \/ LateControl
  \/ \E t \in Tasks :
       \/ Step(t) \/ Device(t) \/ Misbehave(t) \/ Abandon(t)
       \/ \E o \in Ops : Request(t, o)
       \/ \E reset \in BOOLEAN : Refused(t, reset)

Spec == Init /\ [][Next]_vars

(* Every call's timers and reads go on, the supervisor polls again, the    *)
(* back-off ends, the router finds the device, and a device that has not   *)
(* lost a frame answers it.                                                *)
FairSpec ==
  /\ Spec
  /\ WF_vars(SupervisorPoll) /\ WF_vars(BackoffEnds) /\ WF_vars(LearnVersion)
  /\ WF_vars(LateControl)
  /\ \A t \in Tasks : WF_vars(Step(t)) /\ WF_vars(Device(t))

-----------------------------------------------------------------------------
(* No two frames written to the device while their connections overlap     *)
(* carry the same number: the comment of open_connection, "data frames     *)
(* don't reuse seq numbers the device already saw".                        *)
InFlight == {f \in Tasks \X (1..3) : f[2] <= Len(conn[f[1]].up)}
SeqFresh ==
  \A f, g \in InFlight :
    f # g => conn[f[1]].up[f[2]].seq # conn[g[1]].up[g[2]].seq

(* execute_command answers an error only when the device has not carried   *)
(* the command out and never will: its callers count and report failures.  *)
FailedIsUntouched ==
  \A t \in Tasks : (op[t] = "command" /\ result[t] = "err") => ~done[t]

(* What a call reports is no older than its beginning: a reply that comes  *)
(* too late is lost with its connection, never taken for the next call's.  *)
ReplyIsOfThisCall ==
  [][\A t \in Tasks :
       (pc[t] = "await" /\ pc'[t] = "idle" /\ shown' # shown /\ shown' # Offline)
         => shown'.val >= began[t]]_vars

(* Once faults, changes and requests are over, the polls show the device   *)
(* as it is: the back-off and a stale stored version do not keep it away.  *)
Heals == <>[](shown = State(val, TRUE))

(* Every call ends.                                                        *)
CallsEnd == \A t \in Tasks : pc[t] # "idle" ~> pc[t] = "idle"

(* Ok from execute_command means the device carried the command out.       *)
OkIsDone ==
  \A t \in Tasks : (op[t] = "command" /\ result[t] = "ok") => done[t]

(* A poll that is answered shows the whole state.                          *)
PollIsWhole == [][\A t \in Tasks :
  (op[t] = "poll" /\ pc[t] = "await" /\ pc'[t] = "idle" /\ shown' # shown
     /\ shown' # Offline) => shown'.whole]_vars
=============================================================================
