-------------------------- MODULE TuyaSessionProofs --------------------------
(***************************************************************************)
(* Theorems about TuyaSession, for any tasks, versions and bounds, and     *)
(* about one turn of TuyaFrames' read loop, for frames of any length, and  *)
(* DpMap's conversions of a brightness and a temperature, for any range.   *)
(*                                                                         *)
(* Between the calls there is no connection (Idle); a control is the last  *)
(* frame its call writes, and until it is written the command is not done  *)
(* (Orderly); what lies unread on a connection is not older than the call  *)
(* that opened it (Aged); the numbers in flight are distinct and lie below *)
(* the counter (Fresh).  Two counts keep the bounds: the writes that the   *)
(* calls may still make, and the commands that may still change the device.*)
(***************************************************************************)
EXTENDS TuyaSession, FiniteSetTheorems, SequenceTheorems, TLAPS

Frames == [kind : {"start", "finish", "query", "control"}, form : Versions, seq : 1..MaxSeq]
Words == [kind : {"resp", "dps", "ack", "error"}, val : 0..MaxVal, whole : BOOLEAN]
Connections ==
  [status : {"none", "open", "closed", "reset"}, proto : Versions \cup {None},
   up : Seq(Frames), down : Seq(Words)]

Written(t) == 1..Len(conn[t].up)
Unread(t) == 1..Len(conn[t].down)

-----------------------------------------------------------------------------
(* The inductive invariant.                                                *)

Idle ==
  \A t \in Tasks :
    IF pc[t] \in {"idle", "check", "connect"} THEN conn[t] = NoConn
    ELSE conn[t].proto \in Versions

HasControl(t) == \E i \in Written(t) : conn[t].up[i].kind = "control"
InOrder(t) ==
  /\ HasControl(t) => pc[t] = "await" /\ op[t] = "command"
  /\ \A i \in Written(t) : conn[t].up[i].kind = "control" => i = Len(conn[t].up)
  /\ pc[t] # "idle" => result[t] = "none"
  /\ pc[t] \notin {"idle", "await"} => ~done[t]
Orderly == \A t \in Tasks : InOrder(t)

HeardSince(t) ==
  /\ began[t] <= val
  /\ \A i \in Unread(t) : conn[t].down[i].kind = "dps" => conn[t].down[i].val >= began[t]
Aged == \A t \in Tasks : HeardSince(t)

Fresh ==
  \A t, u \in Tasks : \A i \in Written(t), j \in Written(u) :
    /\ conn[t].up[i].seq < seq
    /\ conn[t].up[i].seq = conn[u].up[j].seq => t = u /\ i = j

(* The frames a call has yet to write, at most.                            *)
Left(t) ==
  IF pc[t] \in {"check", "connect"} THEN 3
  ELSE IF pc[t] = "probe" THEN 2 ELSE IF pc[t] = "ready" THEN 1 ELSE 0
ToWrite == {w \in Tasks \X (1..3) : w[2] <= Left(w[1])}
EnoughNumbers == seq + Cardinality(ToWrite) <= MaxSeq + 1

(* The commands that have yet to reach the device.                         *)
Commanding ==
  {t \in Tasks : op[t] = "command" /\ pc[t] # "idle" /\ (pc[t] = "await" => HasControl(t))}
EnoughChanges ==
  /\ late + Cardinality(Commanding) <= requests
  /\ val + late + Cardinality(Commanding) <= MaxChanges + requests

IInv ==
  /\ TypeOK /\ Idle /\ Orderly /\ Aged /\ Fresh /\ EnoughNumbers /\ EnoughChanges
  /\ FailedIsUntouched

-----------------------------------------------------------------------------
(* What the steps have in common.                                          *)

(* What is in flight on the connection of u is an end of what was.         *)
Rest(u) ==
  \E k \in 0..Len(conn[u].up) :
    /\ Len(conn'[u].up) = Len(conn[u].up) - k
    /\ \A i \in 1..Len(conn'[u].up) : conn'[u].up[i] = conn[u].up[i + k]

LEMMA ConnTyped ==
  ASSUME TypeOK, NEW t \in Tasks
  PROVE  /\ conn[t] \in Connections
         /\ conn[t].up \in Seq(Frames) /\ conn[t].down \in Seq(Words)
         /\ Len(conn[t].up) \in Nat /\ Len(conn[t].down) \in Nat
         /\ DOMAIN conn[t].up = Written(t)
         /\ \A i \in Written(t) : conn[t].up[i] \in Frames
         /\ \A i \in Unread(t) : conn[t].down[i] \in Words
<1>1. conn[t] \in Connections
  BY DEF TypeOK, Connections, Frames, Words
<1>2. conn[t].up \in Seq(Frames) /\ conn[t].down \in Seq(Words)
  BY <1>1 DEF Connections
<1> QED
  BY <1>1, <1>2 DEF Written, Unread

LEMMA NoConnIs ==
  /\ NoConn \in Connections
  /\ Len(NoConn.up) = 0 /\ Len(NoConn.down) = 0 /\ NoConn.up = <<>> /\ NoConn.down = <<>>
  /\ NoConn.status = "none"
  BY DEF NoConn, Connections

LEMMA TasksFinite == IsFiniteSet(Tasks) /\ Cardinality(Tasks) \in Nat
<1>1. IsFiniteSet({Supervisor} \cup Requests)
  BY SessionAssumption, FS_Singleton, FS_Union
<1> QED
  BY <1>1, FS_CardinalityType DEF Tasks

LEMMA WritesCounted ==
  ASSUME NEW W \in SUBSET (Tasks \X (1..3))
  PROVE  IsFiniteSet(W) /\ Cardinality(W) \in Nat /\ Cardinality(W) <= 3 * Cardinality(Tasks)
<1>1. IsFiniteSet(1..3) /\ Cardinality(1..3) = 3
  <2>1. \A a, b \in Int : IsFiniteSet(a..b) /\ Cardinality(a..b) = IF a > b THEN 0 ELSE b - a + 1
    BY FS_Interval
  <2>2. 1 \in Int /\ 3 \in Int
    OBVIOUS
  <2>3. IsFiniteSet(1..3) /\ Cardinality(1..3) = IF 1 > 3 THEN 0 ELSE 3 - 1 + 1
    BY <2>1, <2>2, Zenon
  <2> QED
    BY <2>3
<1>2. IsFiniteSet(Tasks \X (1..3)) /\ Cardinality(Tasks \X (1..3)) = Cardinality(Tasks) * 3
  BY <1>1, TasksFinite, FS_Product
<1>3. IsFiniteSet(W) /\ Cardinality(W) <= Cardinality(Tasks \X (1..3))
  BY <1>2, FS_Subset
<1>4. Cardinality(W) \in Nat
  BY <1>3, FS_CardinalityType
<1> QED
  BY <1>2, <1>3, <1>4, TasksFinite

LEMMA WritesBounded ==
  /\ IsFiniteSet(ToWrite) /\ Cardinality(ToWrite) \in Nat
  /\ Cardinality(ToWrite) <= 3 * Cardinality(Tasks)
<1>1. ToWrite \in SUBSET (Tasks \X (1..3))
  BY DEF ToWrite
<1> QED
  BY <1>1, WritesCounted

LEMMA CommandsFinite == IsFiniteSet(Commanding) /\ Cardinality(Commanding) \in Nat
<1>1. Commanding \in SUBSET Tasks
  BY DEF Commanding
<1>2. IsFiniteSet(Commanding)
  BY <1>1, TasksFinite, FS_Subset
<1> QED
  BY <1>2, FS_CardinalityType

(* Numbers stay distinct when nothing is written.                          *)
LEMMA RestsAreFresh ==
  ASSUME TypeOK, Fresh, conn' \in [Tasks -> Connections], seq' = seq,
         \A u \in Tasks : Rest(u)
  PROVE  Fresh'
<1> SUFFICES ASSUME NEW t \in Tasks, NEW u \in Tasks, NEW i \in Written(t)', NEW j \in Written(u)'
             PROVE  /\ conn'[t].up[i].seq < seq
                    /\ conn'[t].up[i].seq = conn'[u].up[j].seq => t = u /\ i = j
  BY DEF Fresh
<1>1. PICK k \in 0..Len(conn[t].up) :
        /\ Len(conn'[t].up) = Len(conn[t].up) - k
        /\ \A a \in 1..Len(conn'[t].up) : conn'[t].up[a] = conn[t].up[a + k]
  BY DEF Rest
<1>2. PICK m \in 0..Len(conn[u].up) :
        /\ Len(conn'[u].up) = Len(conn[u].up) - m
        /\ \A a \in 1..Len(conn'[u].up) : conn'[u].up[a] = conn[u].up[a + m]
  BY DEF Rest
<1>3. Len(conn[t].up) \in Nat /\ Len(conn[u].up) \in Nat
  BY ConnTyped
<1>4. i \in 1..Len(conn'[t].up) /\ j \in 1..Len(conn'[u].up)
  BY DEF Written
<1>5. i + k \in Written(t) /\ j + m \in Written(u)
  BY <1>1, <1>2, <1>3, <1>4 DEF Written
<1>6. conn'[t].up[i] = conn[t].up[i + k] /\ conn'[u].up[j] = conn[u].up[j + m]
  BY <1>1, <1>2, <1>4
<1>7. /\ conn[t].up[i + k].seq < seq
      /\ conn[t].up[i + k].seq = conn[u].up[j + m].seq => t = u /\ i + k = j + m
  BY <1>5 DEF Fresh
<1>8. t = u => k = m
  BY <1>1, <1>2, <1>3
<1> QED
  BY <1>1, <1>2, <1>3, <1>4, <1>6, <1>7, <1>8

(* A control that is in flight was, and is the last one still.             *)
LEMMA RestsInOrder ==
  ASSUME TypeOK, NEW u \in Tasks, InOrder(u), Rest(u)
  PROVE  /\ HasControl(u)' => HasControl(u)
         /\ \A i \in Written(u)' : conn'[u].up[i].kind = "control" => i = Len(conn'[u].up)
<1>1. PICK k \in 0..Len(conn[u].up) :
        /\ Len(conn'[u].up) = Len(conn[u].up) - k
        /\ \A a \in 1..Len(conn'[u].up) : conn'[u].up[a] = conn[u].up[a + k]
  BY DEF Rest
<1>2. Len(conn[u].up) \in Nat
  BY ConnTyped
<1>3. ASSUME NEW i \in Written(u)'
      PROVE  i + k \in Written(u) /\ conn'[u].up[i] = conn[u].up[i + k]
  BY <1>1, <1>2 DEF Written
<1>4. HasControl(u)' => HasControl(u)
  BY <1>3 DEF HasControl
<1>5. ASSUME NEW i \in Written(u)', conn'[u].up[i].kind = "control"
      PROVE  i = Len(conn'[u].up)
  <2>1. i + k = Len(conn[u].up)
    BY <1>3, <1>5 DEF InOrder
  <2> QED
    BY <2>1, <1>1, <1>2 DEF Written
<1> QED
  BY <1>4, <1>5

(* Nothing but an end of what was in flight: empty, the same, the tail.    *)
LEMMA EndsAreRests ==
  ASSUME TypeOK, NEW u \in Tasks,
         \/ conn'[u].up = conn[u].up
         \/ conn'[u].up = <<>>
         \/ conn[u].up # <<>> /\ conn'[u].up = Tail(conn[u].up)
  PROVE  Rest(u)
<1>1. conn[u].up \in Seq(Frames) /\ Len(conn[u].up) \in Nat
  BY ConnTyped
<1>2. CASE conn'[u].up = conn[u].up
  <2>1. /\ Len(conn'[u].up) = Len(conn[u].up) - 0
        /\ \A i \in 1..Len(conn'[u].up) : conn'[u].up[i] = conn[u].up[i + 0]
    BY <1>1, <1>2
  <2> QED
    BY <2>1, <1>1 DEF Rest
<1>3. CASE conn'[u].up = <<>>
  <2>1. Len(conn'[u].up) = 0
    BY <1>3
  <2> QED
    BY <2>1, <1>1 DEF Rest
<1>4. CASE conn[u].up # <<>> /\ conn'[u].up = Tail(conn[u].up)
  <2>1. /\ Len(conn'[u].up) = Len(conn[u].up) - 1
        /\ \A i \in 1..Len(conn'[u].up) : conn'[u].up[i] = conn[u].up[i + 1]
    BY <1>1, <1>4, HeadTailProperties
  <2>2. Len(conn[u].up) >= 1
    BY <1>1, <1>4
  <2> QED
    BY <2>1, <2>2, <1>1 DEF Rest
<1> QED
  BY <1>2, <1>3, <1>4

-----------------------------------------------------------------------------
(* A call returns.                                                         *)

LEMMA ReturnCounts ==
  ASSUME IInv, NEW t \in Tasks, pc[t] # "idle", NEW r, NEW s, Return(t, r, s)
  PROVE  EnoughNumbers' /\ EnoughChanges' /\ seq' \in 1..(MaxSeq + 1) /\ late' \in 0..MaxRequests
<1> USE DEF IInv
<1>1. pc' = [pc EXCEPT ![t] = "idle"] /\ pc \in [Tasks -> {"idle", "check", "connect", "probe", "ready", "await"}]
  BY DEF Return, TypeOK
<1>2. UNCHANGED <<op, val, requests>> /\ conn' = [conn EXCEPT ![t] = NoConn]
  BY DEF Return, Dropped
<1>3. seq \in 1..(MaxSeq + 1) /\ MaxSeq \in Nat /\ MaxChanges \in Nat /\ MaxRequests \in Nat
      /\ late \in 0..MaxRequests /\ requests \in 0..MaxRequests /\ val \in 0..MaxVal
      /\ conn \in [Tasks -> Connections]
  BY SessionAssumption, ConnTyped DEF TypeOK, Connections, Frames, Words
<1>4. EnoughNumbers' /\ seq' \in 1..(MaxSeq + 1)
  <2>1. CASE \A u \in Tasks \ {t} : pc[u] = "idle"
    <3>1. seq' = 1
      BY <2>1 DEF Return, RewindSeq
    <3>2. \A u \in Tasks : Left(u)' = 0
      BY <1>1, <2>1 DEF Left
    <3>3. ToWrite' = {}
      BY <3>2 DEF ToWrite
    <3>4. Cardinality(ToWrite') = 0
      BY <3>3, FS_EmptySet
    <3> QED
      BY <3>1, <3>4, <1>3 DEF EnoughNumbers
  <2>2. CASE ~ \A u \in Tasks \ {t} : pc[u] = "idle"
    <3>1. seq' = seq
      BY <2>2 DEF Return, RewindSeq
    <3>2. \A u \in Tasks : Left(u) \in 0..3 /\ (u # t => Left(u)' = Left(u)) /\ Left(t)' = 0
      BY <1>1 DEF Left
    <3>3. ToWrite' \in SUBSET ToWrite
      BY <3>2 DEF ToWrite
    <3>4. Cardinality(ToWrite') <= Cardinality(ToWrite) /\ Cardinality(ToWrite') \in Nat
      BY <3>3, WritesBounded, FS_Subset, FS_CardinalityType
    <3> QED
      BY <3>1, <3>4, <1>3, WritesBounded DEF EnoughNumbers
  <2> QED
    BY <2>1, <2>2
<1>5. EnoughChanges' /\ late' \in 0..MaxRequests
  <2>1. \A u \in Tasks : u # t => conn'[u] = conn[u] /\ pc'[u] = pc[u]
    BY <1>1, <1>2, <1>3
  <2>2. \A u \in Tasks \ {t} : HasControl(u)' <=> HasControl(u)
    BY <2>1 DEF HasControl, Written
  <2>3. Commanding' = Commanding \ {t}
    BY <1>1, <1>2, <2>1, <2>2 DEF Commanding
  <2>4. Cardinality(Commanding') =
          IF t \in Commanding THEN Cardinality(Commanding) - 1 ELSE Cardinality(Commanding)
    BY <2>3, CommandsFinite, FS_RemoveElement
  <2>5. Carries(t) => t \in Commanding
    <3>1. Carries(t) => HasControl(t)
      BY ConnTyped DEF Carries, HasControl
    <3> QED
      BY <3>1 DEF Commanding, Orderly, InOrder
  <2>6. late' = late \/ (late' = late + 1 /\ t \in Commanding)
    <3>1. late' = late + (IF conn[t].status # "reset" /\ Carries(t) THEN 1 ELSE 0)
      BY DEF Return, MayArrive
    <3>2. CASE conn[t].status # "reset" /\ Carries(t)
      <4>1. late' = late + 1
        BY <3>1, <3>2, Zenon
      <4> QED
        BY <4>1, <3>2, <2>5
    <3>3. CASE ~(conn[t].status # "reset" /\ Carries(t))
      <4>1. late' = late + 0
        BY <3>1, <3>3, Zenon
      <4> QED
        BY <4>1, <1>3
    <3> QED
      BY <3>2, <3>3
  <2>7. late' + Cardinality(Commanding') <= late + Cardinality(Commanding)
    BY <2>4, <2>6, <1>3, CommandsFinite
  <2>8. Cardinality(Commanding') \in Nat
    BY <2>4, CommandsFinite, <2>3, FS_RemoveElement, FS_CardinalityType
  <2> QED
    BY <2>6, <2>7, <2>8, <1>2, <1>3, CommandsFinite DEF EnoughChanges
<1> QED
  BY <1>4, <1>5

LEMMA Returns ==
  ASSUME IInv, NEW t \in Tasks, pc[t] # "idle", NEW r \in {"ok", "err", "dropped"},
         NEW s \in States \cup {Offline, None}, Return(t, r, s),
         backoff' \in BOOLEAN, faults' \in 0..MaxFaults,
         r = "err" => pc[t] # "await"
  PROVE  IInv'
<1> USE DEF IInv
<1>1. /\ pc' = [pc EXCEPT ![t] = "idle"] /\ result' = [result EXCEPT ![t] = r]
      /\ conn' = [conn EXCEPT ![t] = NoConn]
      /\ UNCHANGED <<version, hint, op, began, val, session, done, requests>>
  BY DEF Return, Dropped
<1>2. /\ pc \in [Tasks -> {"idle", "check", "connect", "probe", "ready", "await"}]
      /\ result \in [Tasks -> {"none", "ok", "err", "dropped"}]
      /\ conn \in [Tasks -> Connections]
  BY DEF TypeOK, Connections, Frames, Words
<1>3. conn' \in [Tasks -> Connections]
  BY <1>1, <1>2, NoConnIs
<1>4. TypeOK'
  <2>1. shown' \in States \cup {Offline}
    BY DEF Return, TypeOK
  <2> QED
    BY <1>1, <1>2, <1>3, <2>1, ReturnCounts DEF TypeOK, Connections, Frames, Words
<1>5. \A u \in Tasks :
        /\ u # t => conn'[u] = conn[u] /\ pc'[u] = pc[u] /\ result'[u] = result[u]
        /\ conn'[t] = NoConn /\ pc'[t] = "idle" /\ result'[t] = r
  BY <1>1, <1>2
<1>6. Idle'
  BY <1>5 DEF Idle
<1>7. \A u \in Tasks : Rest(u)
  BY <1>5, NoConnIs, EndsAreRests
<1>8. Orderly'
  <2> SUFFICES ASSUME NEW u \in Tasks PROVE InOrder(u)'
    BY DEF Orderly
  <2>1. CASE u = t
    BY <2>1, <1>5, NoConnIs DEF InOrder, HasControl, Written
  <2>2. CASE u # t
    BY <2>2, <1>1, <1>5 DEF Orderly, InOrder, HasControl, Written
  <2> QED
    BY <2>1, <2>2
<1>9. Aged'
  BY <1>1, <1>5, NoConnIs DEF Aged, HeardSince, Unread
<1>10. Fresh'
  <2>1. CASE \A u \in Tasks \ {t} : pc[u] = "idle"
    <3>1. \A u \in Tasks : Len(conn'[u].up) = 0
      BY <2>1, <1>5, NoConnIs DEF Idle
    <3> QED
      BY <3>1 DEF Fresh, Written
  <2>2. CASE ~ \A u \in Tasks \ {t} : pc[u] = "idle"
    <3>1. seq' = seq
      BY <2>2 DEF Return, RewindSeq
    <3> QED
      BY <3>1, <1>3, <1>7, RestsAreFresh
  <2> QED
    BY <2>1, <2>2
<1>11. FailedIsUntouched'
  BY <1>1, <1>5 DEF FailedIsUntouched, Orderly, InOrder
<1> QED
  BY <1>4, <1>6, <1>8, <1>9, <1>10, <1>11, ReturnCounts

-----------------------------------------------------------------------------
(* A call writes.                                                          *)

(* The three frames a call may write, and the stages they lead to.         *)
Stages == {<<"connect", "probe">>, <<"probe", "ready">>, <<"ready", "await">>}

LEMMA WriteCounts ==
  ASSUME IInv, NEW t \in Tasks, NEW stage, <<pc[t], stage>> \in Stages,
         pc' = [pc EXCEPT ![t] = stage], seq' = seq + 1,
         UNCHANGED <<op, val, late, requests>>,
         \A u \in Tasks \ {t} : conn'[u] = conn[u]
  PROVE  EnoughNumbers' /\ EnoughChanges' /\ seq \in 1..MaxSeq /\ seq' \in 1..(MaxSeq + 1)
<1> USE DEF IInv
<1>1. /\ pc \in [Tasks -> {"idle", "check", "connect", "probe", "ready", "await"}]
      /\ seq \in 1..(MaxSeq + 1) /\ MaxSeq \in Nat
      /\ MaxChanges \in Nat /\ late \in 0..MaxRequests /\ requests \in 0..MaxRequests
      /\ val \in 0..MaxVal /\ MaxRequests \in Nat
  BY SessionAssumption DEF TypeOK
<1>2. \A u \in Tasks : u # t => pc'[u] = pc[u]
  BY <1>1
<1>3. pc'[t] = stage
  BY <1>1
<1>4. Left(t) \in 1..3 /\ Left(t)' = Left(t) - 1
  BY <1>3 DEF Left, Stages
<1>5. \A u \in Tasks : u # t => Left(u)' = Left(u)
  BY <1>2 DEF Left
<1>6. ToWrite' \in SUBSET (ToWrite \ {<<t, Left(t)>>}) /\ <<t, Left(t)>> \in ToWrite
  <2>1. <<t, Left(t)>> \in ToWrite
    BY <1>4 DEF ToWrite
  <2>2. ASSUME NEW w \in Tasks \X (1..3), w[2] <= Left(w[1])'
        PROVE  w[2] <= Left(w[1]) /\ w # <<t, Left(t)>>
    <3>1. CASE w[1] = t
      BY <2>2, <3>1, <1>4
    <3>2. CASE w[1] # t
      BY <2>2, <3>2, <1>5
    <3> QED
      BY <3>1, <3>2
  <2> QED
    BY <2>1, <2>2 DEF ToWrite
<1>7. EnoughNumbers' /\ seq \in 1..MaxSeq /\ seq' \in 1..(MaxSeq + 1)
  <2> DEFINE fewer == ToWrite \ {<<t, Left(t)>>}
  <2>1. IsFiniteSet(fewer) /\ Cardinality(fewer) = Cardinality(ToWrite) - 1
    BY <1>6, WritesBounded, FS_RemoveElement
  <2>2. Cardinality(ToWrite') <= Cardinality(fewer) /\ Cardinality(fewer) \in Nat
    BY <1>6, <2>1, FS_Subset, FS_CardinalityType
  <2>3. Cardinality(ToWrite') \in Nat
    BY <1>6, <2>1, FS_Subset, FS_CardinalityType
  <2> QED
    BY <2>1, <2>2, <2>3, <1>1, WritesBounded DEF EnoughNumbers
<1>8. EnoughChanges'
  <2>1. \A u \in Tasks \ {t} : HasControl(u)' <=> HasControl(u)
    BY DEF HasControl, Written
  <2>2. Commanding' \in SUBSET Commanding
    BY <2>1, <1>2 DEF Commanding, Stages
  <2>3. Cardinality(Commanding') <= Cardinality(Commanding) /\ Cardinality(Commanding') \in Nat
    BY <2>2, CommandsFinite, FS_Subset, FS_CardinalityType
  <2> QED
    BY <2>3, <1>1, CommandsFinite DEF EnoughChanges
<1> QED
  BY <1>7, <1>8

LEMMA Writes ==
  ASSUME IInv, NEW t \in Tasks, NEW kind \in {"start", "finish", "query", "control"},
         NEW stage, <<pc[t], stage>> \in Stages,
         kind = "control" => stage = "await" /\ op[t] = "command",
         NEW c \in Connections, c.up = conn[t].up, c.proto \in Versions,
         \A i \in 1..Len(c.down) : c.down[i].kind = "dps" => c.down[i].val >= began[t],
         Goto(t, stage), Write(t, kind, c),
         UNCHANGED <<backoff, hint, shown, op, began, result, deviceVars, requests, faults>>
  PROVE  IInv'
<1> USE DEF IInv
<1> DEFINE frame == Up(kind, c.proto, seq)
           w == [c EXCEPT !.up = Append(@, frame)]
<1>1. /\ pc \in [Tasks -> {"idle", "check", "connect", "probe", "ready", "await"}]
      /\ conn \in [Tasks -> Connections] /\ seq \in 1..(MaxSeq + 1)
  BY DEF TypeOK, Connections, Frames, Words
<1>2. pc' = [pc EXCEPT ![t] = stage] /\ conn' = [conn EXCEPT ![t] = w] /\ seq' = seq + 1
  BY DEF Goto, Write, NextSeq
<1>3. \A u \in Tasks : u # t => conn'[u] = conn[u] /\ pc'[u] = pc[u]
  BY <1>1, <1>2
<1>4. conn'[t] = w /\ pc'[t] = stage
  BY <1>1, <1>2
<1>5. EnoughNumbers' /\ EnoughChanges' /\ seq \in 1..MaxSeq /\ seq' \in 1..(MaxSeq + 1)
  <2>1. UNCHANGED <<op, val, late, requests>>
    BY DEF deviceVars
  <2> QED
    BY <1>2, <1>3, <2>1, WriteCounts
<1>6. frame \in Frames /\ frame.seq = seq /\ frame.kind = kind
  BY <1>5 DEF Up, Frames
<1>7. /\ c.up \in Seq(Frames) /\ Len(c.up) \in Nat
      /\ Append(c.up, frame) \in Seq(Frames)
      /\ Len(Append(c.up, frame)) = Len(c.up) + 1
      /\ \A i \in 1..Len(c.up) : Append(c.up, frame)[i] = c.up[i]
      /\ Append(c.up, frame)[Len(c.up) + 1] = frame
  <2>1. c.up \in Seq(Frames)
    BY DEF Connections
  <2> QED
    BY <2>1, <1>6, AppendProperties
<1>8. /\ w \in Connections /\ w.up = Append(c.up, frame) /\ w.down = c.down
      /\ w.proto = c.proto
  BY <1>7 DEF Connections
<1>9. conn' \in [Tasks -> Connections]
  BY <1>1, <1>2, <1>8
<1>10. TypeOK'
  BY <1>2, <1>1, <1>5, <1>9 DEF TypeOK, Stages, deviceVars, Connections, Frames, Words
<1>11. Idle'
  BY <1>3, <1>4, <1>8 DEF Idle, Stages
<1>12. Orderly'
  <2> SUFFICES ASSUME NEW u \in Tasks PROVE InOrder(u)'
    BY DEF Orderly
  <2>1. CASE u # t
    BY <2>1, <1>3 DEF Orderly, InOrder, HasControl, Written, deviceVars
  <2>2. CASE u = t
    <3>1. \A i \in Written(t) : conn[t].up[i].kind # "control"
      BY DEF Orderly, InOrder, HasControl, Stages
    <3>2. \A i \in Written(t)' : conn'[t].up[i].kind = "control" => i = Len(conn'[t].up) /\ kind = "control"
      BY <3>1, <1>4, <1>6, <1>7, <1>8 DEF Written
    <3>3. HasControl(t)' => pc'[t] = "await" /\ op[t] = "command"
      BY <3>2, <1>4 DEF HasControl
    <3>4. result[t] = "none" /\ ~done[t]
      BY DEF Orderly, InOrder, Stages
    <3> QED
      BY <2>2, <3>2, <3>3, <3>4 DEF InOrder, deviceVars
  <2> QED
    BY <2>1, <2>2
<1>13. Aged'
  <2> SUFFICES ASSUME NEW u \in Tasks PROVE HeardSince(u)'
    BY DEF Aged
  <2>1. CASE u # t
    BY <2>1, <1>3 DEF Aged, HeardSince, Unread, deviceVars
  <2>2. CASE u = t
    BY <2>2, <1>4, <1>8 DEF Aged, HeardSince, Unread, deviceVars
  <2> QED
    BY <2>1, <2>2
<1>14. Fresh'
  <2> SUFFICES ASSUME NEW a \in Tasks, NEW b \in Tasks, NEW i \in Written(a)', NEW j \in Written(b)'
               PROVE  /\ conn'[a].up[i].seq < seq'
                      /\ conn'[a].up[i].seq = conn'[b].up[j].seq => a = b /\ i = j
    BY DEF Fresh
  <2>1. ASSUME NEW u \in Tasks, NEW k \in Written(u)'
        PROVE  \/ k \in Written(u) /\ conn'[u].up[k] = conn[u].up[k] /\ conn[u].up[k].seq < seq
               \/ u = t /\ k = Len(c.up) + 1 /\ conn'[u].up[k].seq = seq
    <3>1. CASE u # t
      BY <2>1, <3>1, <1>3 DEF Written, Fresh
    <3>2. CASE u = t
      BY <2>1, <3>2, <1>4, <1>6, <1>7, <1>8 DEF Written, Fresh
    <3> QED
      BY <3>1, <3>2
  <2>2. \A u \in Tasks : \A k \in Written(u) : conn[u].up[k].seq \in Nat
    BY ConnTyped DEF Frames
  <2>3. conn'[a].up[i].seq < seq'
    <3>1. CASE i \in Written(a) /\ conn'[a].up[i] = conn[a].up[i] /\ conn[a].up[i].seq < seq
      <4>1. conn[a].up[i].seq \in Nat /\ conn[a].up[i].seq < seq /\ seq' = seq + 1 /\ seq \in Nat
        BY <3>1, <2>2, <1>1, <1>2
      <4>2. conn[a].up[i].seq < seq'
        BY <4>1
      <4> QED
        BY <4>2, <3>1
    <3>2. CASE conn'[a].up[i].seq = seq
      BY <3>2, <1>1, <1>2
    <3> QED
      BY <2>1, <3>1, <3>2
  <2>4. conn'[a].up[i].seq = conn'[b].up[j].seq => a = b /\ i = j
    <3> SUFFICES ASSUME conn'[a].up[i].seq = conn'[b].up[j].seq PROVE a = b /\ i = j
      OBVIOUS
    <3> DEFINE Old(u, k) == k \in Written(u) /\ conn'[u].up[k] = conn[u].up[k] /\ conn[u].up[k].seq < seq
               Mine(u, k) == u = t /\ k = Len(c.up) + 1 /\ conn'[u].up[k].seq = seq
    <3>1. (Old(a, i) \/ Mine(a, i)) /\ (Old(b, j) \/ Mine(b, j))
      BY <2>1
    <3>2. CASE Old(a, i) /\ Old(b, j)
      BY <3>2 DEF Fresh
    <3>3. CASE Old(a, i) /\ Mine(b, j)
      <4>1. conn[a].up[i].seq \in Nat /\ conn[a].up[i].seq < seq /\ conn[a].up[i].seq = seq
        BY <2>2, <3>3
      <4> QED
        BY <4>1, <1>1
    <3>4. CASE Mine(a, i) /\ Old(b, j)
      <4>1. conn[b].up[j].seq \in Nat /\ conn[b].up[j].seq < seq /\ conn[b].up[j].seq = seq
        BY <2>2, <3>4
      <4> QED
        BY <4>1, <1>1
    <3>5. CASE Mine(a, i) /\ Mine(b, j)
      BY <3>5
    <3> QED
      BY <3>1, <3>2, <3>3, <3>4, <3>5
  <2> QED
    BY <2>3, <2>4
<1>15. FailedIsUntouched'
  BY DEF FailedIsUntouched, deviceVars
<1> QED
  BY <1>5, <1>10, <1>11, <1>12, <1>13, <1>14, <1>15

-----------------------------------------------------------------------------
(* No call moves: the device, the network and what a call reads over.      *)

(* What has come in at u is from u's call or later.                        *)
NoOlder(u) ==
  \A i \in 1..Len(conn'[u].down) :
    conn'[u].down[i].kind = "dps" => conn'[u].down[i].val >= began[u]

LEMMA DeviceSteps ==
  ASSUME IInv, UNCHANGED <<seq, shown, callVars, version, requests>>,
         hint' \in {None, version},
         conn' \in [Tasks -> Connections], val' \in Nat, val' >= val, late' \in Nat,
         session' \in [Tasks -> {"new", "asked", "agreed"}],
         done' \in [Tasks -> BOOLEAN],
         faults' \in 0..MaxFaults, backoff' \in BOOLEAN,
         EnoughChanges',
         \A u \in Tasks : /\ Rest(u) /\ NoOlder(u)
                          /\ conn'[u].proto = conn[u].proto
                          /\ conn[u] = NoConn => conn'[u] = NoConn
                          /\ done'[u] # done[u] => pc[u] = "await"
  PROVE  IInv'
<1> USE DEF IInv
<1>1. UNCHANGED <<pc, op, began, result>>
  BY DEF callVars
<1>2. val' \in 0..MaxVal /\ late' \in 0..MaxRequests
  <2>1. Commanding' \in SUBSET Tasks
    BY DEF Commanding
  <2>2. Cardinality(Commanding') \in Nat
    BY <2>1, TasksFinite, FS_Subset, FS_CardinalityType
  <2>3. requests \in 0..MaxRequests /\ MaxRequests \in Nat /\ MaxChanges \in Nat
    BY SessionAssumption DEF TypeOK
  <2> QED
    BY <2>2, <2>3 DEF EnoughChanges, MaxVal
<1>3. TypeOK'
  BY <1>1, <1>2 DEF TypeOK, Connections, Frames, Words
<1>4. Idle'
  BY <1>1 DEF Idle
<1>5. Orderly'
  <2> SUFFICES ASSUME NEW u \in Tasks PROVE InOrder(u)'
    BY DEF Orderly
  <2>1. InOrder(u) /\ Rest(u)
    BY DEF Orderly
  <2>2. /\ HasControl(u)' => HasControl(u)
        /\ \A i \in Written(u)' : conn'[u].up[i].kind = "control" => i = Len(conn'[u].up)
    BY <2>1, RestsInOrder
  <2>3. pc[u] # "await" => done'[u] = done[u]
    OBVIOUS
  <2> QED
    BY <2>1, <2>2, <2>3, <1>1 DEF InOrder
<1>6. Aged'
  <2> SUFFICES ASSUME NEW u \in Tasks PROVE HeardSince(u)'
    BY DEF Aged
  <2>1. began[u] <= val /\ began[u] \in Nat /\ val \in Nat
    BY DEF Aged, HeardSince, TypeOK
  <2> QED
    BY <2>1, <1>1 DEF HeardSince, Unread, NoOlder
<1>7. Fresh'
  BY RestsAreFresh
<1>8. EnoughNumbers'
  <2>1. ToWrite' = ToWrite
    BY <1>1 DEF ToWrite, Left
  <2> QED
    BY <2>1 DEF EnoughNumbers
<1>9. FailedIsUntouched'
  BY <1>1 DEF FailedIsUntouched, Orderly, InOrder
<1> QED
  BY <1>3, <1>4, <1>5, <1>6, <1>7, <1>8, <1>9

(* The counts of commands when none is sent, or that of t reaches the      *)
(* device.                                                                 *)
LEMMA FewerCommands ==
  ASSUME IInv, UNCHANGED <<pc, op, requests>>, \A u \in Tasks : Rest(u)
  PROVE  /\ Commanding' \in SUBSET Commanding
         /\ Cardinality(Commanding') \in Nat
         /\ Cardinality(Commanding') <= Cardinality(Commanding)
         /\ UNCHANGED <<val, late>> => EnoughChanges'
         /\ \A t \in Commanding :
              ~HasControl(t)' /\ pc[t] = "await" => Cardinality(Commanding') <= Cardinality(Commanding) - 1
<1> USE DEF IInv
<1>1. \A u \in Tasks : HasControl(u)' => HasControl(u)
  BY RestsInOrder DEF Orderly
<1>2. Commanding' \in SUBSET Commanding
  BY <1>1 DEF Commanding
<1>3. Cardinality(Commanding') <= Cardinality(Commanding) /\ Cardinality(Commanding') \in Nat
  BY <1>2, CommandsFinite, FS_Subset, FS_CardinalityType
<1>4. ASSUME UNCHANGED <<val, late>>
      PROVE  EnoughChanges'
  <2>1. /\ late \in 0..MaxRequests /\ requests \in 0..MaxRequests /\ val \in 0..MaxVal
        /\ MaxChanges \in Nat /\ MaxRequests \in Nat
    BY SessionAssumption DEF TypeOK
  <2> QED
    BY <1>3, <1>4, <2>1, CommandsFinite DEF EnoughChanges
<1>5. ASSUME NEW t \in Commanding, ~HasControl(t)', pc[t] = "await"
      PROVE  Cardinality(Commanding') <= Cardinality(Commanding) - 1
  <2>1. Commanding' \in SUBSET (Commanding \ {t})
    BY <1>2, <1>5 DEF Commanding
  <2>2. IsFiniteSet(Commanding \ {t}) /\ Cardinality(Commanding \ {t}) = Cardinality(Commanding) - 1
    BY CommandsFinite, FS_RemoveElement
  <2> QED
    BY <2>1, <2>2, FS_Subset
<1> QED
  BY <1>2, <1>3, <1>4, <1>5

LEMMA TalkingIsOpen ==
  ASSUME NEW u \in Tasks
  PROVE  Talking(u) => conn[u].status = "open"
  BY DEF Talking

(* What Answered does to every connection.                                 *)
LEMMA Answers ==
  ASSUME IInv, NEW t \in Tasks, conn[t].up # <<>>,
         NEW frames \in Seq(Words), NEW push \in BOOLEAN,
         push => val + 1 \in 0..MaxVal,
         \A i \in 1..Len(frames) : frames[i].kind = "dps" => frames[i].val >= val,
         Answered(t, frames, push)
  PROVE  /\ conn' \in [Tasks -> Connections]
         /\ \A u \in Tasks : /\ Rest(u) /\ NoOlder(u)
                             /\ conn'[u].proto = conn[u].proto
                             /\ conn[u] = NoConn => conn'[u] = NoConn
         /\ conn'[t].up = Tail(conn[t].up)
<1> USE DEF IInv
<1> DEFINE more(u) == IF push /\ u # t /\ Talking(u) THEN <<Down("dps", val + 1, FALSE)>> ELSE <<>>
           heard(u) == IF u = t THEN conn[u].down \o frames ELSE conn[u].down
           sent(u) == IF u = t THEN Tail(conn[u].up) ELSE conn[u].up
<1>1. \A u \in Tasks : conn'[u] = [conn[u] EXCEPT !.up = sent(u), !.down = heard(u) \o more(u)]
  BY DEF Answered
<1>2. DOMAIN conn' = Tasks /\ conn' = [u \in Tasks |-> conn'[u]]
  BY DEF Answered
<1>3. ASSUME NEW u \in Tasks
      PROVE  sent(u) \in Seq(Frames)
  BY <1>3, ConnTyped, HeadTailProperties
<1>4. ASSUME NEW u \in Tasks
      PROVE  /\ more(u) \in Seq(Words)
             /\ \A i \in 1..Len(more(u)) : more(u)[i].val = val + 1
  <2>1. CASE push /\ u # t /\ Talking(u)
    <3>1. Down("dps", val + 1, FALSE) \in Words /\ Down("dps", val + 1, FALSE).val = val + 1
      BY <2>1 DEF Down, Words
    <3>2. more(u) = <<Down("dps", val + 1, FALSE)>>
      BY <2>1, Zenon
    <3>3. \A d \in Words : <<d>> \in Seq(Words) /\ Len(<<d>>) = 1 /\ <<d>>[1] = d
      OBVIOUS
    <3> HIDE DEF more
    <3>4. more(u) \in Seq(Words) /\ Len(more(u)) = 1 /\ more(u)[1].val = val + 1
      BY <3>1, <3>2, <3>3
    <3> QED
      BY <3>4
  <2>2. CASE ~(push /\ u # t /\ Talking(u))
    <3>1. more(u) = <<>>
      BY <2>2, Zenon
    <3> HIDE DEF more
    <3> QED
      BY <3>1
  <2> QED
    BY <2>1, <2>2
<1>5. val \in Nat /\ \A u \in Tasks : began[u] \in Nat /\ began[u] <= val
  BY DEF Aged, HeardSince, TypeOK
<1>6. ASSUME NEW u \in Tasks
      PROVE  /\ heard(u) \in Seq(Words)
             /\ \A i \in 1..Len(heard(u)) : heard(u)[i].kind = "dps" => heard(u)[i].val >= began[u]
  <2>0. /\ conn[u].down \in Seq(Words)
        /\ \A i \in 1..Len(conn[u].down) : conn[u].down[i].kind = "dps" => conn[u].down[i].val >= began[u]
    BY ConnTyped DEF Aged, HeardSince, Unread
  <2>1. CASE u = t
    <3>1. /\ conn[u].down \o frames \in Seq(Words)
          /\ Len(conn[u].down \o frames) = Len(conn[u].down) + Len(frames)
          /\ \A i \in 1..Len(conn[u].down) + Len(frames) : (conn[u].down \o frames)[i] =
               IF i <= Len(conn[u].down) THEN conn[u].down[i] ELSE frames[i - Len(conn[u].down)]
      BY <2>0, ConcatProperties
    <3>2. Len(conn[u].down) \in Nat /\ Len(frames) \in Nat
      BY <2>0
    <3>3. \A i \in 1..Len(frames) : frames[i].kind = "dps" => frames[i].val >= began[u]
      <4>1. ASSUME NEW i \in 1..Len(frames)
            PROVE  frames[i].val \in Nat
        <5>1. frames[i] \in Words
          OBVIOUS
        <5> QED
          BY <5>1 DEF Words
      <4> QED
        BY <4>1, <1>5
    <3>4. ASSUME NEW i \in 1..Len(conn[u].down) + Len(frames), (conn[u].down \o frames)[i].kind = "dps"
          PROVE  (conn[u].down \o frames)[i].val >= began[u]
      <4>1. CASE i <= Len(conn[u].down)
        BY <2>0, <3>1, <3>2, <3>4, <4>1
      <4>2. CASE ~(i <= Len(conn[u].down))
        <5>1. i - Len(conn[u].down) \in 1..Len(frames)
          BY <3>2, <3>4, <4>2
        <5>2. (conn[u].down \o frames)[i] = frames[i - Len(conn[u].down)]
          BY <3>1, <4>2
        <5> QED
          BY <3>3, <3>4, <5>1, <5>2
      <4> QED
        BY <4>1, <4>2
    <3> QED
      BY <2>1, <3>1, <3>4
  <2>2. CASE u # t
    BY <2>0, <2>2
  <2> QED
    BY <2>1, <2>2
<1> HIDE DEF more, heard, sent
<1>7. ASSUME NEW u \in Tasks
      PROVE  /\ heard(u) \o more(u) \in Seq(Words)
             /\ Len(heard(u) \o more(u)) = Len(heard(u)) + Len(more(u))
             /\ \A i \in 1..Len(heard(u)) + Len(more(u)) : (heard(u) \o more(u))[i] =
                  IF i <= Len(heard(u)) THEN heard(u)[i] ELSE more(u)[i - Len(heard(u))]
  BY <1>4, <1>6, ConcatProperties
<1>8. ASSUME NEW u \in Tasks
      PROVE  /\ conn'[u] \in Connections /\ conn'[u].up = sent(u)
             /\ conn'[u].down = heard(u) \o more(u) /\ conn'[u].proto = conn[u].proto
  <2>1. conn[u] \in Connections
    BY ConnTyped
  <2> QED
    BY <1>1, <1>3, <1>7, <2>1 DEF Connections
<1>9. conn' \in [Tasks -> Connections]
  BY <1>2, <1>8
<1>10. ASSUME NEW u \in Tasks
       PROVE  Rest(u)
  BY <1>8, EndsAreRests DEF sent
<1>11. ASSUME NEW u \in Tasks
       PROVE  NoOlder(u)
  <2> SUFFICES ASSUME NEW i \in 1..Len(conn'[u].down), conn'[u].down[i].kind = "dps"
               PROVE  conn'[u].down[i].val >= began[u]
    BY DEF NoOlder
  <2>1. Len(heard(u)) \in Nat /\ Len(more(u)) \in Nat
    BY <1>4, <1>6
  <2>2. i \in 1..Len(heard(u)) + Len(more(u))
    BY <1>7, <1>8
  <2>3. CASE i <= Len(heard(u))
    <3>1. conn'[u].down[i] = heard(u)[i] /\ i \in 1..Len(heard(u))
      BY <1>7, <1>8, <2>1, <2>2, <2>3
    <3> QED
      BY <1>6, <3>1
  <2>4. CASE ~(i <= Len(heard(u)))
    <3>1. i - Len(heard(u)) \in 1..Len(more(u))
      BY <2>1, <2>2, <2>4
    <3>2. conn'[u].down[i] = more(u)[i - Len(heard(u))]
      BY <1>7, <1>8, <2>2, <2>4
    <3>3. conn'[u].down[i].val = val + 1
      BY <1>4, <3>1, <3>2
    <3> QED
      BY <1>5, <3>3
  <2> QED
    BY <2>3, <2>4
<1>12. ASSUME NEW u \in Tasks, conn[u] = NoConn
       PROVE  conn'[u] = NoConn
  <2>1. u # t
    BY <1>12, NoConnIs
  <2>2. ~Talking(u)
    BY <1>12, NoConnIs, TalkingIsOpen
  <2>3. sent(u) = <<>> /\ heard(u) = <<>> /\ more(u) = <<>>
    BY <1>12, <2>1, <2>2, NoConnIs DEF sent, heard, more
  <2>4. heard(u) \o more(u) = <<>>
    BY <2>3
  <2>5. conn'[u] = [NoConn EXCEPT !.up = <<>>, !.down = <<>>]
    BY <1>1, <1>12, <2>3, <2>4
  <2> QED
    BY <2>5 DEF NoConn
<1>13. conn'[t].up = Tail(conn[t].up)
  BY <1>8 DEF sent
<1> QED
  BY <1>8, <1>9, <1>10, <1>11, <1>12, <1>13

-----------------------------------------------------------------------------
(* The actions of the calls.                                               *)

LEMMA InitIInv == Init => IInv
<1> SUFFICES ASSUME Init PROVE IInv
  OBVIOUS
<1> USE SessionAssumption DEF Init
<1>1. conn \in [Tasks -> Connections]
  BY NoConnIs
<1>2. version \in DeviceVersions /\ DeviceVersions \subseteq Versions /\ MaxVal \in Nat
  BY DEF MaxVal
<1>3. TypeOK
  <2>1. /\ conn \in [Tasks ->
            [status : {"none", "open", "closed", "reset"}, proto : Versions \cup {None},
             up : Seq(Frames), down : Seq(Words)]]
    BY <1>1 DEF Connections
  <2>2. /\ pc \in [Tasks -> {"idle", "check", "connect", "probe", "ready", "await"}]
        /\ op \in [Tasks -> Ops] /\ began \in [Tasks -> 0..MaxVal]
        /\ result \in [Tasks -> {"none", "ok", "err", "dropped"}]
        /\ session \in [Tasks -> {"new", "asked", "agreed"}]
        /\ done \in [Tasks -> BOOLEAN]
    BY <1>2 DEF Ops
  <2>3. seq \in 1..(MaxSeq + 1) /\ late \in 0..MaxRequests /\ val \in 0..MaxVal
        /\ requests \in 0..MaxRequests /\ faults \in 0..MaxFaults
    BY <1>2
  <2> QED
    BY <1>2, <2>1, <2>2, <2>3 DEF TypeOK, Frames, Words
<1>4. Idle
  BY DEF Idle
<1>5. Orderly /\ Aged /\ Fresh
  BY NoConnIs DEF Orderly, InOrder, HasControl, Aged, HeardSince, Fresh, Written, Unread
<1>6. EnoughNumbers
  <2>1. ToWrite = {}
    BY DEF ToWrite, Left
  <2> QED
    BY <2>1, FS_EmptySet DEF EnoughNumbers
<1>7. EnoughChanges
  <2>1. Commanding = {}
    BY DEF Commanding
  <2> QED
    BY <2>1, FS_EmptySet DEF EnoughChanges
<1>8. FailedIsUntouched
  BY DEF FailedIsUntouched
<1> QED
  BY <1>3, <1>4, <1>5, <1>6, <1>7, <1>8 DEF IInv

(* A call begins: a command is counted as a request first.                 *)
LEMMA Begins ==
  ASSUME IInv, NEW t \in Tasks, NEW o \in Ops, NEW stage \in {"check", "connect"},
         Begin(t, o, stage), backoff' \in BOOLEAN,
         requests' \in 0..MaxRequests, requests' \in {requests, requests + 1},
         o = "command" => requests' = requests + 1
  PROVE  IInv'
<1> USE DEF IInv
<1>1. /\ pc \in [Tasks -> {"idle", "check", "connect", "probe", "ready", "await"}]
      /\ op \in [Tasks -> Ops] /\ began \in [Tasks -> 0..MaxVal]
      /\ result \in [Tasks -> {"none", "ok", "err", "dropped"}]
      /\ done \in [Tasks -> BOOLEAN] /\ conn \in [Tasks -> Connections]
      /\ session \in [Tasks -> {"new", "asked", "agreed"}]
      /\ val \in 0..MaxVal
  BY DEF TypeOK, Connections, Frames, Words
<1>2. /\ val \in Nat /\ late \in Nat /\ requests \in Nat /\ MaxSeq \in Nat
      /\ MaxChanges \in Nat /\ seq \in Nat
  BY SessionAssumption DEF TypeOK
<1>3. /\ pc' = [pc EXCEPT ![t] = stage] /\ op' = [op EXCEPT ![t] = o]
      /\ began' = [began EXCEPT ![t] = val] /\ result' = [result EXCEPT ![t] = "none"]
      /\ session' = [session EXCEPT ![t] = "new"] /\ done' = [done EXCEPT ![t] = FALSE]
      /\ UNCHANGED <<seq, version, hint, conn, shown, val, late, faults>>
      /\ pc[t] = "idle" /\ seq + 3 * Cardinality(Tasks) <= MaxSeq + 1
  BY DEF Begin, Goto
<1>4. /\ pc'[t] = stage /\ op'[t] = o /\ began'[t] = val /\ result'[t] = "none" /\ ~done'[t]
      /\ \A u \in Tasks : u # t => /\ pc'[u] = pc[u] /\ op'[u] = op[u] /\ began'[u] = began[u]
                                   /\ result'[u] = result[u] /\ done'[u] = done[u]
  BY <1>1, <1>3
<1>5. conn[t] = NoConn
  BY <1>3 DEF Idle
<1>6. TypeOK'
  BY <1>1, <1>3 DEF TypeOK
<1>7. Idle'
  BY <1>3, <1>4, <1>5 DEF Idle
<1>8. Orderly'
  BY <1>3, <1>4, <1>5, NoConnIs DEF Orderly, InOrder, HasControl, Written
<1>9. Aged'
  BY <1>1, <1>3, <1>4, <1>5, NoConnIs DEF Aged, HeardSince, Unread
<1>10. Fresh'
  <2>1. conn' = conn /\ seq' = seq
    BY <1>3
  <2> QED
    BY <2>1 DEF Fresh, Written
<1>11. EnoughNumbers'
  <2>1. Cardinality(ToWrite') \in Nat /\ Cardinality(ToWrite') <= 3 * Cardinality(Tasks)
    <3>1. ToWrite' \in SUBSET (Tasks \X (1..3))
      BY DEF ToWrite
    <3> QED
      BY <3>1, WritesCounted
  <2> QED
    BY <2>1, <1>2, <1>3, TasksFinite DEF EnoughNumbers
<1>12. EnoughChanges'
  <2>1. \A u \in Tasks : HasControl(u)' <=> HasControl(u)
    BY <1>3 DEF HasControl, Written
  <2>2. CASE o = "command"
    <3>1. Commanding' = Commanding \cup {t} /\ t \notin Commanding
      BY <1>3, <1>4, <2>1, <2>2 DEF Commanding
    <3>2. Cardinality(Commanding') = Cardinality(Commanding) + 1
      BY <3>1, CommandsFinite, FS_AddElement
    <3> QED
      BY <3>2, <2>2, <1>2, <1>3, CommandsFinite DEF EnoughChanges
  <2>3. CASE o # "command"
    <3>1. Commanding' = Commanding
      BY <1>3, <1>4, <2>1, <2>3 DEF Commanding
    <3> QED
      BY <3>1, <1>2, <1>3, CommandsFinite DEF EnoughChanges
  <2> QED
    BY <2>2, <2>3
<1>13. FailedIsUntouched'
  BY <1>4 DEF FailedIsUntouched
<1> QED
  BY <1>6, <1>7, <1>8, <1>9, <1>10, <1>11, <1>12, <1>13

(* A call goes on without writing: past the back-off, or on a connection   *)
(* of version 3.3 just opened.                                             *)
Leaps == {<<"check", "connect">>, <<"connect", "ready">>}

Becomes(t, c) == conn' = [conn EXCEPT ![t] = c]

LEMMA GoesOn ==
  ASSUME IInv, NEW t \in Tasks, NEW stage,
         <<pc[t], stage>> \in Leaps,
         Goto(t, stage), NEW c \in Connections, Becomes(t, c),
         c.up = <<>>, c.down = <<>>,
         stage = "connect" => c = NoConn, stage = "ready" => c.proto \in Versions,
         UNCHANGED <<seq, backoff, hint, shown, op, began, result, deviceVars, requests, faults>>
  PROVE  IInv'
<1> USE DEF IInv, Leaps, Goto, Becomes
<1>1. /\ pc \in [Tasks -> {"idle", "check", "connect", "probe", "ready", "await"}]
      /\ conn \in [Tasks -> Connections]
  BY DEF TypeOK, Connections, Frames, Words
<1>2. /\ pc'[t] = stage /\ conn'[t] = c
      /\ \A u \in Tasks : u # t => pc'[u] = pc[u] /\ conn'[u] = conn[u]
  BY <1>1
<1>3. conn[t] = NoConn
  BY DEF Idle
<1>4. UNCHANGED <<version, val, session, done, late>>
  BY DEF deviceVars
<1>5. Len(c.up) = 0 /\ Len(c.down) = 0
  OBVIOUS
<1>6. conn' \in [Tasks -> Connections]
  BY <1>1
<1>7. TypeOK'
  BY <1>1, <1>4, <1>6 DEF TypeOK, Connections, Frames, Words
<1>8. Idle'
  BY <1>2 DEF Idle
<1>9. Orderly'
  <2> SUFFICES ASSUME NEW u \in Tasks PROVE InOrder(u)'
    BY DEF Orderly
  <2>1. CASE u = t
    BY <2>1, <1>2, <1>4, <1>5 DEF Orderly, InOrder, HasControl, Written
  <2>2. CASE u # t
    BY <2>2, <1>2, <1>4 DEF Orderly, InOrder, HasControl, Written
  <2> QED
    BY <2>1, <2>2
<1>10. Aged'
  BY <1>2, <1>4, <1>5 DEF Aged, HeardSince, Unread
<1>11. Fresh'
  <2>1. \A u \in Tasks : Rest(u)
    BY <1>2, EndsAreRests
  <2> QED
    BY <2>1, <1>6, RestsAreFresh
<1>12. EnoughNumbers'
  <2>1. \A u \in Tasks : Left(u)' <= Left(u) /\ Left(u) \in 0..3 /\ Left(u)' \in 0..3
    BY <1>2 DEF Left
  <2>2. ToWrite' \in SUBSET ToWrite
    BY <2>1 DEF ToWrite
  <2>3. Cardinality(ToWrite') <= Cardinality(ToWrite) /\ Cardinality(ToWrite') \in Nat
    BY <2>2, WritesBounded, FS_Subset, FS_CardinalityType
  <2>4. seq \in Nat /\ MaxSeq \in Nat
    BY SessionAssumption DEF TypeOK
  <2> QED
    BY <2>3, <2>4, WritesBounded DEF EnoughNumbers
<1>13. EnoughChanges'
  <2>1. \A u \in Tasks : u # t => (HasControl(u)' <=> HasControl(u))
    BY <1>2 DEF HasControl, Written
  <2>2. Commanding' = Commanding
    BY <1>2, <2>1 DEF Commanding
  <2> QED
    BY <2>2, <1>4 DEF EnoughChanges
<1>14. FailedIsUntouched'
  BY <1>4 DEF FailedIsUntouched
<1> QED
  BY <1>7, <1>8, <1>9, <1>10, <1>11, <1>12, <1>13, <1>14

LEMMA SupervisorPollIInv == IInv /\ SupervisorPoll => IInv'
<1> SUFFICES ASSUME IInv, SupervisorPoll PROVE IInv'
  OBVIOUS
<1>1. Begin(Supervisor, "poll", "check") /\ UNCHANGED <<backoff, requests>>
  BY DEF SupervisorPoll
<1>2. Supervisor \in Tasks /\ "poll" \in Ops
  BY DEF Tasks, Ops
<1>3. backoff' \in BOOLEAN /\ requests' \in 0..MaxRequests /\ requests' = requests
  BY <1>1 DEF IInv, TypeOK
<1> QED
  BY <1>1, <1>2, <1>3, Begins

LEMMA RequestIInv ==
  ASSUME IInv, NEW t \in Tasks, NEW o \in Ops, Request(t, o)
  PROVE  IInv'
<1>1. /\ backoff' \in BOOLEAN /\ requests' = requests + 1 /\ requests' \in 0..MaxRequests
  <2>1. backoff' = FALSE /\ requests' = requests + 1 /\ requests < MaxRequests
    BY DEF Request
  <2>2. requests \in 0..MaxRequests /\ MaxRequests \in Nat
    BY SessionAssumption DEF IInv, TypeOK
  <2>3. backoff' \in BOOLEAN
    BY <2>1
  <2>4. requests' \in 0..MaxRequests
    BY <2>1, <2>2
  <2> QED
    BY <2>1, <2>3, <2>4
<1>2. CASE o = "poll"
  <2>1. Begin(t, o, "check")
    BY <1>2 DEF Request
  <2> QED
    BY <2>1, <1>1, Begins
<1>3. CASE o # "poll"
  <2>1. Begin(t, o, "connect")
    BY <1>3 DEF Request
  <2> QED
    BY <2>1, <1>1, Begins
<1> QED
  BY <1>2, <1>3

LEMMA CheckIInv ==
  ASSUME IInv, NEW t \in Tasks, Check(t)
  PROVE  IInv'
<1>1. conn[t] = NoConn /\ conn \in [Tasks -> Connections]
  BY DEF Check, IInv, Idle, TypeOK, Connections, Frames, Words
<1>2. Becomes(t, NoConn)
  BY <1>1 DEF Check, Becomes
<1>3. pc[t] = "check" /\ Goto(t, "connect")
  BY DEF Check
<1>4. UNCHANGED <<seq, backoff, hint, shown, op, began, result, deviceVars, requests, faults>>
  BY DEF Check
<1>5. <<pc[t], "connect">> \in Leaps
  BY <1>3 DEF Leaps
<1>6. NoConn \in Connections /\ NoConn.up = <<>> /\ NoConn.down = <<>>
  BY NoConnIs
<1> QED
  BY <1>2, <1>3, <1>4, <1>5, <1>6, GoesOn

LEMMA SuppressedIInv ==
  ASSUME IInv, NEW t \in Tasks, Suppressed(t)
  PROVE  IInv'
<1>1. backoff' \in BOOLEAN /\ faults' \in 0..MaxFaults
  BY DEF Suppressed, IInv, TypeOK
<1> QED
  BY <1>1, Returns DEF Suppressed

LEMMA HintsAreVersions ==
  ASSUME IInv
  PROVE  VersionHint \in Versions \cup {None}
  BY SessionAssumption DEF IInv, TypeOK, VersionHint, ConfigVersion

LEMMA ConnectedIInv ==
  ASSUME IInv, NEW t \in Tasks, Connected(t)
  PROVE  IInv'
<1> DEFINE c == Opened(t)
<1>1. VersionHint \in Versions /\ pc[t] = "connect"
  BY HintsAreVersions DEF Connected
<1>2. conn[t] = NoConn
  BY <1>1 DEF IInv, Idle
<1>3. c \in Connections /\ c.up = <<>> /\ c.down = <<>> /\ c.proto = VersionHint
  BY <1>1, <1>2, NoConnIs DEF Opened, Connections
<1> HIDE DEF c
<1>4. CASE VersionHint = "3.3"
  <2>1. /\ Goto(t, "ready") /\ Becomes(t, c)
        /\ UNCHANGED <<seq, backoff, hint, shown, op, began, result, deviceVars, requests, faults>>
    BY <1>4 DEF Connected, Becomes, c
  <2>2. <<pc[t], "ready">> \in Leaps
    BY <1>1 DEF Leaps
  <2> QED
    BY <1>1, <1>3, <2>1, <2>2, GoesOn
<1>5. CASE VersionHint # "3.3"
  <2>1. /\ Goto(t, "probe") /\ Write(t, "start", c)
        /\ UNCHANGED <<backoff, hint, shown, op, began, result, deviceVars, requests, faults>>
    BY <1>5 DEF Connected, c
  <2>2. <<pc[t], "probe">> \in Stages /\ c.up = conn[t].up /\ Len(c.down) = 0
    BY <1>1, <1>2, <1>3, NoConnIs DEF Stages
  <2> QED
    BY <1>1, <1>3, <2>1, <2>2, Writes
<1> QED
  BY <1>4, <1>5

LEMMA FailOpens ==
  ASSUME IInv, NEW t \in Tasks, pc[t] \in {"connect", "probe", "ready"},
         NEW reset \in BOOLEAN, FailOpen(t, reset), faults' \in 0..MaxFaults
  PROVE  IInv'
<1>1. backoff' \in BOOLEAN
  BY DEF FailOpen, MaybeSetBackoff, IInv, TypeOK
<1>2. CASE op[t] = "poll"
  <2>1. Return(t, "ok", Offline)
    BY <1>2 DEF FailOpen
  <2> QED
    BY <1>1, <2>1, Returns
<1>3. CASE op[t] # "poll"
  <2>1. Return(t, "err", None)
    BY <1>3 DEF FailOpen
  <2> QED
    BY <1>1, <2>1, Returns
<1> QED
  BY <1>2, <1>3

LEMMA FailAwaits ==
  ASSUME IInv, NEW t \in Tasks, pc[t] # "idle",
         NEW reset \in BOOLEAN, FailAwait(t, reset), faults' \in 0..MaxFaults
  PROVE  IInv'
<1>1. backoff' \in BOOLEAN
  BY DEF FailAwait, MaybeSetBackoff, IInv, TypeOK
<1>2. CASE op[t] = "poll"
  <2>1. Return(t, "ok", Offline)
    BY <1>2 DEF FailAwait
  <2> QED
    BY <1>1, <2>1, Returns
<1>3. CASE op[t] # "poll"
  <2>1. Return(t, "ok", None)
    BY <1>3 DEF FailAwait
  <2> QED
    BY <1>1, <2>1, Returns
<1> QED
  BY <1>2, <1>3

LEMMA FaultsTyped ==
  ASSUME IInv
  PROVE  /\ faults \in 0..MaxFaults
         /\ faults < MaxFaults => faults + 1 \in 0..MaxFaults
  BY SessionAssumption DEF IInv, TypeOK

LEMMA FailureIInv ==
  ASSUME IInv, NEW t \in Tasks,
         \/ VersionUnknown(t) \/ Refusal(t) \/ ProbeRefused(t) \/ Broken(t) \/ TimedOut(t)
         \/ \E reset \in BOOLEAN : Refused(t, reset)
  PROVE  IInv'
<1>1. CASE VersionUnknown(t)
  BY <1>1, FailOpens, FaultsTyped DEF VersionUnknown
<1>2. CASE Refusal(t)
  BY <1>2, FailAwaits, FaultsTyped DEF Refusal
<1>3. CASE ProbeRefused(t)
  BY <1>3, FailOpens, FaultsTyped DEF ProbeRefused
<1>4. CASE Broken(t)
  BY <1>4, FailOpens, FailAwaits, FaultsTyped DEF Broken
<1>5. CASE TimedOut(t)
  BY <1>5, FailOpens, FailAwaits, FaultsTyped DEF TimedOut
<1>6. CASE \E reset \in BOOLEAN : Refused(t, reset)
  BY <1>6, FailOpens, FaultsTyped DEF Refused
<1> QED
  BY <1>1, <1>2, <1>3, <1>4, <1>5, <1>6

LEMMA AbandonIInv ==
  ASSUME IInv, NEW t \in Tasks, Abandon(t)
  PROVE  IInv'
<1>1. backoff' \in BOOLEAN /\ faults' \in 0..MaxFaults
  BY DEF Abandon, IInv, TypeOK
<1> QED
  BY <1>1, Returns DEF Abandon

(* What is read from a connection that has something to read.              *)
LEMMA ReadsOn ==
  ASSUME IInv, NEW t \in Tasks, conn[t].down # <<>>
  PROVE  /\ Heard(t) \in Words
         /\ Heard(t).kind = "dps" => Heard(t).val >= began[t]
         /\ Read(t) \in Connections /\ Read(t).up = conn[t].up
         /\ Read(t).proto = conn[t].proto /\ Read(t).status = conn[t].status
         /\ \A i \in 1..Len(Read(t).down) :
              Read(t).down[i].kind = "dps" => Read(t).down[i].val >= began[t]
<1>1. conn[t] \in Connections /\ conn[t].down \in Seq(Words) /\ Len(conn[t].down) \in Nat
  BY ConnTyped DEF IInv
<1>2. Heard(t) \in Words /\ Heard(t) = conn[t].down[1] /\ 1 \in Unread(t)
  BY <1>1 DEF Heard, Unread
<1>3. /\ Tail(conn[t].down) \in Seq(Words)
      /\ Len(Tail(conn[t].down)) = Len(conn[t].down) - 1
      /\ \A i \in 1..Len(Tail(conn[t].down)) : Tail(conn[t].down)[i] = conn[t].down[i + 1]
  BY <1>1, HeadTailProperties
<1>4. /\ Read(t) \in Connections /\ Read(t).up = conn[t].up
      /\ Read(t).proto = conn[t].proto /\ Read(t).status = conn[t].status
      /\ Read(t).down = Tail(conn[t].down)
  BY <1>1, <1>3 DEF Read, Connections
<1>5. \A i \in Unread(t) : conn[t].down[i].kind = "dps" => conn[t].down[i].val >= began[t]
  BY DEF IInv, Aged, HeardSince
<1>6. \A i \in 1..Len(Tail(conn[t].down)) : i + 1 \in Unread(t)
  BY <1>1, <1>3 DEF Unread
<1>7. ASSUME NEW i \in 1..Len(Read(t).down), Read(t).down[i].kind = "dps"
      PROVE  Read(t).down[i].val >= began[t]
  <2>1. i + 1 \in Unread(t) /\ Read(t).down[i] = conn[t].down[i + 1]
    BY <1>3, <1>4, <1>6
  <2> QED
    BY <2>1, <1>5, <1>7
<1> QED
  BY <1>2, <1>4, <1>5, <1>7

LEMMA FinishIInv ==
  ASSUME IInv, NEW t \in Tasks, Finish(t)
  PROVE  IInv'
<1>1. pc[t] = "probe" /\ conn[t].down # <<>>
  BY DEF Finish, Readable
<1>2. /\ Goto(t, "ready") /\ Write(t, "finish", Read(t))
      /\ UNCHANGED <<backoff, hint, shown, op, began, result, deviceVars, requests, faults>>
  BY DEF Finish
<1>3. conn[t].proto \in Versions /\ <<pc[t], "ready">> \in Stages
  BY <1>1 DEF IInv, Idle, Stages
<1> QED
  BY <1>1, <1>2, <1>3, ReadsOn, Writes

LEMMA SendIInv ==
  ASSUME IInv, NEW t \in Tasks, Send(t)
  PROVE  IInv'
<1> DEFINE kind == IF op[t] = "poll" THEN "query" ELSE "control"
<1>1. /\ Goto(t, "await") /\ Write(t, kind, conn[t])
      /\ UNCHANGED <<backoff, hint, shown, op, began, result, deviceVars, requests, faults>>
      /\ pc[t] = "ready"
  BY DEF Send
<1>2. conn[t].proto \in Versions /\ <<pc[t], "await">> \in Stages
  BY <1>1 DEF IInv, Idle, Stages
<1>3. op[t] \in Ops
  BY DEF IInv, TypeOK
<1>4. kind \in {"start", "finish", "query", "control"} /\ (kind = "control" => op[t] = "command")
  BY <1>3 DEF Ops
<1>5. conn[t] \in Connections
  BY ConnTyped DEF IInv
<1>6. \A i \in 1..Len(conn[t].down) : conn[t].down[i].kind = "dps" => conn[t].down[i].val >= began[t]
  BY DEF IInv, Aged, HeardSince, Unread
<1> HIDE DEF kind
<1> QED
  BY <1>1, <1>2, <1>4, <1>5, <1>6, Writes

LEMMA ReceiveIInv ==
  ASSUME IInv, NEW t \in Tasks, Receive(t)
  PROVE  IInv'
<1>1. /\ pc[t] = "await" /\ conn[t].down # <<>>
      /\ Return(t, "ok", State(Heard(t).val, Heard(t).whole))
      /\ UNCHANGED <<backoff, faults>>
  BY DEF Receive, Readable
<1>2. State(Heard(t).val, Heard(t).whole) \in States
  BY <1>1, ReadsOn DEF State, States, Words
<1>3. backoff' \in BOOLEAN /\ faults' \in 0..MaxFaults
  BY <1>1 DEF IInv, TypeOK
<1> QED
  BY <1>1, <1>2, <1>3, Returns

-----------------------------------------------------------------------------
(* The device, the network and the clock.                                  *)

(* A connection that stays as it is, and a world in which all do.          *)
LEMMA StaysPut ==
  ASSUME IInv, NEW u \in Tasks, conn'[u] = conn[u]
  PROVE  /\ Rest(u) /\ NoOlder(u) /\ conn'[u].proto = conn[u].proto
         /\ conn[u] = NoConn => conn'[u] = NoConn
<1>1. Rest(u)
  BY EndsAreRests DEF IInv
<1> QED
  BY <1>1 DEF NoOlder, IInv, Aged, HeardSince, Unread

LEMMA WorldTyped ==
  ASSUME IInv
  PROVE  /\ conn \in [Tasks -> Connections] /\ val \in Nat /\ late \in Nat /\ val >= val
         /\ val \in 0..MaxVal
         /\ session \in [Tasks -> {"new", "asked", "agreed"}] /\ done \in [Tasks -> BOOLEAN]
         /\ hint \in {None, version} /\ faults \in 0..MaxFaults /\ backoff \in BOOLEAN
<1>1. conn \in [Tasks -> Connections]
  BY DEF IInv, TypeOK, Connections, Frames, Words
<1>2. val \in Nat /\ late \in Nat /\ val >= val /\ val \in 0..MaxVal
  BY DEF IInv, TypeOK
<1> QED
  BY <1>1, <1>2 DEF IInv, TypeOK

LEMMA QuietIInv ==
  ASSUME IInv, BackoffEnds \/ LearnVersion
  PROVE  IInv'
<1>1. /\ UNCHANGED <<seq, shown, callVars, version, requests>>
      /\ UNCHANGED <<conn, val, session, done, late, faults, pc, op>>
      /\ hint' \in {None, version} /\ backoff' \in BOOLEAN
  BY WorldTyped DEF BackoffEnds, LearnVersion, deviceVars, callVars
<1>2. \A u \in Tasks : conn'[u] = conn[u]
  BY <1>1
<1>3. \A u \in Tasks : /\ Rest(u) /\ NoOlder(u) /\ conn'[u].proto = conn[u].proto
                       /\ conn[u] = NoConn => conn'[u] = NoConn
  BY <1>2, StaysPut
<1>4. EnoughChanges'
  BY <1>1, <1>3, FewerCommands
<1>5. /\ conn' \in [Tasks -> Connections] /\ val' \in Nat /\ late' \in Nat /\ val' >= val
      /\ session' \in [Tasks -> {"new", "asked", "agreed"}] /\ done' \in [Tasks -> BOOLEAN]
      /\ faults' \in 0..MaxFaults
  BY <1>1, WorldTyped
<1>6. \A u \in Tasks : done'[u] # done[u] => pc[u] = "await"
  BY <1>1
<1> QED
  BY <1>1, <1>3, <1>4, <1>5, <1>6, DeviceSteps

LEMMA SkipIInv ==
  ASSUME IInv, NEW t \in Tasks, Skip(t)
  PROVE  IInv'
<1>1. /\ UNCHANGED <<seq, shown, callVars, version, requests>>
      /\ UNCHANGED <<val, session, done, late, faults, pc, op, hint, backoff>>
      /\ conn' = [conn EXCEPT ![t] = Read(t)] /\ conn[t].down # <<>>
  BY DEF Skip, Readable, deviceVars, callVars
<1>2. /\ conn' \in [Tasks -> Connections] /\ conn'[t] = Read(t)
      /\ \A u \in Tasks : u # t => conn'[u] = conn[u]
  BY <1>1, ReadsOn, WorldTyped
<1>3. /\ Rest(t) /\ NoOlder(t) /\ conn'[t].proto = conn[t].proto
      /\ conn[t] # NoConn
  <2>1. conn'[t].up = conn[t].up
    BY <1>1, <1>2, ReadsOn
  <2>2. Rest(t)
    BY <2>1, EndsAreRests DEF IInv
  <2> QED
    BY <1>1, <1>2, <2>2, ReadsOn, NoConnIs DEF NoOlder
<1>4. \A u \in Tasks : /\ Rest(u) /\ NoOlder(u) /\ conn'[u].proto = conn[u].proto
                       /\ conn[u] = NoConn => conn'[u] = NoConn
  BY <1>2, <1>3, StaysPut
<1>5. EnoughChanges'
  BY <1>1, <1>4, FewerCommands
<1>6. /\ val' \in Nat /\ late' \in Nat /\ val' >= val
      /\ session' \in [Tasks -> {"new", "asked", "agreed"}] /\ done' \in [Tasks -> BOOLEAN]
      /\ faults' \in 0..MaxFaults /\ hint' \in {None, version} /\ backoff' \in BOOLEAN
  BY <1>1, WorldTyped
<1>7. \A u \in Tasks : done'[u] # done[u] => pc[u] = "await"
  BY <1>1
<1> QED
  BY <1>1, <1>2, <1>4, <1>5, <1>6, <1>7, DeviceSteps

(* A change is pushed on the connections in S.                             *)
LEMMA Pushes ==
  ASSUME IInv, NEW n \in 0..MaxVal, n >= val, NEW S \in SUBSET Tasks,
         \A u \in S : conn[u] # NoConn,
         conn' = [u \in Tasks |-> [conn[u] EXCEPT !.down =
                    IF u \in S THEN Append(@, Down("dps", n, FALSE)) ELSE @]]
  PROVE  /\ conn' \in [Tasks -> Connections]
         /\ \A u \in Tasks : /\ Rest(u) /\ NoOlder(u)
                             /\ conn'[u].proto = conn[u].proto
                             /\ conn[u] = NoConn => conn'[u] = NoConn
<1> DEFINE word == Down("dps", n, FALSE)
<1>1. word \in Words /\ word.val = n
  BY DEF Down, Words
<1> HIDE DEF word
<1>2. ASSUME NEW u \in S
      PROVE  /\ conn'[u] \in Connections /\ conn'[u].proto = conn[u].proto
             /\ conn'[u].up = conn[u].up /\ NoOlder(u)
  <2>1. conn[u] \in Connections /\ conn[u].down \in Seq(Words) /\ Len(conn[u].down) \in Nat
    BY ConnTyped DEF IInv
  <2>2. conn'[u] = [conn[u] EXCEPT !.down = Append(@, word)]
    BY DEF word
  <2>3. /\ Append(conn[u].down, word) \in Seq(Words)
        /\ Len(Append(conn[u].down, word)) = Len(conn[u].down) + 1
        /\ \A i \in 1..Len(conn[u].down) : Append(conn[u].down, word)[i] = conn[u].down[i]
        /\ Append(conn[u].down, word)[Len(conn[u].down) + 1] = word
    BY <2>1, <1>1, AppendProperties
  <2>4. /\ conn'[u] \in Connections /\ conn'[u].proto = conn[u].proto
        /\ conn'[u].up = conn[u].up /\ conn'[u].down = Append(conn[u].down, word)
    BY <2>1, <2>2, <2>3 DEF Connections
  <2>5. /\ began[u] \in Nat /\ val \in Nat /\ began[u] <= val
        /\ \A i \in 1..Len(conn[u].down) : conn[u].down[i].kind = "dps" => conn[u].down[i].val >= began[u]
    BY DEF IInv, TypeOK, Aged, HeardSince, Unread
  <2>6. n >= began[u] /\ Len(conn'[u].down) = Len(conn[u].down) + 1
    <3>1. n \in Int /\ n >= val
      OBVIOUS
    <3> QED
      BY <2>3, <2>4, <2>5, <3>1
  <2>7. ASSUME NEW i \in 1..Len(conn'[u].down), conn'[u].down[i].kind = "dps"
        PROVE  conn'[u].down[i].val >= began[u]
    <3>1. CASE i \in 1..Len(conn[u].down)
      BY <2>3, <2>4, <2>5, <2>7, <3>1
    <3>2. CASE i = Len(conn[u].down) + 1
      <4>1. conn'[u].down[i].val = n
        BY <2>3, <2>4, <1>1, <3>2
      <4> QED
        BY <4>1, <2>6
    <3>3. i \in 1..(Len(conn[u].down) + 1)
      BY <2>6
    <3>4. i \in 1..Len(conn[u].down) \/ i = Len(conn[u].down) + 1
      BY <2>1, <3>3
    <3> QED
      BY <3>1, <3>2, <3>4
  <2> QED
    BY <2>4, <2>7 DEF NoOlder
<1>3. ASSUME NEW u \in Tasks \ S
      PROVE  conn'[u] = conn[u]
  <2>1. conn[u] \in Connections
    BY ConnTyped DEF IInv
  <2> QED
    BY <2>1 DEF Connections
<1>4. conn' \in [Tasks -> Connections]
  <2>1. conn' = [u \in Tasks |-> conn'[u]]
    OBVIOUS
  <2>2. \A u \in Tasks : conn'[u] \in Connections
    BY <1>2, <1>3, ConnTyped DEF IInv
  <2> QED
    BY <2>1, <2>2
<1>5. \A u \in S : Rest(u)
  BY <1>2, EndsAreRests DEF IInv
<1> QED
  BY <1>2, <1>3, <1>4, <1>5, StaysPut

LEMMA StatusPushIInv ==
  ASSUME IInv, StatusPush
  PROVE  IInv'
<1> DEFINE S == {u \in Tasks : Talking(u)}
<1>1. /\ UNCHANGED <<seq, shown, callVars, version, requests>>
      /\ UNCHANGED <<session, done, late, faults, pc, op, hint, backoff>>
      /\ val < MaxChanges /\ val' = val + 1
      /\ conn' = [u \in Tasks |-> [conn[u] EXCEPT !.down =
           IF Talking(u) THEN Append(@, Down("dps", val + 1, FALSE)) ELSE @]]
  BY DEF StatusPush, deviceVars, callVars
<1>2. /\ requests \in 0..MaxRequests /\ MaxChanges \in Nat /\ MaxRequests \in Nat
      /\ late \in Nat /\ val \in Nat
  BY SessionAssumption DEF IInv, TypeOK
<1>3. val + 1 \in 0..MaxVal /\ val + 1 >= val
  BY <1>1, <1>2 DEF MaxVal
<1>4. \A u \in S : conn[u] # NoConn
  BY TalkingIsOpen, NoConnIs
<1>5. conn' = [u \in Tasks |-> [conn[u] EXCEPT !.down =
           IF u \in S THEN Append(@, Down("dps", val + 1, FALSE)) ELSE @]]
  BY <1>1
<1>6. S \in SUBSET Tasks
  OBVIOUS
<1> HIDE DEF S
<1>7. /\ conn' \in [Tasks -> Connections]
      /\ \A u \in Tasks : /\ Rest(u) /\ NoOlder(u) /\ conn'[u].proto = conn[u].proto
                          /\ conn[u] = NoConn => conn'[u] = NoConn
  BY <1>2, <1>3, <1>4, <1>5, <1>6, Pushes
<1>8. Cardinality(Commanding') \in Nat /\ Cardinality(Commanding') <= Cardinality(Commanding)
  BY <1>1, <1>7, FewerCommands
<1>9. EnoughChanges'
  <2>1. late + Cardinality(Commanding') <= requests
    BY <1>2, <1>8, CommandsFinite DEF IInv, EnoughChanges
  <2> QED
    BY <2>1, <1>1, <1>2, <1>8 DEF EnoughChanges
<1>10. /\ val' \in Nat /\ late' \in Nat /\ val' >= val
       /\ session' \in [Tasks -> {"new", "asked", "agreed"}] /\ done' \in [Tasks -> BOOLEAN]
       /\ faults' \in 0..MaxFaults /\ hint' \in {None, version} /\ backoff' \in BOOLEAN
  BY <1>1, WorldTyped
<1>11. \A u \in Tasks : done'[u] # done[u] => pc[u] = "await"
  BY <1>1
<1> QED
  BY <1>1, <1>7, <1>9, <1>10, <1>11, DeviceSteps

LEMMA LateControlIInv ==
  ASSUME IInv, LateControl
  PROVE  IInv'
<1> DEFINE S == {u \in Tasks : val' # val /\ Talking(u)}
<1>1. /\ UNCHANGED <<seq, shown, callVars, version, requests>>
      /\ UNCHANGED <<session, done, faults, pc, op, hint, backoff>>
      /\ late > 0 /\ late' = late - 1 /\ val' \in {val, val + 1}
      /\ conn' = [u \in Tasks |-> [conn[u] EXCEPT !.down =
           IF val' # val /\ Talking(u) THEN Append(@, Down("dps", val', FALSE)) ELSE @]]
  BY DEF LateControl, deviceVars, callVars
<1>2. /\ requests \in 0..MaxRequests /\ MaxChanges \in Nat /\ MaxRequests \in Nat
      /\ late \in Nat /\ val \in Nat
  BY SessionAssumption DEF IInv, TypeOK
<1>3. val' \in 0..MaxVal /\ val' >= val /\ val' \in Nat /\ late' \in Nat
  BY <1>1, <1>2, CommandsFinite DEF MaxVal, IInv, EnoughChanges
<1>4. \A u \in S : conn[u] # NoConn
  BY TalkingIsOpen, NoConnIs
<1>5. conn' = [u \in Tasks |-> [conn[u] EXCEPT !.down =
           IF u \in S THEN Append(@, Down("dps", val', FALSE)) ELSE @]]
  BY <1>1
<1>6. S \in SUBSET Tasks
  OBVIOUS
<1> HIDE DEF S
<1>7. /\ conn' \in [Tasks -> Connections]
      /\ \A u \in Tasks : /\ Rest(u) /\ NoOlder(u) /\ conn'[u].proto = conn[u].proto
                          /\ conn[u] = NoConn => conn'[u] = NoConn
  BY <1>3, <1>4, <1>5, <1>6, Pushes
<1>8. Cardinality(Commanding') \in Nat /\ Cardinality(Commanding') <= Cardinality(Commanding)
  BY <1>1, <1>7, FewerCommands
<1>9. EnoughChanges'
  <2>1. SUFFICES ASSUME NEW k \in Nat, NEW m \in Nat, k = Cardinality(Commanding),
                        m = Cardinality(Commanding'), m <= k
                 PROVE  EnoughChanges'
    BY <1>8, CommandsFinite
  <2>2. late + k <= requests /\ val + late + k <= MaxChanges + requests
    BY <2>1 DEF IInv, EnoughChanges
  <2>3. late' + m <= requests'
    BY <1>1, <1>2, <2>1, <2>2
  <2>4. val' + late' + m <= MaxChanges + requests'
    BY <1>1, <1>2, <2>1, <2>2
  <2> QED
    BY <2>1, <2>3, <2>4 DEF EnoughChanges
<1>10. /\ session' \in [Tasks -> {"new", "asked", "agreed"}] /\ done' \in [Tasks -> BOOLEAN]
       /\ faults' \in 0..MaxFaults /\ hint' \in {None, version} /\ backoff' \in BOOLEAN
  BY <1>1, WorldTyped
<1>11. \A u \in Tasks : done'[u] # done[u] => pc[u] = "await"
  BY <1>1
<1> QED
  BY <1>1, <1>3, <1>7, <1>9, <1>10, <1>11, DeviceSteps

LEMMA SomeFrames ==
  ASSUME NEW kind \in {"resp", "dps", "ack", "error"}, NEW v \in 0..MaxVal, v >= val,
         NEW whole \in BOOLEAN
  PROVE  /\ <<Down(kind, v, whole)>> \in Seq(Words)
         /\ \A i \in 1..Len(<<Down(kind, v, whole)>>) : <<Down(kind, v, whole)>>[i].val >= val
<1> DEFINE word == Down(kind, v, whole)
<1>1. word \in Words /\ word.val = v
  BY DEF Down, Words
<1>2. \A d \in Words : <<d>> \in Seq(Words) /\ Len(<<d>>) = 1 /\ <<d>>[1] = d
  OBVIOUS
<1> HIDE DEF word
<1>3. <<word>> \in Seq(Words) /\ Len(<<word>>) = 1 /\ <<word>>[1].val >= val
  BY <1>1, <1>2
<1>4. \A i \in 1..Len(<<word>>) : i = 1
  BY <1>3
<1>5. \A i \in 1..Len(<<word>>) : <<word>>[i].val >= val
  BY <1>3, <1>4
<1> QED
  BY <1>3, <1>5 DEF word

LEMMA NoFrames ==
  /\ <<>> \in Seq(Words) /\ \A i \in 1..Len(<<>>) : <<>>[i].val >= val
  OBVIOUS

LEMMA AckFrames ==
  ASSUME NEW v \in 0..MaxVal, v >= val, val \in 0..MaxVal
  PROVE  LET both == <<Down("ack", val, FALSE)>> \o <<Down("dps", v, FALSE)>> IN
         both \in Seq(Words) /\ \A i \in 1..Len(both) : both[i].val >= val
<1> DEFINE one == <<Down("ack", val, FALSE)>>
           two == <<Down("dps", v, FALSE)>>
<1>0. val >= val
  OBVIOUS
<1>1. one \in Seq(Words) /\ \A i \in 1..Len(one) : one[i].val >= val
  BY <1>0, SomeFrames
<1>2. two \in Seq(Words) /\ \A i \in 1..Len(two) : two[i].val >= val
  BY SomeFrames
<1>3. Len(one) = 1 /\ Len(two) = 1
  OBVIOUS
<1> HIDE DEF one, two
<1>4. /\ one \o two \in Seq(Words)
      /\ Len(one \o two) = Len(one) + Len(two)
      /\ \A i \in 1..Len(one) + Len(two) : (one \o two)[i] =
           IF i <= Len(one) THEN one[i] ELSE two[i - Len(one)]
  BY <1>1, <1>2, ConcatProperties
<1>5. (one \o two)[1] = one[1] /\ (one \o two)[2] = two[1] /\ Len(one \o two) = 2
  BY <1>3, <1>4
<1>6. \A i \in 1..Len(one \o two) : i = 1 \/ i = 2
  BY <1>5
<1>7. \A i \in 1..Len(one \o two) : (one \o two)[i].val >= val
  BY <1>1, <1>2, <1>3, <1>5, <1>6
<1> QED
  BY <1>4, <1>7 DEF one, two

(* The device answers and does not change.                                 *)
LEMMA AnswerIInv ==
  ASSUME IInv, NEW t \in Tasks, conn[t].up # <<>>,
         NEW frames \in Seq(Words), \A i \in 1..Len(frames) : frames[i].val >= val,
         Answered(t, frames, FALSE),
         UNCHANGED <<seq, hint, shown, callVars, version, requests, val, done, late, backoff>>,
         session' \in [Tasks -> {"new", "asked", "agreed"}], faults' \in 0..MaxFaults
  PROVE  IInv'
<1>1. /\ conn' \in [Tasks -> Connections]
      /\ \A u \in Tasks : /\ Rest(u) /\ NoOlder(u) /\ conn'[u].proto = conn[u].proto
                          /\ conn[u] = NoConn => conn'[u] = NoConn
  BY Answers
<1>2. UNCHANGED <<pc, op>>
  BY DEF callVars
<1>3. EnoughChanges'
  BY <1>1, <1>2, FewerCommands
<1>4. /\ val' \in Nat /\ late' \in Nat /\ val' >= val /\ done' \in [Tasks -> BOOLEAN]
      /\ hint' \in {None, version} /\ backoff' \in BOOLEAN
  BY WorldTyped
<1>5. \A u \in Tasks : done'[u] # done[u] => pc[u] = "await"
  OBVIOUS
<1> QED
  BY <1>1, <1>3, <1>4, <1>5, DeviceSteps

(* The device carries the command of t out.                                *)
LEMMA CarriedOutIInv ==
  ASSUME IInv, NEW t \in Tasks, conn[t].up # <<>>, Question(t).kind = "control",
         NEW frames \in Seq(Words), \A i \in 1..Len(frames) : frames[i].val >= val,
         Answered(t, frames, TRUE), val' = val + 1, done' = [done EXCEPT ![t] = TRUE],
         UNCHANGED <<seq, hint, shown, callVars, version, requests, session, late, backoff>>,
         faults' \in 0..MaxFaults
  PROVE  IInv'
<1>1. conn[t].up \in Seq(Frames) /\ Len(conn[t].up) \in Nat \ {0} /\ InOrder(t)
  BY ConnTyped DEF IInv, Orderly
<1>2. 1 \in Written(t) /\ conn[t].up[1].kind = "control"
  BY <1>1 DEF Question, Written
<1>3. HasControl(t) /\ pc[t] = "await" /\ op[t] = "command" /\ Len(conn[t].up) = 1
  BY <1>1, <1>2 DEF HasControl, InOrder
<1>4. t \in Commanding /\ IsFiniteSet(Commanding) /\ Cardinality(Commanding) \in Nat
  BY <1>3, CommandsFinite DEF Commanding
<1>5. Cardinality(Commanding) >= 1
  BY <1>4, FS_EmptySet
<1>6. /\ requests \in 0..MaxRequests /\ MaxChanges \in Nat /\ MaxRequests \in Nat
      /\ late \in Nat /\ val \in Nat /\ done \in [Tasks -> BOOLEAN]
      /\ val + late + Cardinality(Commanding) <= MaxChanges + requests
      /\ late + Cardinality(Commanding) <= requests
  BY SessionAssumption DEF IInv, TypeOK, EnoughChanges
<1>7. TRUE => val + 1 \in 0..MaxVal
  <2>1. requests \in Nat /\ requests <= MaxRequests
    BY <1>6
  <2>2. val + Cardinality(Commanding) <= MaxChanges + requests
    BY <1>4, <1>6, <2>1
  <2>3. val + 1 <= MaxChanges + MaxRequests
    BY <1>4, <1>5, <1>6, <2>1, <2>2
  <2> QED
    BY <1>6, <2>3 DEF MaxVal
<1>8. /\ conn' \in [Tasks -> Connections]
      /\ \A u \in Tasks : /\ Rest(u) /\ NoOlder(u) /\ conn'[u].proto = conn[u].proto
                          /\ conn[u] = NoConn => conn'[u] = NoConn
      /\ conn'[t].up = Tail(conn[t].up)
  BY <1>7, Answers
<1>9. UNCHANGED <<pc, op>>
  BY DEF callVars
<1>10. Len(conn'[t].up) = 0
  BY <1>1, <1>3, <1>8
<1>11. ~HasControl(t)'
  BY <1>10 DEF HasControl, Written
<1>12. /\ Cardinality(Commanding') \in Nat
       /\ Cardinality(Commanding') <= Cardinality(Commanding) - 1
  BY <1>3, <1>4, <1>8, <1>9, <1>11, FewerCommands
<1>13. EnoughChanges'
  <2>1. SUFFICES ASSUME NEW k \in Nat, NEW m \in Nat, k = Cardinality(Commanding),
                        m = Cardinality(Commanding'), m <= k - 1
                 PROVE  EnoughChanges'
    BY <1>4, <1>12
  <2>2. late + k <= requests /\ val + late + k <= MaxChanges + requests
    BY <1>6, <2>1
  <2>3. late' + m <= requests'
    BY <1>6, <2>1, <2>2
  <2>4. val' + late' + m <= MaxChanges + requests'
    <3>1. val + 1 + late + m <= MaxChanges + requests
      BY <1>6, <2>1, <2>2
    <3> QED
      BY <3>1
  <2> QED
    BY <2>1, <2>3, <2>4 DEF EnoughChanges
<1>14. /\ val' \in Nat /\ late' \in Nat /\ val' >= val /\ done' \in [Tasks -> BOOLEAN]
       /\ session' \in [Tasks -> {"new", "asked", "agreed"}]
       /\ hint' \in {None, version} /\ backoff' \in BOOLEAN
  BY <1>6, WorldTyped
<1>15. \A u \in Tasks : done'[u] # done[u] => pc[u] = "await"
  BY <1>3, <1>6
<1> QED
  BY <1>8, <1>13, <1>14, <1>15, DeviceSteps

LEMMA NegotiateIInv ==
  ASSUME IInv, NEW t \in Tasks, Negotiate(t)
  PROVE  IInv'
<1>1. /\ conn[t].up # <<>>
      /\ UNCHANGED <<seq, hint, shown, callVars, version, requests, val, done, late, backoff, faults>>
      /\ faults' \in 0..MaxFaults
  BY WorldTyped DEF Negotiate, Asked
<1>2. val \in 0..MaxVal /\ val >= val /\ session \in [Tasks -> {"new", "asked", "agreed"}]
  BY WorldTyped
<1>3. CASE Question(t).form # version \/ Question(t).kind # "start"
  <2>1. Answered(t, <<>>, FALSE) /\ session' \in [Tasks -> {"new", "asked", "agreed"}]
    BY <1>2, <1>3 DEF Negotiate
  <2> QED
    BY <1>1, <2>1, NoFrames, AnswerIInv
<1>4. CASE Question(t).form = version /\ Question(t).kind = "start"
  <2>1. /\ Answered(t, <<Down("resp", val, FALSE)>>, FALSE)
        /\ session' \in [Tasks -> {"new", "asked", "agreed"}]
    BY <1>2, <1>4 DEF Negotiate
  <2>2. /\ <<Down("resp", val, FALSE)>> \in Seq(Words)
        /\ \A i \in 1..Len(<<Down("resp", val, FALSE)>>) : <<Down("resp", val, FALSE)>>[i].val >= val
    BY <1>2, SomeFrames
  <2> QED
    BY <1>1, <2>1, <2>2, AnswerIInv
<1> QED
  BY <1>3, <1>4

LEMMA QueryIInv ==
  ASSUME IInv, NEW t \in Tasks, Query(t)
  PROVE  IInv'
<1>1. /\ conn[t].up # <<>>
      /\ UNCHANGED <<seq, hint, shown, callVars, version, requests, val, done, late, backoff, faults, session>>
      /\ faults' \in 0..MaxFaults /\ session' \in [Tasks -> {"new", "asked", "agreed"}]
  BY WorldTyped DEF Query, Asked, deviceVars
<1>2. val \in 0..MaxVal /\ val >= val
  BY WorldTyped
<1>3. CASE ~Talking(t)
  <2>1. Answered(t, <<>>, FALSE)
    BY <1>3 DEF Query
  <2> QED
    BY <1>1, <2>1, NoFrames, AnswerIInv
<1>4. CASE Talking(t)
  <2>1. Answered(t, <<Down("dps", val, TRUE)>>, FALSE)
    BY <1>4 DEF Query
  <2>2. /\ <<Down("dps", val, TRUE)>> \in Seq(Words)
        /\ \A i \in 1..Len(<<Down("dps", val, TRUE)>>) : <<Down("dps", val, TRUE)>>[i].val >= val
    BY <1>2, SomeFrames
  <2> QED
    BY <1>1, <2>1, <2>2, AnswerIInv
<1> QED
  BY <1>3, <1>4

LEMMA ControlIInv ==
  ASSUME IInv, NEW t \in Tasks, Control(t)
  PROVE  IInv'
<1>1. /\ conn[t].up # <<>> /\ Question(t).kind = "control"
      /\ UNCHANGED <<seq, hint, shown, callVars, version, requests, session, late, backoff, faults>>
      /\ faults' \in 0..MaxFaults /\ session' \in [Tasks -> {"new", "asked", "agreed"}]
  BY WorldTyped DEF Control, Asked
<1>2. CASE ~Talking(t)
  <2>1. Answered(t, <<>>, FALSE) /\ UNCHANGED <<val, done>>
    BY <1>2 DEF Control
  <2> QED
    BY <1>1, <2>1, NoFrames, AnswerIInv
<1>3. CASE Talking(t)
  <2>1. PICK ack \in {<<>>, <<Down("ack", val, FALSE)>>} :
          Answered(t, ack \o <<Down("dps", val + 1, FALSE)>>, TRUE)
    BY <1>3 DEF Control
  <2>2. val' = val + 1 /\ done' = [done EXCEPT ![t] = TRUE]
    BY <1>3 DEF Control
  <2>3. val \in 0..MaxVal /\ val + 1 \in 0..MaxVal /\ val + 1 >= val
    <3>1. conn[t].up \in Seq(Frames) /\ Len(conn[t].up) \in Nat \ {0} /\ InOrder(t)
      BY <1>1, ConnTyped DEF IInv, Orderly
    <3>2. 1 \in Written(t) /\ conn[t].up[1].kind = "control"
      BY <1>1, <3>1 DEF Question, Written
    <3>3. t \in Commanding
      BY <3>1, <3>2 DEF Commanding, HasControl, InOrder
    <3>4. Cardinality(Commanding) \in Nat /\ Cardinality(Commanding) # 0
      BY <3>3, CommandsFinite, FS_EmptySet
    <3>5. /\ requests \in 0..MaxRequests /\ MaxChanges \in Nat /\ MaxRequests \in Nat
          /\ late \in Nat /\ val \in Nat
          /\ val + late + Cardinality(Commanding) <= MaxChanges + requests
      BY SessionAssumption DEF IInv, TypeOK, EnoughChanges
    <3> QED
      BY <3>4, <3>5 DEF MaxVal
  <2>4. CASE ack = <<>>
    <3>1. /\ <<Down("dps", val + 1, FALSE)>> \in Seq(Words)
          /\ \A i \in 1..Len(<<Down("dps", val + 1, FALSE)>>) :
               <<Down("dps", val + 1, FALSE)>>[i].val >= val
      BY <2>3, SomeFrames
    <3>2. <<>> \o <<Down("dps", val + 1, FALSE)>> = <<Down("dps", val + 1, FALSE)>>
      BY <3>1, ConcatEmptySeq
    <3>3. Answered(t, <<Down("dps", val + 1, FALSE)>>, TRUE)
      BY <2>1, <2>4, <3>2
    <3> QED
      BY <1>1, <2>2, <3>1, <3>3, CarriedOutIInv
  <2>5. CASE ack = <<Down("ack", val, FALSE)>>
    <3> DEFINE both == <<Down("ack", val, FALSE)>> \o <<Down("dps", val + 1, FALSE)>>
    <3>1. both \in Seq(Words) /\ \A i \in 1..Len(both) : both[i].val >= val
      BY <2>3, AckFrames
    <3>2. Answered(t, both, TRUE)
      BY <2>1, <2>5
    <3> HIDE DEF both
    <3> QED
      BY <1>1, <2>2, <3>1, <3>2, CarriedOutIInv
  <2> QED
    BY <2>1, <2>4, <2>5
<1> QED
  BY <1>2, <1>3

(* The connection of t breaks; what was in flight to the device is gone.   *)
LEMMA BreaksIInv ==
  ASSUME IInv, NEW t \in Tasks, conn[t].status = "open",
         NEW c \in Connections, c.up = <<>>, c.down \in {conn[t].down, <<>>},
         c.proto = conn[t].proto, Becomes(t, c),
         UNCHANGED <<seq, hint, shown, callVars, version, requests, val, done, session, late, backoff>>,
         faults' \in 0..MaxFaults
  PROVE  IInv'
<1>1. conn' \in [Tasks -> Connections] /\ conn'[t] = c /\ \A u \in Tasks : u # t => conn'[u] = conn[u]
  BY WorldTyped DEF Becomes
<1>2. Rest(t)
  BY <1>1, EndsAreRests DEF IInv
<1>3. NoOlder(t)
  <2>1. CASE c.down = conn[t].down
    BY <1>1, <2>1 DEF NoOlder, IInv, Aged, HeardSince, Unread
  <2>2. CASE c.down = <<>>
    BY <1>1, <2>2 DEF NoOlder
  <2> QED
    BY <2>1, <2>2
<1>4. conn[t] # NoConn
  BY NoConnIs
<1>5. \A u \in Tasks : /\ Rest(u) /\ NoOlder(u) /\ conn'[u].proto = conn[u].proto
                       /\ conn[u] = NoConn => conn'[u] = NoConn
  BY <1>1, <1>2, <1>3, <1>4, StaysPut
<1>6. UNCHANGED <<pc, op>>
  BY DEF callVars
<1>7. EnoughChanges'
  BY <1>5, <1>6, FewerCommands
<1>8. /\ val' \in Nat /\ late' \in Nat /\ val' >= val /\ done' \in [Tasks -> BOOLEAN]
      /\ session' \in [Tasks -> {"new", "asked", "agreed"}]
      /\ hint' \in {None, version} /\ backoff' \in BOOLEAN
  BY WorldTyped
<1>9. \A u \in Tasks : done'[u] # done[u] => pc[u] = "await"
  OBVIOUS
<1> QED
  BY <1>1, <1>5, <1>7, <1>8, <1>9, DeviceSteps

LEMMA MisbehaveIInv ==
  ASSUME IInv, NEW t \in Tasks, Misbehave(t)
  PROVE  IInv'
<1>1. /\ conn[t].status = "open"
      /\ UNCHANGED <<seq, hint, shown, callVars, version, requests, session, late, backoff>>
      /\ faults' \in 0..MaxFaults /\ session' \in [Tasks -> {"new", "asked", "agreed"}]
  BY WorldTyped, FaultsTyped DEF Misbehave
<1>2. val \in 0..MaxVal /\ val >= val /\ conn[t] \in Connections /\ <<>> \in Seq(Frames) /\ <<>> \in Seq(Words)
  BY WorldTyped, ConnTyped DEF IInv
<1>3. CASE Asked(t) /\ Answered(t, <<Down("error", val, FALSE)>>, FALSE) /\ UNCHANGED <<val, done>>
  <2>1. /\ <<Down("error", val, FALSE)>> \in Seq(Words)
        /\ \A i \in 1..Len(<<Down("error", val, FALSE)>>) : <<Down("error", val, FALSE)>>[i].val >= val
    BY <1>2, SomeFrames
  <2> QED
    BY <1>1, <1>3, <2>1, AnswerIInv DEF Asked
<1>4. CASE /\ Asked(t) /\ Question(t).kind = "control" /\ Answered(t, <<>>, TRUE)
           /\ val' = val + 1 /\ done' = [done EXCEPT ![t] = TRUE]
  BY <1>1, <1>4, NoFrames, CarriedOutIInv DEF Asked
<1>5. CASE Asked(t) /\ Answered(t, <<>>, FALSE) /\ UNCHANGED <<val, done>>
  BY <1>1, <1>5, NoFrames, AnswerIInv DEF Asked
<1>6. CASE /\ conn' = [conn EXCEPT ![t].status = "closed", ![t].up = <<>>]
           /\ UNCHANGED <<val, done>>
  <2> DEFINE c == [conn[t] EXCEPT !.status = "closed", !.up = <<>>]
  <2>1. c \in Connections /\ c.up = <<>> /\ c.down = conn[t].down /\ c.proto = conn[t].proto
    BY <1>2 DEF Connections
  <2>2. Becomes(t, c)
    BY <1>6, <1>2, WorldTyped DEF Becomes, Connections
  <2> HIDE DEF c
  <2> QED
    BY <1>1, <1>6, <2>1, <2>2, BreaksIInv
<1>7. CASE /\ conn' = [conn EXCEPT ![t].status = "reset", ![t].up = <<>>, ![t].down = <<>>]
           /\ UNCHANGED <<val, done>>
  <2> DEFINE c == [conn[t] EXCEPT !.status = "reset", !.up = <<>>, !.down = <<>>]
  <2>1. c \in Connections /\ c.up = <<>> /\ c.down = <<>> /\ c.proto = conn[t].proto
    BY <1>2 DEF Connections
  <2>2. Becomes(t, c)
    BY <1>7, <1>2, WorldTyped DEF Becomes, Connections
  <2> HIDE DEF c
  <2> QED
    BY <1>1, <1>7, <2>1, <2>2, BreaksIInv
<1> QED
  BY <1>3, <1>4, <1>5, <1>6, <1>7 DEF Misbehave

-----------------------------------------------------------------------------
(* The theorems.                                                           *)

LEMMA TaskIInv ==
  ASSUME IInv, NEW t \in Tasks,
         \/ Step(t) \/ Device(t) \/ Misbehave(t) \/ Abandon(t)
         \/ \E o \in Ops : Request(t, o)
         \/ \E reset \in BOOLEAN : Refused(t, reset)
  PROVE  IInv'
<1>1. CASE Step(t)
  BY <1>1, CheckIInv, SuppressedIInv, ConnectedIInv, FinishIInv, SendIInv, SkipIInv,
     ReceiveIInv, FailureIInv DEF Step
<1>2. CASE Device(t)
  BY <1>2, NegotiateIInv, QueryIInv, ControlIInv DEF Device
<1>3. CASE Misbehave(t)
  BY <1>3, MisbehaveIInv
<1>4. CASE Abandon(t)
  BY <1>4, AbandonIInv
<1>5. CASE \E o \in Ops : Request(t, o)
  BY <1>5, RequestIInv
<1>6. CASE \E reset \in BOOLEAN : Refused(t, reset)
  BY <1>6, FailureIInv
<1> QED
  BY <1>1, <1>2, <1>3, <1>4, <1>5, <1>6

LEMMA StutterIInv == IInv /\ UNCHANGED vars => IInv'
<1> SUFFICES ASSUME IInv, UNCHANGED vars PROVE IInv'
  OBVIOUS
<1>1. UNCHANGED <<seq, backoff, version, hint, pc, op, conn, began, result, shown, val,
                  session, done, late, requests, faults>>
  BY DEF vars, callVars, deviceVars
<1>2. TypeOK'
  BY <1>1 DEF IInv, TypeOK
<1>3. Idle' /\ Orderly' /\ FailedIsUntouched'
  BY <1>1 DEF IInv, Idle, Orderly, InOrder, HasControl, Written, FailedIsUntouched
<1>4. Aged'
  BY <1>1 DEF IInv, Aged, HeardSince, Unread
<1>5. Fresh'
  BY <1>1 DEF IInv, Fresh, Written
<1>6. EnoughNumbers' /\ EnoughChanges'
  <2>1. ToWrite' = ToWrite
    BY <1>1 DEF ToWrite, Left
  <2>2. Commanding' = Commanding
    BY <1>1 DEF Commanding, HasControl, Written
  <2> QED
    BY <1>1, <2>1, <2>2 DEF IInv, EnoughNumbers, EnoughChanges
<1> QED
  BY <1>2, <1>3, <1>4, <1>5, <1>6 DEF IInv

LEMMA NextIInv == IInv /\ [Next]_vars => IInv'
<1> SUFFICES ASSUME IInv, [Next]_vars PROVE IInv'
  OBVIOUS
<1>1. CASE SupervisorPoll
  BY <1>1, SupervisorPollIInv
<1>2. CASE BackoffEnds \/ LearnVersion
  BY <1>2, QuietIInv
<1>3. CASE StatusPush
  BY <1>3, StatusPushIInv
<1>4. CASE LateControl
  BY <1>4, LateControlIInv
<1>5. CASE \E t \in Tasks :
             \/ Step(t) \/ Device(t) \/ Misbehave(t) \/ Abandon(t)
             \/ \E o \in Ops : Request(t, o)
             \/ \E reset \in BOOLEAN : Refused(t, reset)
  BY <1>5, TaskIInv
<1>6. CASE UNCHANGED vars
  BY <1>6, StutterIInv
<1> QED
  BY <1>1, <1>2, <1>3, <1>4, <1>5, <1>6 DEF Next

(* The invariant holds whatever the calls, the device and the network do.  *)
THEOREM SpecIInv == Spec => []IInv
  BY InitIInv, NextIInv, PTL DEF Spec

(* Types stay correct: above all, the bound on the numbers is never        *)
(* reached in the middle of a call, and only commands that were requested  *)
(* and changes of its own change the device.                               *)
THEOREM TypeCorrect == Spec => []TypeOK
<1>1. IInv => TypeOK
  BY DEF IInv
<1> QED
  BY <1>1, SpecIInv, PTL

(* No two frames in flight to the device carry the same number, on         *)
(* whichever connections and for any number of tasks at once.              *)
THEOREM NumbersAreFresh == Spec => []SeqFresh
<1>1. IInv => SeqFresh
  <2> SUFFICES ASSUME IInv, NEW f \in InFlight, NEW g \in InFlight,
                      conn[f[1]].up[f[2]].seq = conn[g[1]].up[g[2]].seq
               PROVE  f = g
    BY DEF SeqFresh
  <2>1. /\ f[1] \in Tasks /\ g[1] \in Tasks /\ f = <<f[1], f[2]>> /\ g = <<g[1], g[2]>>
        /\ f[2] \in 1..3 /\ f[2] <= Len(conn[f[1]].up) /\ g[2] \in 1..3 /\ g[2] <= Len(conn[g[1]].up)
    BY DEF InFlight
  <2>2. Len(conn[f[1]].up) \in Nat /\ Len(conn[g[1]].up) \in Nat
    BY <2>1, ConnTyped DEF IInv
  <2>3. f[2] \in Written(f[1]) /\ g[2] \in Written(g[1])
    BY <2>1, <2>2 DEF Written
  <2>4. f[1] = g[1] /\ f[2] = g[2]
    BY <2>1, <2>3 DEF IInv, Fresh
  <2> QED
    BY <2>1, <2>4
<1> QED
  BY <1>1, SpecIInv, PTL

(* A command that was answered with an error was not carried out, nor is   *)
(* it later: the error is decided before the command is written.           *)
THEOREM ErrorsAreSafe == Spec => []FailedIsUntouched
<1>1. IInv => FailedIsUntouched
  BY DEF IInv
<1> QED
  BY <1>1, SpecIInv, PTL

(* What a call shows when it returns is a state since its beginning.       *)
Recent(u) ==
  /\ pc' = [pc EXCEPT ![u] = "idle"]
  /\ shown' # shown /\ shown' # Offline => shown'.val >= began[u]

LEMMA ReturnsRecent ==
  ASSUME NEW t \in Tasks, NEW r, NEW s \in {Offline, None}, Return(t, r, s)
  PROVE  Recent(t)
  BY DEF Return, Recent

LEMMA StepsShowRecent ==
  ASSUME IInv, NEW t \in Tasks, Step(t)
  PROVE  UNCHANGED shown \/ Recent(t)
<1>1. CASE Check(t) \/ Connected(t) \/ Finish(t) \/ Send(t) \/ Skip(t)
  BY <1>1 DEF Check, Connected, Finish, Send, Skip
<1>2. CASE Suppressed(t)
  BY <1>2, ReturnsRecent DEF Suppressed
<1>3. CASE Receive(t)
  <2>1. /\ conn[t].down # <<>> /\ Heard(t).kind = "dps"
        /\ Return(t, "ok", State(Heard(t).val, Heard(t).whole))
    BY <1>3 DEF Receive, Readable
  <2>2. Heard(t).val >= began[t]
    BY <2>1, ReadsOn
  <2>3. State(Heard(t).val, Heard(t).whole).val >= began[t]
    BY <2>2 DEF State
  <2> QED
    BY <2>1, <2>3 DEF Return, Recent
<1>4. CASE VersionUnknown(t) \/ ProbeRefused(t)
  BY <1>4, ReturnsRecent DEF VersionUnknown, ProbeRefused, FailOpen
<1>5. CASE Refusal(t)
  BY <1>5, ReturnsRecent DEF Refusal, FailAwait
<1>6. CASE Broken(t) \/ TimedOut(t)
  <2>1. FailOpen(t, TRUE) \/ FailOpen(t, FALSE) \/ FailAwait(t, TRUE) \/ FailAwait(t, FALSE)
    BY <1>6 DEF Broken, TimedOut
  <2> QED
    BY <2>1, ReturnsRecent DEF FailOpen, FailAwait
<1> QED
  BY <1>1, <1>2, <1>3, <1>4, <1>5, <1>6 DEF Step

LEMMA ShowsRecent ==
  ASSUME IInv, [Next]_vars
  PROVE  UNCHANGED shown \/ \E u \in Tasks : Recent(u)
<1>1. CASE SupervisorPoll \/ BackoffEnds \/ LearnVersion \/ StatusPush \/ LateControl
  BY <1>1 DEF SupervisorPoll, Begin, BackoffEnds, LearnVersion, StatusPush, LateControl
<1>2. CASE UNCHANGED vars
  BY <1>2 DEF vars
<1>3. ASSUME NEW t \in Tasks,
             \/ Step(t) \/ Device(t) \/ Misbehave(t) \/ Abandon(t)
             \/ \E o \in Ops : Request(t, o)
             \/ \E reset \in BOOLEAN : Refused(t, reset)
      PROVE  UNCHANGED shown \/ Recent(t)
  <2>1. CASE Step(t)
    BY <2>1, StepsShowRecent
  <2>2. CASE Device(t) \/ Misbehave(t)
    BY <2>2 DEF Device, Negotiate, Query, Control, Misbehave
  <2>3. CASE Abandon(t)
    BY <2>3, ReturnsRecent DEF Abandon
  <2>4. CASE \E o \in Ops : Request(t, o)
    BY <2>4 DEF Request, Begin
  <2>5. CASE \E reset \in BOOLEAN : Refused(t, reset)
    BY <2>5, ReturnsRecent DEF Refused, FailOpen
  <2> QED
    BY <1>3, <2>1, <2>2, <2>3, <2>4, <2>5
<1> QED
  BY <1>1, <1>2, <1>3 DEF Next

(* No call takes an answer that was meant for an earlier one: what it      *)
(* reports is a state the device had since the call began.                 *)
THEOREM RepliesAreRecent == Spec => ReplyIsOfThisCall
<1>1. ASSUME IInv, [Next]_vars, NEW t \in Tasks,
             pc[t] = "await", pc'[t] = "idle", shown' # shown, shown' # Offline
      PROVE  shown'.val >= began[t]
  <2>1. PICK u \in Tasks : Recent(u)
    BY <1>1, ShowsRecent
  <2>2. u = t
    BY <1>1, <2>1 DEF Recent, IInv, TypeOK
  <2> QED
    BY <1>1, <2>1, <2>2 DEF Recent
<1>2. IInv /\ [Next]_vars =>
        [\A t \in Tasks :
           (pc[t] = "await" /\ pc'[t] = "idle" /\ shown' # shown /\ shown' # Offline)
             => shown'.val >= began[t]]_vars
  BY <1>1
<1> QED
  BY <1>2, SpecIInv, PTL DEF Spec, ReplyIsOfThisCall

-----------------------------------------------------------------------------
(* The frames on the wire.                                                 *)

Wire == INSTANCE TuyaFrames

(* What a session of a form is sent: frames of the form, with a length     *)
(* field that covers its trailer, damaged or not.                          *)
SessionFrames(form) ==
  {fr \in [form : {form}, data_len : Nat, intact : BOOLEAN] :
     fr.data_len >= Wire!TrailerLen[form]}

(* A reader that still takes frames of the stream.                         *)
Reading(stream, r) ==
  r \in [next : DOMAIN stream, from : Nat, stop : {"no"}]

(* parse_frame_any of n bytes that begin with a frame of the session.      *)
LEMMA ParsesWhole ==
  ASSUME NEW form \in Wire!Forms, NEW fr \in SessionFrames(form), NEW n \in Nat
  PROVE  /\ Wire!TotalFrame(fr) \in Nat
         /\ Wire!ParseFrameAny(fr, n, Wire!HasKey(form), Wire!TrailerOf(form))
              = IF n < Wire!TotalFrame(fr) THEN Wire!More
                ELSE IF fr.intact THEN Wire!Whole(fr) ELSE Wire!Fail
<1>1. fr.form = form /\ fr.data_len \in Nat /\ fr.intact \in BOOLEAN
      /\ fr.data_len >= Wire!TrailerLen[form]
  BY DEF SessionFrames
<1>2. /\ Wire!TrailerLen["Crc"] = 8 /\ Wire!TrailerLen["Hmac"] = 36
      /\ Wire!TrailerLen["Gcm"] = 28
  BY DEF Wire!TrailerLen
<1>3. CASE form = "Gcm"
  <2>1. Wire!TotalFrame(fr) = fr.data_len + 22
    BY <1>1, <1>3 DEF Wire!TotalFrame
  <2> QED
    BY <1>1, <1>2, <1>3, <2>1
    DEF Wire!ParseFrameAny, Wire!ParseFrameV35, Wire!HasKey, Wire!TrailerLen
<1>4. CASE form \in {"Crc", "Hmac"}
  <2>1. Wire!TotalFrame(fr) = fr.data_len + 16
    BY <1>1, <1>4 DEF Wire!TotalFrame
  <2>2. Wire!TrailerOf(form) = form
    BY <1>4 DEF Wire!TrailerOf
  <2>3. PICK t \in Nat : t = Wire!TrailerLen[form] /\ t >= 8
    BY <1>2, <1>4
  <2>4. Wire!ParseFrame(fr, n, form)
          = IF n < 24 \/ n < fr.data_len + 16 THEN Wire!More
            ELSE IF n < fr.data_len + 12 THEN Wire!Panic
            ELSE IF fr.intact THEN Wire!Whole(fr) ELSE Wire!Fail
    BY <1>1, <2>1, <2>3 DEF Wire!ParseFrame, Wire!MIN_FRAME_LEN
  <2>5. Wire!ParseFrame(fr, n, form)
          = IF n < Wire!TotalFrame(fr) THEN Wire!More
            ELSE IF fr.intact THEN Wire!Whole(fr) ELSE Wire!Fail
    BY <1>1, <2>1, <2>3, <2>4
  <2>6. Wire!ParseFrameAny(fr, n, Wire!HasKey(form), form)
          = IF n < 4 THEN Wire!More ELSE Wire!ParseFrame(fr, n, form)
    BY <1>1, <1>4 DEF Wire!ParseFrameAny
  <2> QED
    BY <1>1, <2>1, <2>2, <2>3, <2>5, <2>6
<1> QED
  BY <1>3, <1>4 DEF Wire!Forms

(* One turn of recv_state's loop, whatever has been read by then: the next *)
(* frame is taken once all of it is there, up to its last byte and no      *)
(* further; a damaged one stops the reader, and nothing does before its    *)
(* last byte (protocol.rs's parse_frame_any, plugin.rs's recv_state).      *)
THEOREM FramesAreCutWhole ==
  ASSUME NEW form \in Wire!Forms, NEW stream \in Seq(SessionFrames(form)),
         NEW r, Reading(stream, r), NEW n \in Nat, r.from <= n
  PROVE  LET total == Wire!TotalFrame(stream[r.next]) IN
         Wire!Cut(form, stream, r, n) =
           IF n < r.from + total THEN r
           ELSE IF stream[r.next].intact
           THEN [next |-> r.next + 1, from |-> r.from + total, stop |-> "no"]
           ELSE [next |-> r.next, from |-> r.from, stop |-> "error"]
<1>1. /\ r = [next |-> r.next, from |-> r.from, stop |-> "no"] /\ r.stop = "no"
      /\ r.next \in 1..Len(stream) /\ r.from \in Nat
  BY DEF Reading
<1>2. PICK fr \in SessionFrames(form) : fr = stream[r.next]
  BY <1>1
<1>3. PICK total \in Nat : total = Wire!TotalFrame(fr)
  BY ParsesWhole
<1>4. PICK p : p = Wire!ParseFrameAny(fr, n - r.from, Wire!HasKey(form), Wire!TrailerOf(form))
  OBVIOUS
<1>5. n - r.from \in Nat
  BY <1>1
<1>6. p = IF n - r.from < total THEN Wire!More
          ELSE IF fr.intact THEN Wire!Whole(fr) ELSE Wire!Fail
  BY <1>3, <1>4, <1>5, ParsesWhole
<1>7. Wire!Cut(form, stream, r, n) =
        CASE p.kind = "more"  -> r
          [] p.kind = "frame" -> [r EXCEPT !.next = @ + 1, !.from = @ + p.consumed]
          [] OTHER            -> [r EXCEPT !.stop = p.kind]
  BY <1>1, <1>2, <1>4 DEF Wire!Cut
<1>8. CASE n - r.from < total
  BY <1>1, <1>2, <1>3, <1>6, <1>7, <1>8 DEF Wire!More
<1>9. CASE ~(n - r.from < total) /\ fr.intact
  <2>1. p.kind = "frame" /\ p.consumed = total
    BY <1>3, <1>6, <1>9 DEF Wire!Whole
  <2>2. Wire!Cut(form, stream, r, n) = [r EXCEPT !.next = @ + 1, !.from = @ + total]
    BY <1>7, <2>1
  <2>3. Wire!Cut(form, stream, r, n) = [next |-> r.next + 1, from |-> r.from + total, stop |-> "no"]
    BY <1>1, <2>2
  <2> QED
    BY <1>1, <1>2, <1>3, <1>9, <2>3
<1>10. CASE ~(n - r.from < total) /\ ~fr.intact
  <2>1. p.kind = "error"
    BY <1>6, <1>10 DEF Wire!Fail
  <2>2. Wire!Cut(form, stream, r, n) = [r EXCEPT !.stop = "error"]
    BY <1>7, <2>1
  <2> QED
    BY <1>1, <1>2, <1>3, <1>10, <2>2
<1> QED
  BY <1>8, <1>9, <1>10

-----------------------------------------------------------------------------
(* The ranges of the data points.                                          *)

Map == INSTANCE DpMap

LEMMA Divides ==
  ASSUME NEW a \in Int, NEW d \in Nat \ {0}
  PROVE  /\ a \div d \in Int
         /\ d * (a \div d) <= a
         /\ a < d * (a \div d) + d
<1>1. a \div d \in Int /\ a % d \in 0..(d - 1)
  OBVIOUS
<1>2. a = d * (a \div d) + (a % d)
  OBVIOUS
<1> QED
  BY <1>1, <1>2

LEMMA Product ==
  ASSUME NEW R \in Nat \ {0}, NEW x \in Int, NEW y \in Int, x <= y
  PROVE  R * x <= R * y
  OBVIOUS

(* y is x times R up to c.                                                 *)
Within(R, x, y, c) ==
  /\ R \in Nat \ {0} /\ x \in Int /\ y \in Int /\ c \in Nat
  /\ R * x - c <= y /\ y <= R * x + c

(* Then y divided by R and rounded is x, up to one more than c holds R.    *)
LEMMA RoundsBack ==
  ASSUME NEW R, NEW x, NEW y, NEW c, Within(R, x, y, c)
  PROVE  Map!Near(Map!Round(y, R), x, 1 + c \div R)
<1> USE DEF Within
<1>1. PICK q \in Int : q = Map!Round(y, R) /\ 2 * (R * q) <= 2 * y + R /\ 2 * y < 2 * (R * q) + R
  <2>1. PICK n \in Int : n = 2 * y + R
    OBVIOUS
  <2>2. PICK d \in Nat \ {0} : d = 2 * R
    OBVIOUS
  <2>3. PICK q \in Int : q = n \div d
    BY <2>1, <2>2, Divides
  <2>4. d * q <= n /\ n < d * q + d
    BY <2>1, <2>2, <2>3, Divides
  <2>5. d * q = 2 * (R * q)
    BY <2>2
  <2> QED
    BY <2>1, <2>2, <2>3, <2>4, <2>5 DEF Map!Round
<1>2. PICK e \in Int : e = c \div R /\ R * e <= c /\ c < R * e + R
  BY Divides
<1>3. q - x <= 1 + e
  <2> SUFFICES ASSUME x + e + 2 <= q PROVE FALSE
    OBVIOUS
  <2>1. R * (x + e + 2) <= R * q
    BY Product
  <2>2. R * (x + e + 2) = R * x + R * e + 2 * R
    OBVIOUS
  <2> QED
    BY <1>1, <1>2, <2>1, <2>2
<1>4. -(1 + e) <= q - x
  <2> SUFFICES ASSUME q <= x - e - 2 PROVE FALSE
    OBVIOUS
  <2>1. R * q <= R * (x - e - 2)
    BY Product
  <2>2. R * (x - e - 2) = R * x - R * e - 2 * R
    OBVIOUS
  <2> QED
    BY <1>1, <1>2, <2>1, <2>2
<1> QED
  BY <1>1, <1>2, <1>3, <1>4 DEF Map!Near

LEMMA Rounded ==
  ASSUME NEW y \in Int, NEW R \in Nat \ {0}
  PROVE  Map!Round(y, R) \in Int
  BY Divides DEF Map!Round

(* A brightness that is set is read back within one step of the device's   *)
(* range, whatever the range is (dp_map.rs's denormalize_brightness and    *)
(* normalize_brightness).                                                  *)
THEOREM BrightnessReadsBack ==
  ASSUME NEW m, m.brightness_min \in Nat, m.brightness_max \in Nat,
         m.brightness_min < m.brightness_max, NEW b \in 0..1000
  PROVE  Map!Near(Map!NormalizeBrightness(m, Map!DenormalizeBrightness(m, b)), b,
                  1 + 500 \div (m.brightness_max - m.brightness_min))
<1>1. PICK lo \in Nat : lo = m.brightness_min
  OBVIOUS
<1>2. PICK R \in Nat \ {0} : R = m.brightness_max - m.brightness_min
  OBVIOUS
<1>3. PICK p \in Nat : p = b * R
  OBVIOUS
<1>4. PICK native \in Int : native = (2 * (p + 1000 * lo) + 1000) \div 2000
  OBVIOUS
<1>5. Map!DenormalizeBrightness(m, b) = native
  BY <1>1, <1>2, <1>3, <1>4 DEF Map!DenormalizeBrightness, Map!Round
<1>6. native >= lo /\ 1000 * (native - lo) <= p + 500 /\ p - 500 <= 1000 * (native - lo)
  BY <1>4
<1>7. Map!NormalizeBrightness(m, native) = Map!Round(1000 * (native - lo), R)
  <2>1. Map!AtLeast(0, native - lo) = native - lo
    BY <1>6 DEF Map!AtLeast
  <2> QED
    BY <1>1, <1>2, <2>1 DEF Map!NormalizeBrightness
<1>8. R * b = p
  BY <1>3
<1>9. PICK y \in Int : y = 1000 * (native - lo)
  OBVIOUS
<1>10. Map!Near(Map!Round(y, R), b, 1 + 500 \div R)
  <2>1. PICK x \in Int, c \in Nat : x = b /\ c = 500
    OBVIOUS
  <2>2. Within(R, x, y, c)
    BY <1>6, <1>8, <1>9, <2>1 DEF Within
  <2>3. Map!Near(Map!Round(y, R), x, 1 + c \div R)
    BY <2>2, RoundsBack
  <2> QED
    BY <2>1, <2>3
<1> QED
  BY <1>2, <1>5, <1>7, <1>9, <1>10

(* So is a colour temperature from 2700 K to 6500 K (kelvin_to_native and  *)
(* native_to_kelvin): within that range nothing is clamped.                *)
THEOREM ColorTempReadsBack ==
  ASSUME NEW m, m.color_temp_min \in Nat, m.color_temp_max \in Nat,
         m.color_temp_min < m.color_temp_max, NEW k \in 2700..6500
  PROVE  Map!Near(Map!NativeToKelvin(m, Map!KelvinToNative(m, k)), k,
                  1 + 1900 \div (m.color_temp_max - m.color_temp_min))
<1>1. PICK lo \in Nat : lo = m.color_temp_min
  OBVIOUS
<1>2. PICK R \in Nat \ {0} : R = m.color_temp_max - m.color_temp_min
  OBVIOUS
<1>3. PICK j \in 0..3800 : j = 6500 - k
  OBVIOUS
<1>4. PICK p \in Nat : p = j * R
  OBVIOUS
<1>5. p <= 3800 * R
  BY <1>3, <1>4
<1>6. PICK native \in Int : native = (2 * (p + 3800 * lo) + 3800) \div 7600
  OBVIOUS
<1>7. Map!KelvinToNative(m, k) = native
  <2>1. PICK scaled \in Int : scaled = p + 3800 * lo
    OBVIOUS
  <2>2. scaled = (6500 - k) * (m.color_temp_max - m.color_temp_min) + 3800 * m.color_temp_min
    BY <1>1, <1>2, <1>3, <1>4, <2>1
  <2>3. Map!AtMost(3800 * m.color_temp_max, Map!AtLeast(3800 * m.color_temp_min, scaled)) = scaled
    <3>1. 3800 * m.color_temp_min <= scaled /\ scaled <= 3800 * m.color_temp_max
      BY <1>1, <1>2, <1>5, <2>1
    <3> QED
      BY <3>1 DEF Map!AtMost, Map!AtLeast
  <2>4. Map!KelvinToNative(m, k) = Map!Round(scaled, 3800)
    BY <2>2, <2>3 DEF Map!KelvinToNative
  <2> QED
    BY <1>6, <2>1, <2>4 DEF Map!Round
<1>8. native >= lo /\ 3800 * (native - lo) <= p + 1900 /\ p - 1900 <= 3800 * (native - lo)
  BY <1>6
<1>9. PICK y : y = 6500 * R - 3800 * (native - lo)
  OBVIOUS
<1>10. Map!NativeToKelvin(m, native) = Map!AtLeast(0, Map!Round(y, R))
  <2>1. Map!AtLeast(0, native - lo) = native - lo /\ Map!AtLeast(1, R) = R
    BY <1>8 DEF Map!AtLeast
  <2> QED
    BY <1>1, <1>2, <1>9, <2>1 DEF Map!NativeToKelvin
<1>11. R * k = 6500 * R - p
  BY <1>3, <1>4
<1>12. Map!Near(Map!Round(y, R), k, 1 + 1900 \div R)
  <2>1. y \in Int
    BY <1>9
  <2>2. PICK x \in Int, c \in Nat : x = k /\ c = 1900
    OBVIOUS
  <2>3. Within(R, x, y, c)
    BY <1>8, <1>9, <1>11, <2>1, <2>2 DEF Within
  <2>4. Map!Near(Map!Round(y, R), x, 1 + c \div R)
    BY <2>3, RoundsBack
  <2> QED
    BY <2>2, <2>4
<1>13. Map!Round(y, R) \in Int /\ 1900 \div R \in Int
  <2>1. y \in Int
    BY <1>9
  <2> QED
    BY <2>1, Rounded, Divides
<1>14. PICK q \in Int, c \in Int : q = Map!Round(y, R) /\ c = 1900 \div R
  BY <1>13
<1>15. c >= 0
  <2>1. 1900 < R * c + R
    BY <1>14, Divides
  <2>2. c <= -1 => R * c <= R * (-1)
    BY <1>14, Product
  <2> QED
    BY <2>1, <2>2
<1>16. Map!Near(Map!AtLeast(0, q), k, 1 + c)
  BY <1>12, <1>14, <1>15 DEF Map!Near, Map!AtLeast
<1> QED
  BY <1>2, <1>7, <1>10, <1>14, <1>16
=============================================================================
