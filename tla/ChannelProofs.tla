---------------------------- MODULE ChannelProofs ----------------------------
(***************************************************************************)
(* Theorems about the router's two channels: KeaChannel, its commands to   *)
(* the Kea hook, and DiscoveryStream, its sightings to the core.  They     *)
(* hold for any callers, MACs, connections, devices and listeners, any     *)
(* capacity and any number of faults.                                      *)
(*                                                                         *)
(* KeaChannel.  Nothing is under way on a connection that has not been     *)
(* announced (FreshConns).  On the announced one, as long as no call on it *)
(* was abandoned, at most the call in progress is under way, as its        *)
(* command or as its reply (OneCall); the reply stays true because nobody  *)
(* else writes before it is read.                                          *)
(*                                                                         *)
(* DiscoveryStream.  The last event on a device in the channel is of its   *)
(* record, or the listener that wrote the record has still to send         *)
(* (ChangesCurrent).  Where the channel has no word on a device, the       *)
(* record has still to be listed, is the list's last word, or has arrived  *)
(* (Carried).  Both need that a record is written by one listener only:    *)
(* of two that hear a device, the one that wrote first may send last.      *)
(***************************************************************************)
EXTENDS KeaChannel, DiscoveryStream, SequenceTheorems, TLAPS

-----------------------------------------------------------------------------
(* KeaChannel.                                                             *)

(* Sequences: what the queues of a connection do.                          *)
LEMMA EmptyQueue == ASSUME NEW S PROVE <<>> \in Seq(S) /\ Len(<<>>) = 0
  OBVIOUS

LEMMA AppendQueue ==
  ASSUME NEW S, NEW q \in Seq(S), NEW x \in S
  PROVE  /\ Append(q, x) \in Seq(S) /\ Len(Append(q, x)) = Len(q) + 1
         /\ q = <<>> => Append(q, x) = <<x>>
<1>1. Append(q, x) \in Seq(S) /\ Len(Append(q, x)) = Len(q) + 1
  BY AppendProperties
<1>2. Append(q, x) = q \o <<x>>
  BY AppendIsConcat
<1>3. <<>> \o <<x>> = <<x>>
  BY ConcatEmptySeq, <<x>> \in Seq(S)
<1> QED
  BY <1>1, <1>2, <1>3

LEMMA TailQueue ==
  ASSUME NEW S, NEW q \in Seq(S), q # <<>>
  PROVE  /\ Tail(q) \in Seq(S) /\ Len(Tail(q)) = Len(q) - 1 /\ Head(q) \in S
         /\ Len(q) \in Nat /\ Len(q) > 0
         /\ \A x : q = <<x>> => Tail(q) = <<>> /\ Head(q) = x
<1>1. Tail(q) \in Seq(S) /\ Len(Tail(q)) = Len(q) - 1 /\ Head(q) \in S
  BY HeadTailProperties
<1>2. Len(q) \in Nat /\ Len(q) > 0
  BY EmptySeq, LenProperties
<1>3. ASSUME NEW x, q = <<x>> PROVE Tail(q) = <<>> /\ Head(q) = x
  <2>1. Len(q) = 1 /\ Head(q) = x
    BY <1>3
  <2>2. Tail(q) = SubSeq(q, 2, 1)
    BY <2>1, TailIsSubSeq
  <2>3. SubSeq(q, 2, 1) = <<>>
    BY SubSeqEmpty
  <2> QED
    BY <2>1, <2>2, <2>3
<1> QED
  BY <1>1, <1>2, <1>3

LEMMA Plain == \A k \in Nat : k + 0 = k
  OBVIOUS

(* A write adds one to the count of what is under way.                     *)
LEMMA CountWrite ==
  ASSUME NEW S, NEW T, NEW q \in Seq(S), NEW p \in Seq(T), NEW k \in Nat, NEW x \in S,
         Len(q) + Len(p) = k
  PROVE  Len(Append(q, x)) + Len(p) = k + 1
<1> DEFINE lq == Len(q)
           lp == Len(p)
<1>1. lq \in Nat /\ lp \in Nat /\ lq + lp = k /\ Len(Append(q, x)) = lq + 1
  BY LenProperties, AppendQueue
<1> HIDE DEF lq, lp
<1>2. Len(Append(q, x)) + lp = k + 1
  BY <1>1
<1> QED
  BY <1>2 DEF lp

(* Connections yet to be announced carry nothing.                          *)
FreshConns ==
  /\ cmdState \notin accepted
  /\ \A n \in accepted : toHook[n] = <<>> /\ toRouter[n] = <<>> /\ abandoned[n] = 0

(* What is under way without abandoned calls: nothing, the command of the  *)
(* call in progress, or its reply.                                         *)
Quiet == toRouter[cmdState] = <<>> /\ (Shared => toHook[cmdState] = <<>>)

Asked == toRouter[cmdState] = <<>> /\ (Shared => toHook[cmdState] = <<cmd[holder]>>)

Answered ==
  \E r \in Replies :
    /\ toRouter[cmdState] = <<r>> /\ r.to = cmd[holder]
    /\ Shared => /\ toHook[cmdState] = <<>>
                 /\ r.ok => hosts[r.to.mac] = r.to.kind

OneCall ==
  (cmdState # NoConn /\ abandoned[cmdState] = 0) =>
    IF Free THEN Quiet ELSE Asked \/ Answered

KeaInv == TypeOK /\ FreshConns /\ OneCall /\ AbandonedCallsLag

(* The invariant makes the answer that is read one's own and true.         *)
LEMMA OneCallAnswers == KeaInv => AnswersInForce
<1> SUFFICES ASSUME KeaInv, NEW c \in Callers,
                    holder = c, abandoned[cmdState] = 0, toRouter[cmdState] # <<>>
             PROVE  LET r == Head(toRouter[cmdState]) IN
                      /\ r.to = cmd[c]
                      /\ r.ok /\ Shared => hosts[r.to.mac] = r.to.kind
  BY DEF AnswersInForce
<1>1. cmdState # NoConn /\ ~Free
  BY KeaChannelAssumption DEF KeaInv, TypeOK, Free
<1>2. Answered
  BY <1>1 DEF KeaInv, OneCall, Asked
<1>3. PICK r \in Replies :
        /\ toRouter[cmdState] = <<r>> /\ r.to = cmd[holder]
        /\ Shared => (r.ok => hosts[r.to.mac] = r.to.kind)
  BY <1>2 DEF Answered
<1>4. Head(toRouter[cmdState]) = r
  BY <1>3
<1> QED
  BY <1>3, <1>4

LEMMA InitKeaInv == Init => KeaInv
<1> SUFFICES ASSUME Init PROVE KeaInv
  OBVIOUS
<1>1. TypeOK
  <2>1. stored \subseteq Macs /\ hosts \in [Macs -> Kinds]
    BY DEF Init, Kinds
  <2>2. toHook \in [Ends -> Seq(Commands)] /\ toRouter \in [Ends -> Seq(Replies)]
    BY DEF Init
  <2>3. lost \in [kea : 0..MaxKea, router : 0..MaxRouter, calls : 0..MaxAbandoned]
    BY KeaChannelAssumption DEF Init
  <2> QED
    BY <2>1, <2>2, <2>3 DEF Init, TypeOK, Ends
<1>2. FreshConns
  BY DEF Init, FreshConns
<1>3. OneCall /\ AbandonedCallsLag
  BY DEF Init, OneCall, AbandonedCallsLag, Shared
<1> QED
  BY <1>1, <1>2, <1>3 DEF KeaInv

-----------------------------------------------------------------------------
(* Steps of callers.                                                       *)

(* A caller without a call does not hold the mutex, so a new call changes  *)
(* nothing the invariant says of the call in progress.                     *)
LEMMA AskKeeps ==
  ASSUME KeaInv, NEW c \in Callers, NEW k \in Kinds, NEW m \in Macs, Ask(c, k, m),
         stored' \subseteq Macs, todo' \subseteq Macs, awaits' \in BOOLEAN, ready' \in BOOLEAN,
         UNCHANGED <<hosts, channelVars, lost>>
  PROVE  KeaInv'
<1> USE DEF KeaInv, Ask, channelVars
<1>1. holder # c /\ holder' = holder
  BY KeaChannelAssumption DEF TypeOK
<1>2. [kind |-> k, mac |-> m] \in Commands
  BY DEF Commands
<1>3. cmd' \in [Callers -> Commands \cup {NoCommand}]
  BY <1>2 DEF TypeOK
<1>4. holder # Nobody => cmd'[holder] = cmd[holder]
  BY <1>1 DEF TypeOK
<1>5. TypeOK'
  BY <1>1, <1>3, <1>4 DEF TypeOK
<1>6. FreshConns' /\ AbandonedCallsLag'
  BY <1>1 DEF FreshConns, AbandonedCallsLag, CallsInProgress, Shared, Free
<1>7. OneCall'
  BY <1>1, <1>4 DEF OneCall, Free, Quiet, Asked, Answered, Shared
<1> QED
  BY <1>5, <1>6, <1>7

LEMMA CallsKeep ==
  ASSUME KeaInv, NEW c \in Callers, NEW k \in Kinds, NEW m \in Macs,
         Discover(c, m) \/ Register(c, m) \/ Operate(c, k, m)
  PROVE  KeaInv'
<1>1. stored' \subseteq Macs /\ todo' \subseteq Macs /\ awaits' \in BOOLEAN /\ ready' \in BOOLEAN
  BY DEF KeaInv, TypeOK, Discover, Register, Operate, syncVars
<1>2. UNCHANGED <<hosts, channelVars, lost>>
  BY DEF Discover, Register, Operate
<1>3. Ask(c, "own", m) \/ Ask(c, k, m)
  BY DEF Discover, Register, Operate
<1>4. "own" \in Kinds
  BY DEF Kinds
<1> QED
  BY <1>1, <1>2, <1>3, <1>4, AskKeeps

LEMMA SyncNextKeeps ==
  ASSUME KeaInv, NEW m \in Macs, SyncNext(m)
  PROVE  KeaInv'
<1>1. stored' \subseteq Macs /\ todo' \subseteq Macs /\ awaits' \in BOOLEAN /\ ready' \in BOOLEAN
  BY DEF KeaInv, TypeOK, SyncNext
<1>2. Ask(Sync, "own", m) /\ UNCHANGED <<hosts, channelVars, lost>>
  BY DEF SyncNext
<1>3. "own" \in Kinds /\ Sync \in Callers
  BY DEF Kinds, Callers
<1> QED
  BY <1>1, <1>2, <1>3, AskKeeps

LEMMA SyncListsKeeps ==
  ASSUME KeaInv, SyncLists
  PROVE  KeaInv'
<1> USE DEF KeaInv, SyncLists, channelVars
<1>1. TypeOK'
  BY DEF TypeOK
<1>2. FreshConns' /\ AbandonedCallsLag'
  BY DEF FreshConns, AbandonedCallsLag, CallsInProgress, Shared, Free
<1>3. OneCall'
  BY DEF OneCall, Free, Quiet, Asked, Answered, Shared
<1> QED
  BY <1>1, <1>2, <1>3

(* A call that finds no live channel gives the channel up.                 *)
LEMMA FailuresKeep ==
  ASSUME KeaInv, NEW c \in Callers, SendFails(c) \/ ReadFails(c)
  PROVE  KeaInv'
<1> USE DEF KeaInv, End
<1>1. cmdState' = NoConn /\ ~Shared'
  BY DEF SendFails, ReadFails, Shared
<1>2. holder' = Nobody
  BY KeaChannelAssumption DEF SendFails, ReadFails, Free
<1>3. toRouter' \in [Ends -> Seq(Replies)]
  <2>1. <<>> \in Seq(Replies)
    BY EmptyQueue
  <2> QED
    BY <2>1 DEF SendFails, ReadFails, TypeOK
<1>4. TypeOK'
  <2>1. cmd' \in [Callers -> Commands \cup {NoCommand}]
    BY DEF SendFails, ReadFails, TypeOK
  <2>2. UNCHANGED <<stored, hosts, accepted, hook, toHook, syncVars, abandoned, lost>>
    BY DEF SendFails, ReadFails
  <2> QED
    BY <1>1, <1>2, <1>3, <2>1, <2>2 DEF TypeOK, Ends, syncVars
<1>5. \A n \in accepted : toRouter'[n] = <<>>
  BY DEF SendFails, ReadFails, FreshConns, TypeOK, Ends
<1>6. FreshConns'
  BY <1>1, <1>5, KeaChannelAssumption DEF SendFails, ReadFails, FreshConns, TypeOK
<1>7. OneCall' /\ AbandonedCallsLag'
  BY <1>1 DEF OneCall, AbandonedCallsLag
<1> QED
  BY <1>4, <1>6, <1>7

(* The mutex was free, so nothing else is under way.                       *)
LEMMA WriteKeeps ==
  ASSUME KeaInv, NEW c \in Callers, Write(c)
  PROVE  KeaInv'
<1> USE DEF KeaInv, Write
<1> DEFINE n == cmdState
<1>1. n \in Ends /\ n = hook /\ Shared /\ Shared' /\ Free /\ ~Free'
  BY KeaChannelAssumption DEF TypeOK, Shared, Free
<1>2. cmd[c] \in Commands /\ toHook[n] \in Seq(Commands)
  BY <1>1 DEF TypeOK
<1>3. toHook'[n] = Append(toHook[n], cmd[c]) /\ \A k \in Ends \ {n} : toHook'[k] = toHook[k]
  BY <1>1 DEF TypeOK
<1>4. toHook' \in [Ends -> Seq(Commands)]
  BY <1>2 DEF TypeOK
<1>5. TypeOK'
  BY <1>1, <1>4 DEF TypeOK, syncVars
<1>6. FreshConns'
  BY <1>3 DEF FreshConns, TypeOK, Ends
<1>7. AbandonedCallsLag'
  <2>1. CallsInProgress = 0 /\ CallsInProgress' = 1 /\ abandoned[n] \in Nat
    BY <1>1 DEF CallsInProgress, TypeOK
  <2>2. Len(toHook[n]) + Len(toRouter[n]) = abandoned[n]
    BY <1>1, <2>1, Plain DEF AbandonedCallsLag
  <2>3. Len(Append(toHook[n], cmd[c])) + Len(toRouter[n]) = abandoned[n] + 1
    BY <1>1, <1>2, <2>1, <2>2, CountWrite DEF TypeOK
  <2> QED
    BY <1>1, <1>3, <2>1, <2>3 DEF AbandonedCallsLag
<1>8. OneCall'
  <2> SUFFICES ASSUME abandoned[n] = 0 PROVE Asked'
    BY <1>1 DEF OneCall
  <2>1. Quiet
    BY <1>1 DEF OneCall
  <2>2. toHook'[n] = <<cmd[c]>>
    BY <1>1, <1>2, <1>3, <2>1, AppendQueue DEF Quiet
  <2> QED
    BY <2>1, <2>2 DEF Quiet, Asked
<1> QED
  BY <1>5, <1>6, <1>7, <1>8

(* The reply that is read was the only line under way.                     *)
LEMMA ReadKeeps ==
  ASSUME KeaInv, NEW c \in Callers, Read(c)
  PROVE  KeaInv'
<1> USE DEF KeaInv, Read, End
<1> DEFINE n == cmdState
<1>1. n \in Ends /\ n # NoConn /\ ~Free /\ Free' /\ (Shared' <=> Shared)
  BY KeaChannelAssumption DEF TypeOK, Shared, Free
<1>2. toRouter[n] \in Seq(Replies) /\ toHook[n] \in Seq(Commands)
  BY <1>1 DEF TypeOK
<1>3. toRouter'[n] = Tail(toRouter[n]) /\ \A k \in Ends \ {n} : toRouter'[k] = toRouter[k]
  BY <1>1 DEF TypeOK
<1>4. toRouter' \in [Ends -> Seq(Replies)]
  BY <1>2, TailQueue DEF TypeOK
<1>5. TypeOK'
  <2>1. holder' = Nobody
    OBVIOUS
  <2>2. cmd' \in [Callers -> Commands \cup {NoCommand}]
    BY DEF TypeOK
  <2> QED
    BY <1>4, <2>1, <2>2 DEF TypeOK, syncVars
<1>6. FreshConns'
  BY <1>3 DEF FreshConns, TypeOK, Ends
<1>7. AbandonedCallsLag'
  <2> SUFFICES ASSUME Shared
               PROVE  Len(toHook[n]) + Len(toRouter'[n]) = abandoned[n] + CallsInProgress'
    BY <1>1 DEF AbandonedCallsLag, Shared
  <2>1. CallsInProgress = 1 /\ CallsInProgress' = 0 /\ abandoned[n] \in Nat
    BY <1>1 DEF CallsInProgress, TypeOK
  <2>2. Len(toHook[n]) + Len(toRouter[n]) = abandoned[n] + 1
    BY <2>1 DEF AbandonedCallsLag, Shared
  <2>3. Len(toHook[n]) + Len(Tail(toRouter[n])) = abandoned[n]
    <3> DEFINE h == Len(toHook[n])
               l == Len(toRouter[n])
               t == Len(Tail(toRouter[n]))
               k == abandoned[n]
    <3>1. t = l - 1 /\ l \in Nat /\ h \in Nat /\ k \in Nat /\ h + l = k + 1
      BY <1>2, <2>1, <2>2, TailQueue, LenProperties
    <3> HIDE DEF h, l, t, k
    <3>2. h + t = k
      BY <3>1
    <3> QED
      BY <3>2 DEF h, t, k
  <2> QED
    BY <1>3, <2>1, <2>3, Plain
<1>8. OneCall'
  <2> SUFFICES ASSUME abandoned[n] = 0 PROVE Quiet'
    BY <1>1 DEF OneCall
  <2>1. Answered
    BY <1>1 DEF OneCall, Asked
  <2>2. PICK r \in Replies : toRouter[n] = <<r>> /\ (Shared => toHook[n] = <<>>)
    BY <2>1 DEF Answered
  <2>3. toRouter'[n] = <<>>
    BY <1>2, <1>3, <2>2, TailQueue
  <2> QED
    BY <1>1, <2>2, <2>3 DEF Quiet
<1> QED
  BY <1>5, <1>6, <1>7, <1>8

(* An abandoned call that was reading leaves one line more to be expected. *)
LEMMA AbandonKeeps ==
  ASSUME KeaInv, NEW c \in Callers, Abandon(c)
  PROVE  KeaInv'
<1> USE DEF KeaInv, Abandon, End
<1> DEFINE n == cmdState
<1>1. c # Nobody /\ n \in Ends /\ (Shared' <=> Shared)
  BY KeaChannelAssumption DEF TypeOK, Shared
<1>2. abandoned' \in [Ends -> Nat]
  <2>1. abandoned[n] + 1 \in Nat
    BY <1>1 DEF TypeOK
  <2> QED
    BY <2>1 DEF TypeOK
<1>3. lost' \in [kea : 0..MaxKea, router : 0..MaxRouter, calls : 0..MaxAbandoned]
  <2>1. lost.calls + 1 \in 0..MaxAbandoned
    BY KeaChannelAssumption DEF TypeOK
  <2> QED
    BY <2>1 DEF TypeOK
<1>4. cmd' \in [Callers -> Commands \cup {NoCommand}]
  BY DEF TypeOK
<1>5. holder' # Nobody => holder' = holder /\ holder # c /\ cmd'[holder] = cmd[holder]
  BY <1>1 DEF TypeOK
<1>6. TypeOK'
  BY <1>2, <1>3, <1>4, <1>5 DEF TypeOK, syncVars
<1>7. \A k \in accepted : abandoned'[k] = abandoned[k]
  BY DEF FreshConns, TypeOK, Ends
<1>8. FreshConns'
  BY <1>7 DEF FreshConns
<1>9. CASE holder = c
  <2>1. ~Free /\ Free' /\ abandoned'[n] = abandoned[n] + 1 /\ abandoned[n] \in Nat
    BY <1>1, <1>9 DEF Free, TypeOK
  <2>2. CallsInProgress = 1 /\ CallsInProgress' = 0
    BY <2>1 DEF CallsInProgress
  <2>3. abandoned'[n] + 0 = abandoned[n] + 1 /\ abandoned'[n] # 0
    BY <2>1
  <2>4. AbandonedCallsLag'
    BY <1>1, <2>2, <2>3 DEF AbandonedCallsLag, Shared
  <2>5. OneCall'
    BY <2>3 DEF OneCall
  <2> QED
    BY <1>6, <1>8, <2>4, <2>5
<1>10. CASE holder # c
  <2>1. holder' = holder /\ abandoned' = abandoned /\ (Free' <=> Free)
    BY <1>10 DEF Free
  <2>2. AbandonedCallsLag'
    BY <1>1, <2>1 DEF AbandonedCallsLag, CallsInProgress, Shared, Free
  <2>3. OneCall'
    BY <1>5, <2>1 DEF OneCall, Quiet, Asked, Answered, Shared, Free
  <2> QED
    BY <1>6, <1>8, <2>2, <2>3
<1> QED
  BY <1>9, <1>10

-----------------------------------------------------------------------------
(* Steps of the connection.                                                *)

LEMMA Reset ==
  ASSUME NEW f \in [Ends -> Nat], NEW n
  PROVE  [f EXCEPT ![n] = 0] \in [Ends -> Nat]
  OBVIOUS

LEMMA ConnectKeeps ==
  ASSUME KeaInv, Connect
  PROVE  KeaInv'
<1> USE DEF KeaInv, Connect
<1> DEFINE n == CHOOSE k \in Conns : Unused(k)
<1>1. n \in Conns /\ Unused(n)
  OBVIOUS
<1> HIDE DEF n
<1>2. /\ hook' = n /\ accepted' = accepted \cup {n}
      /\ toHook' = [toHook EXCEPT ![n] = <<>>] /\ toRouter' = [toRouter EXCEPT ![n] = <<>>]
      /\ abandoned' = [abandoned EXCEPT ![n] = 0]
  BY DEF n
<1>3. n \in Ends /\ n # cmdState /\ n \notin accepted
  BY <1>1 DEF Unused, Kept, Ends
<1>4. toHook' \in [Ends -> Seq(Commands)] /\ toRouter' \in [Ends -> Seq(Replies)]
  <2>1. <<>> \in Seq(Commands) /\ <<>> \in Seq(Replies)
    BY EmptyQueue
  <2>2. toHook' \in [Ends -> Seq(Commands)]
    BY <1>2, <2>1 DEF TypeOK
  <2>3. toRouter' \in [Ends -> Seq(Replies)]
    BY <1>2, <2>1 DEF TypeOK
  <2> QED
    BY <2>2, <2>3
<1>5. TypeOK'
  <2>1. /\ UNCHANGED <<stored, hosts, cmdState, cmd, holder, ready, todo, awaits, lost>>
        /\ hook' \in Ends /\ accepted' \subseteq Conns
    BY <1>1, <1>2, <1>3 DEF TypeOK, syncVars
  <2>2. abandoned' \in [Ends -> Nat]
    <3>1. abandoned \in [Ends -> Nat] /\ abandoned' = [abandoned EXCEPT ![n] = 0]
      BY <1>2 DEF TypeOK
    <3> QED
      BY <3>1, Reset
  <2> QED
    BY <1>4, <2>1, <2>2 DEF TypeOK
<1>6. FreshConns'
  <2>1. cmdState' \notin accepted'
    BY <1>2, <1>3 DEF FreshConns
  <2>2. ASSUME NEW m \in accepted'
        PROVE  toHook'[m] = <<>> /\ toRouter'[m] = <<>> /\ abandoned'[m] = 0
    <3>1. m \in Ends /\ (m = n \/ m \in accepted)
      BY <1>2, <1>3, <2>2 DEF TypeOK, Ends
    <3>2. CASE m = n
      BY <1>2, <1>3, <3>2 DEF TypeOK
    <3>3. CASE m # n
      BY <1>2, <3>1, <3>3 DEF FreshConns, TypeOK
    <3> QED
      BY <3>2, <3>3
  <2> QED
    BY <2>1, <2>2 DEF FreshConns
<1>7. ~Shared'
  BY <1>2, <1>3 DEF Shared
<1>8. toRouter'[cmdState] = toRouter[cmdState] /\ abandoned'[cmdState] = abandoned[cmdState]
  BY <1>2, <1>3 DEF TypeOK
<1>9. OneCall'
  <2>1. UNCHANGED <<cmdState, cmd, holder, hosts>>
    OBVIOUS
  <2> QED
    BY <1>7, <1>8, <2>1 DEF OneCall, Quiet, Asked, Answered, Free
<1>10. AbandonedCallsLag'
  BY <1>7 DEF AbandonedCallsLag
<1> QED
  BY <1>5, <1>6, <1>9, <1>10

(* The mutex is free and the connection that takes over carries nothing.   *)
LEMMA AnnounceKeeps ==
  ASSUME KeaInv, NEW n \in Conns, Announce(n)
  PROVE  KeaInv'
<1> USE DEF KeaInv, Announce
<1>1. n # cmdState /\ n \in Ends /\ holder' = Nobody /\ Free'
  BY DEF FreshConns, Ends, Free
<1>2. toHook'[n] = <<>> /\ toRouter'[n] = <<>> /\ abandoned'[n] = 0
  BY <1>1 DEF FreshConns, TypeOK
<1>3. toRouter' \in [Ends -> Seq(Replies)]
  <2>1. <<>> \in Seq(Replies)
    BY EmptyQueue
  <2> QED
    BY <2>1 DEF TypeOK
<1>4. TypeOK'
  BY <1>1, <1>3, KeaChannelAssumption DEF TypeOK
<1>5. \A k \in accepted : toRouter'[k] = <<>>
  BY DEF FreshConns, TypeOK, Ends
<1>6. FreshConns'
  BY <1>5 DEF FreshConns
<1>7. OneCall'
  BY <1>1, <1>2 DEF OneCall, Quiet
<1>8. AbandonedCallsLag'
  <2>1. CallsInProgress' = 0 /\ Len(<<>>) = 0
    BY <1>1, EmptySeq DEF CallsInProgress
  <2> QED
    BY <1>2, <2>1 DEF AbandonedCallsLag, Shared
<1> QED
  BY <1>4, <1>6, <1>7, <1>8

LEMMA HangUpKeeps ==
  ASSUME KeaInv, HangUp
  PROVE  KeaInv'
<1> USE DEF KeaInv, HangUp
<1>1. ~Shared /\ ~Shared'
  BY DEF Shared, Kept
<1>2. TypeOK'
  BY DEF TypeOK, Ends, syncVars
<1>3. FreshConns'
  BY DEF FreshConns
<1>4. OneCall' /\ AbandonedCallsLag'
  BY <1>1 DEF OneCall, Quiet, Asked, Answered, Free, AbandonedCallsLag
<1> QED
  BY <1>2, <1>3, <1>4

LEMMA RestartsKeep ==
  ASSUME KeaInv, KeaRestart \/ RouterRestart
  PROVE  KeaInv'
<1> USE DEF KeaInv
<1>1. CASE KeaRestart
  <2> USE <1>1 DEF KeaRestart
  <2>1. ~Shared'
    BY DEF Shared
  <2>2. toHook' \in [Ends -> Seq(Commands)]
    <3>1. <<>> \in Seq(Commands)
      BY EmptyQueue
    <3> QED
      BY <3>1 DEF TypeOK
  <2>3. hosts' \in [Macs -> Kinds]
    BY DEF Kinds
  <2>4. lost' \in [kea : 0..MaxKea, router : 0..MaxRouter, calls : 0..MaxAbandoned]
    <3>1. lost.kea + 1 \in 0..MaxKea
      BY KeaChannelAssumption DEF TypeOK
    <3> QED
      BY <3>1 DEF TypeOK
  <2>5. TypeOK'
    BY <2>2, <2>3, <2>4 DEF TypeOK, Ends, syncVars
  <2>6. \A n \in accepted : toHook'[n] = <<>>
    BY DEF FreshConns, TypeOK, Ends
  <2>7. FreshConns'
    BY <2>6 DEF FreshConns
  <2>8. OneCall' /\ AbandonedCallsLag'
    BY <2>1 DEF OneCall, Quiet, Asked, Answered, Free, AbandonedCallsLag
  <2> QED
    BY <2>5, <2>7, <2>8
<1>2. CASE RouterRestart
  <2> USE <1>2 DEF RouterRestart
  <2>1. toRouter' \in [Ends -> Seq(Replies)]
    <3>1. <<>> \in Seq(Replies)
      BY EmptyQueue
    <3> QED
      BY <3>1
  <2>2. lost' \in [kea : 0..MaxKea, router : 0..MaxRouter, calls : 0..MaxAbandoned]
    <3>1. lost.router + 1 \in 0..MaxRouter
      BY KeaChannelAssumption DEF TypeOK
    <3> QED
      BY <3>1 DEF TypeOK
  <2>3. TypeOK'
    BY <2>1, <2>2 DEF TypeOK, Ends
  <2>4. FreshConns'
    BY DEF FreshConns
  <2>5. OneCall' /\ AbandonedCallsLag'
    BY DEF OneCall, AbandonedCallsLag, Shared
  <2> QED
    BY <2>3, <2>4, <2>5
<1> QED
  BY <1>1, <1>2

(* The hook turns the command under way into its reply.                    *)
LEMMA ApplyKeeps ==
  ASSUME KeaInv, Apply
  PROVE  KeaInv'
<1> USE DEF KeaInv, Apply
<1> DEFINE x == Head(toHook[hook])
           good == x.mac \notin BadMacs
           r == [to |-> x, ok |-> good]
<1>1. hook \in Conns /\ hook \in Ends /\ hook \notin accepted /\ (Shared' <=> Shared)
  BY DEF TypeOK, FreshConns, Ends, Shared
<1>2. toHook[hook] \in Seq(Commands) /\ toHook[hook] # <<>> /\ toRouter[hook] \in Seq(Replies)
  BY <1>1 DEF TypeOK
<1>3. x \in Commands /\ Tail(toHook[hook]) \in Seq(Commands)
  BY <1>2, TailQueue
<1>4. good \in BOOLEAN
  OBVIOUS
<1>5. r \in Replies
  BY <1>3, <1>4 DEF Replies
<1>6. Append(toRouter[hook], r) \in Seq(Replies)
  BY <1>2, <1>5, AppendQueue
<1>7. toHook' = [toHook EXCEPT ![hook] = Tail(toHook[hook])]
  OBVIOUS
<1>8. toRouter' = IF Kept(hook) THEN [toRouter EXCEPT ![hook] = Append(toRouter[hook], r)]
                                ELSE toRouter
  OBVIOUS
<1>9. hosts' = IF good THEN [hosts EXCEPT ![x.mac] = x.kind] ELSE hosts
  OBVIOUS
<1>10. UNCHANGED <<stored, cmdState, accepted, hook, cmd, holder, syncVars, abandoned, lost>>
  OBVIOUS
<1> HIDE DEF x, good, r, Apply
<1>11. TypeOK'
  <2>1. toHook' \in [Ends -> Seq(Commands)]
    BY <1>1, <1>3, <1>7 DEF TypeOK
  <2>2. toRouter' \in [Ends -> Seq(Replies)]
    BY <1>1, <1>6, <1>8 DEF TypeOK
  <2>3. x.mac \in Macs /\ x.kind \in Kinds
    BY <1>3 DEF Commands
  <2>4. hosts' \in [Macs -> Kinds]
    BY <1>9, <2>3 DEF TypeOK
  <2> QED
    BY <1>10, <2>1, <2>2, <2>4 DEF TypeOK, syncVars
<1>12. FreshConns'
  <2>1. \A n \in accepted : toHook'[n] = toHook[n] /\ toRouter'[n] = toRouter[n]
    BY <1>1, <1>7, <1>8 DEF TypeOK, Ends
  <2> QED
    BY <1>10, <2>1 DEF FreshConns
<1>13. CASE ~Shared
  <2>1. cmdState # NoConn => toRouter'[cmdState] = toRouter[cmdState]
    BY <1>1, <1>8, <1>13 DEF Shared, TypeOK
  <2>2. OneCall'
    BY <1>1, <1>10, <1>13, <2>1 DEF OneCall, Quiet, Asked, Answered, Free
  <2>3. AbandonedCallsLag'
    BY <1>1, <1>13 DEF AbandonedCallsLag
  <2> QED
    BY <1>11, <1>12, <2>2, <2>3
<1>14. CASE Shared
  <2>1. Kept(hook) /\ cmdState = hook /\ cmdState # NoConn
    BY <1>14 DEF Shared, Kept
  <2>2. toRouter'[hook] = Append(toRouter[hook], r) /\ toHook'[hook] = Tail(toHook[hook])
    BY <1>1, <1>7, <1>8, <2>1 DEF TypeOK
  <2>3. AbandonedCallsLag'
    <3>1. Len(Tail(toHook[hook])) + Len(Append(toRouter[hook], r))
            = Len(toHook[hook]) + Len(toRouter[hook])
      <4> DEFINE h == Len(toHook[hook])
                 l == Len(toRouter[hook])
                 t == Len(Tail(toHook[hook]))
                 w == Len(Append(toRouter[hook], r))
      <4>1. h \in Nat /\ l \in Nat /\ t = h - 1 /\ w = l + 1
        BY <1>2, <1>5, LenProperties, AppendQueue, TailQueue
      <4> HIDE DEF h, l, t, w
      <4>2. t + w = h + l
        BY <4>1
      <4> QED
        BY <4>2 DEF h, l, t, w
    <3>2. CallsInProgress' = CallsInProgress
      BY <1>10 DEF CallsInProgress, Free
    <3>3. Len(toHook[hook]) + Len(toRouter[hook]) = abandoned[hook] + CallsInProgress
      BY <1>14 DEF AbandonedCallsLag
    <3> QED
      BY <1>10, <2>2, <3>1, <3>2, <3>3 DEF AbandonedCallsLag
  <2>4. OneCall'
    <3> SUFFICES ASSUME abandoned[cmdState] = 0 PROVE ~Free /\ Answered'
      BY <1>10 DEF OneCall, Free
    <3>1. ~Free /\ Asked
      BY <1>2, <1>14, <2>1 DEF OneCall, Quiet, Answered
    <3>2. toRouter[hook] = <<>> /\ toHook[hook] = <<cmd[holder]>>
      BY <1>14, <2>1, <3>1 DEF Asked
    <3>3. x = cmd[holder] /\ Tail(toHook[hook]) = <<>>
      BY <1>2, <3>2, TailQueue DEF x
    <3>4. toRouter'[hook] = <<r>>
      BY <1>2, <1>5, <2>2, <3>2, AppendQueue
    <3>5. r.to = cmd[holder] /\ (r.ok => hosts'[r.to.mac] = r.to.kind)
      <4>1. x.mac \in Macs
        BY <1>3 DEF Commands
      <4> QED
        BY <1>9, <3>3, <4>1 DEF r, TypeOK
    <3> QED
      BY <1>5, <1>10, <2>1, <2>2, <3>1, <3>3, <3>4, <3>5 DEF Answered
  <2> QED
    BY <1>11, <1>12, <2>3, <2>4
<1> QED
  BY <1>13, <1>14

LEMMA StutterKeeps == KeaInv /\ UNCHANGED vars => KeaInv'
<1> SUFFICES ASSUME KeaInv, UNCHANGED vars PROVE KeaInv'
  OBVIOUS
<1> USE DEF vars
<1>1. TypeOK'
  BY DEF KeaInv, TypeOK
<1>2. FreshConns'
  BY DEF KeaInv, FreshConns
<1>3. OneCall'
  BY DEF KeaInv, OneCall, Quiet, Asked, Answered, Shared, Free
<1>4. AbandonedCallsLag'
  BY DEF KeaInv, AbandonedCallsLag, CallsInProgress, Shared, Free
<1> QED
  BY <1>1, <1>2, <1>3, <1>4 DEF KeaInv

-----------------------------------------------------------------------------
LEMMA Invariance == Spec => []KeaInv
<1>1. Init => KeaInv
  BY InitKeaInv
<1>2. KeaInv /\ [Next]_vars => KeaInv'
  <2> SUFFICES ASSUME KeaInv, [Next]_vars PROVE KeaInv'
    OBVIOUS
  <2>1. CASE \E c \in Callers, k \in Kinds, m \in Macs :
               Discover(c, m) \/ Register(c, m) \/ Operate(c, k, m)
    BY <2>1, CallsKeep
  <2>2. CASE SyncLists \/ \E m \in Macs : SyncNext(m)
    BY <2>2, SyncListsKeeps, SyncNextKeeps
  <2>3. CASE \E c \in Callers : SendFails(c) \/ Write(c) \/ Read(c) \/ ReadFails(c) \/ Abandon(c)
    BY <2>3, FailuresKeep, WriteKeeps, ReadKeeps, AbandonKeeps
  <2>4. CASE Connect \/ HangUp \/ Apply
    BY <2>4, ConnectKeeps, HangUpKeeps, ApplyKeeps
  <2>5. CASE \E n \in Conns : Announce(n)
    BY <2>5, AnnounceKeeps
  <2>6. CASE KeaRestart \/ RouterRestart
    BY <2>6, RestartsKeep
  <2>7. CASE UNCHANGED vars
    BY <2>7, StutterKeeps
  <2>8. "own" \in Kinds
    BY DEF Kinds
  <2> QED
    BY <2>1, <2>2, <2>3, <2>4, <2>5, <2>6, <2>7, <2>8 DEF Next
<1> QED
  BY <1>1, <1>2, PTL DEF Spec

(* The channel's state is always well formed, and the mutex is held during *)
(* calls only.                                                             *)
THEOREM TypeCorrect == Spec => []TypeOK
  BY Invariance, PTL DEF KeaInv

(* However many restarts, reconnections and abandoned calls there are,     *)
(* what is under way on the shared connection is exactly the call in       *)
(* progress and the abandoned ones.                                        *)
THEOREM OnlyAbandonedCallsLag == Spec => []AbandonedCallsLag
  BY Invariance, PTL DEF KeaInv

(* On a connection without abandoned calls every call of send() reads the  *)
(* answer to its own command, and an answer of ok is in force at the hook. *)
THEOREM CleanAnswersInForce == Spec => []AnswersInForce
  BY Invariance, OneCallAnswers, PTL

-----------------------------------------------------------------------------
(* DiscoveryStream: the inductive invariant.                               *)

(* A listener handles a broadcast it is in reach of.                       *)
Hears(l) ==
  pc[l] # "recv" => /\ heard[l] \in Sightings /\ heard[l].dev \in Tuyas
                    /\ l \in HeardBy[heard[l].dev]
ListenersHear == \A l \in Loops : Hears(l)

IsRecordOf(d) == rec[d] \in Sightings /\ rec[d].dev = d
RecordsNamed == \A d \in Devices : rec[d] = None \/ IsRecordOf(d)

(* What is still to be listed is a record, and only a stream that is there *)
(* has anything under way.                                                 *)
ListIsOfRecords ==
  /\ \A d \in unlisted : IsRecordOf(d)
  /\ stream # "listing" => unlisted = {}
  /\ stream \in {"none", "dead"} => initial = <<>> /\ changes = <<>>

(* This much holds however many listeners a device has.                    *)
Heeded == DiscoveryTypeOK /\ ListenersHear /\ RecordsNamed /\ ListIsOfRecords

(* Until a listener has sent its event the record is what it wrote.        *)
Wrote(l) == pc[l] = "send" => rec[heard[l].dev] = heard[l]
ListenersWrote == \A l \in Loops : Wrote(l)

(* The last event on a device in the channel is of its record.             *)
ChangesCurrent(d) ==
  rec[d] = None \/ Announcing(d) \/ NoWordOn(changes, d) \/ EndsWith(changes, d, rec[d])

(* Where the channel has no word on a device, the list or the core has it. *)
Carried(d) ==
  \/ rec[d] = None \/ Announcing(d) \/ ~NoWordOn(changes, d)
  \/ d \in unlisted
  \/ EndsWith(initial, d, rec[d])
  \/ NoWordOn(initial, d) /\ cache[d] = rec[d]

NothingLost ==
  /\ \A d \in Tuyas : ChangesCurrent(d)
  /\ stream \in {"listing", "open"} /\ ~lagged => \A d \in Tuyas : Carried(d)

DInv == Heeded /\ ListenersWrote /\ NothingLost

-----------------------------------------------------------------------------
(* Words on a device in a sequence of sightings.                           *)

LEMMA WordAppended ==
  ASSUME NEW S, NEW q \in Seq(S), NEW s \in S
  PROVE  /\ EndsWith(Append(q, s), s.dev, s)
         /\ ~NoWordOn(Append(q, s), s.dev)
         /\ \A d : d # s.dev => (NoWordOn(q, d) <=> NoWordOn(Append(q, s), d))
         /\ \A d, r : d # s.dev /\ EndsWith(q, d, r) => EndsWith(Append(q, s), d, r)
<1> SUFFICES ASSUME NEW a, a = Append(q, s)
             PROVE  /\ EndsWith(a, s.dev, s)
                    /\ ~NoWordOn(a, s.dev)
                    /\ \A d : d # s.dev => (NoWordOn(q, d) <=> NoWordOn(a, d))
                    /\ \A d, r : d # s.dev /\ EndsWith(q, d, r) => EndsWith(a, d, r)
  OBVIOUS
<1>1. Len(q) \in Nat /\ Len(a) = Len(q) + 1 /\ a[Len(q) + 1] = s
  OBVIOUS
<1>2. \A i \in 1..Len(q) : a[i] = q[i]
  OBVIOUS
<1>3. \A j \in 1..Len(a) : j = Len(q) + 1 \/ j \in 1..Len(q)
  BY <1>1
<1>4. Len(q) + 1 \in 1..Len(a) /\ 1..Len(q) \subseteq 1..Len(a)
  BY <1>1
<1>5. EndsWith(a, s.dev, s)
  BY <1>1, <1>4 DEF EndsWith
<1>6. ~NoWordOn(a, s.dev)
  BY <1>1, <1>4 DEF NoWordOn
<1>7. \A d : d # s.dev => (NoWordOn(q, d) <=> NoWordOn(a, d))
  BY <1>1, <1>2, <1>3, <1>4 DEF NoWordOn
<1>8. ASSUME NEW d, NEW r, d # s.dev, EndsWith(q, d, r)
      PROVE  EndsWith(a, d, r)
  <2>1. PICK i \in 1..Len(q) :
          /\ q[i] = r /\ r.dev = d
          /\ \A j \in 1..Len(q) : q[j].dev = d => j <= i
    BY <1>8 DEF EndsWith
  <2>2. \A j \in 1..Len(a) : a[j].dev = d => j <= i
    BY <1>1, <1>2, <1>3, <1>8, <2>1
  <2> QED
    BY <1>2, <1>4, <2>1, <2>2 DEF EndsWith
<1> QED
  BY <1>5, <1>6, <1>7, <1>8

LEMMA WordTaken ==
  ASSUME NEW S, NEW q \in Seq(S), q # <<>>
  PROVE  /\ \A d : NoWordOn(q, d) => NoWordOn(Tail(q), d) /\ Head(q).dev # d
         /\ \A d : Head(q).dev # d /\ NoWordOn(Tail(q), d) => NoWordOn(q, d)
         /\ \A d, r : EndsWith(q, d, r) =>
              \/ EndsWith(Tail(q), d, r)
              \/ NoWordOn(Tail(q), d) /\ Head(q) = r /\ r.dev = d
<1> SUFFICES ASSUME NEW t, t = Tail(q)
             PROVE  /\ \A d : NoWordOn(q, d) => NoWordOn(t, d) /\ Head(q).dev # d
                    /\ \A d : Head(q).dev # d /\ NoWordOn(t, d) => NoWordOn(q, d)
                    /\ \A d, r : EndsWith(q, d, r) =>
                         \/ EndsWith(t, d, r)
                         \/ NoWordOn(t, d) /\ Head(q) = r /\ r.dev = d
  OBVIOUS
<1>1. /\ Len(q) \in Nat /\ Len(q) >= 1 /\ Len(t) = Len(q) - 1 /\ Head(q) = q[1]
      /\ \A i \in 1..Len(t) : t[i] = q[i + 1]
  OBVIOUS
<1>2. /\ \A i \in 1..Len(t) : i + 1 \in 1..Len(q)
      /\ \A i \in 1..Len(q) : i = 1 \/ i - 1 \in 1..Len(t)
      /\ 1 \in 1..Len(q)
  BY <1>1
<1>3. \A d : NoWordOn(q, d) => NoWordOn(t, d) /\ Head(q).dev # d
  BY <1>1, <1>2 DEF NoWordOn
<1>4. \A i \in 1..Len(q) : i # 1 => q[i] = t[i - 1]
  BY <1>1, <1>2
<1>5. \A d : Head(q).dev # d /\ NoWordOn(t, d) => NoWordOn(q, d)
  BY <1>1, <1>2, <1>4 DEF NoWordOn
<1>6. ASSUME NEW d, NEW r, EndsWith(q, d, r)
      PROVE  \/ EndsWith(t, d, r)
             \/ NoWordOn(t, d) /\ Head(q) = r /\ r.dev = d
  <2>1. PICK i \in 1..Len(q) :
          /\ q[i] = r /\ r.dev = d
          /\ \A j \in 1..Len(q) : q[j].dev = d => j <= i
    BY <1>6 DEF EndsWith
  <2>2. CASE i = 1
    <3>1. \A j \in 1..Len(t) : t[j].dev # d
      BY <1>1, <1>2, <2>1, <2>2
    <3> QED
      BY <1>1, <2>1, <2>2, <3>1 DEF NoWordOn
  <2>3. CASE i # 1
    <3>1. i - 1 \in 1..Len(t) /\ t[i - 1] = r
      BY <1>2, <1>4, <2>1, <2>3
    <3>2. \A j \in 1..Len(t) : t[j].dev = d => j <= i - 1
      BY <1>1, <1>2, <2>1
    <3> QED
      BY <2>1, <3>1, <3>2 DEF EndsWith
  <2> QED
    BY <2>2, <2>3
<1> QED
  BY <1>3, <1>5, <1>6

LEMMA WordJoined ==
  ASSUME NEW S, NEW p \in Seq(S), NEW q \in Seq(S), NEW d, NEW r
  PROVE  /\ EndsWith(q, d, r) => EndsWith(p \o q, d, r)
         /\ EndsWith(p, d, r) /\ NoWordOn(q, d) => EndsWith(p \o q, d, r)
         /\ NoWordOn(p, d) /\ NoWordOn(q, d) => NoWordOn(p \o q, d)
<1> SUFFICES ASSUME NEW c, c = p \o q
             PROVE  /\ EndsWith(q, d, r) => EndsWith(c, d, r)
                    /\ EndsWith(p, d, r) /\ NoWordOn(q, d) => EndsWith(c, d, r)
                    /\ NoWordOn(p, d) /\ NoWordOn(q, d) => NoWordOn(c, d)
  OBVIOUS
<1>1. /\ Len(p) \in Nat /\ Len(q) \in Nat /\ Len(c) = Len(p) + Len(q)
      /\ \A i \in 1..Len(c) : c[i] = IF i <= Len(p) THEN p[i] ELSE q[i - Len(p)]
  OBVIOUS
<1>2. /\ \A i \in 1..Len(p) : i \in 1..Len(c) /\ c[i] = p[i]
      /\ \A i \in 1..Len(q) : Len(p) + i \in 1..Len(c) /\ c[Len(p) + i] = q[i]
      /\ \A i \in 1..Len(c) : i \in 1..Len(p) \/ i - Len(p) \in 1..Len(q)
  BY <1>1
<1>3. \A i \in 1..Len(c) : i \notin 1..Len(p) => c[i] = q[i - Len(p)]
  BY <1>1
<1>4. ASSUME EndsWith(q, d, r)
      PROVE  EndsWith(c, d, r)
  <2>1. PICK i \in 1..Len(q) :
          /\ q[i] = r /\ r.dev = d
          /\ \A j \in 1..Len(q) : q[j].dev = d => j <= i
    BY <1>4 DEF EndsWith
  <2>2. \A j \in 1..Len(c) : c[j].dev = d => j <= Len(p) + i
    BY <1>1, <1>2, <1>3, <2>1
  <2> QED
    BY <1>2, <2>1, <2>2 DEF EndsWith
<1>5. ASSUME EndsWith(p, d, r), NoWordOn(q, d)
      PROVE  EndsWith(c, d, r)
  <2>1. PICK i \in 1..Len(p) :
          /\ p[i] = r /\ r.dev = d
          /\ \A j \in 1..Len(p) : p[j].dev = d => j <= i
    BY <1>5 DEF EndsWith
  <2>2. \A j \in 1..Len(c) : c[j].dev = d => j <= i
    BY <1>2, <1>3, <1>5, <2>1 DEF NoWordOn
  <2> QED
    BY <1>2, <2>1, <2>2 DEF EndsWith
<1>6. NoWordOn(p, d) /\ NoWordOn(q, d) => NoWordOn(c, d)
  BY <1>2, <1>3 DEF NoWordOn
<1> QED
  BY <1>4, <1>5, <1>6

-----------------------------------------------------------------------------
(* Types.                                                                  *)

LEMMA NothingQueued ==
  ASSUME DiscoveryAssumption
  PROVE  <<>> \in Seq(Sightings) /\ Len(<<>>) <= Capacity
  BY DEF DiscoveryAssumption

LEMMA EnqueueTyped ==
  ASSUME DiscoveryAssumption, DiscoveryTypeOK, NEW s \in Sightings, Enqueue(s)
  PROVE  /\ changes' \in Seq(Sightings) /\ Len(changes') <= Capacity
         /\ lagged' \in BOOLEAN
<1>1. changes \in Seq(Sightings) /\ Len(changes) <= Capacity /\ lagged \in BOOLEAN
  BY DEF DiscoveryTypeOK
<1>2. Capacity \in Nat \ {0}
  BY DEF DiscoveryAssumption
<1>3. CASE Len(changes) < Capacity
  BY <1>1, <1>2, <1>3 DEF Enqueue
<1>4. CASE ~(Len(changes) < Capacity)
  <2>1. changes # <<>>
    BY <1>1, <1>2, <1>4
  <2>2. Tail(changes) \in Seq(Sightings) /\ Len(Tail(changes)) = Len(changes) - 1
    BY <1>1, <2>1
  <2>3. changes' = Append(Tail(changes), s) /\ lagged' = TRUE
    BY <1>4 DEF Enqueue
  <2> QED
    BY <1>1, <1>2, <2>2, <2>3
<1> QED
  BY <1>3, <1>4

(* What the network, the router's records and the core keep.               *)
RouterTyped ==
  /\ where \in [Devices -> Addresses] /\ firmware \in [Tuyas -> Firmwares]
  /\ rec \in [Devices -> Sightings \cup {None}]
  /\ pc \in [Loops -> {"recv", "resolve", "upsert", "send"}]
  /\ heard \in [Loops -> Sightings \cup {None}]
StreamTyped ==
  /\ stream \in {"none", "listing", "open", "dead"}
  /\ unlisted \subseteq Devices
  /\ initial \in Seq(Sightings)
  /\ changes \in Seq(Sightings) /\ Len(changes) <= Capacity
  /\ lagged \in BOOLEAN
CoreTyped ==
  /\ cache \in [Devices -> Sightings \cup {None}]
  /\ hints \in [Tuyas -> Firmwares \cup {None}]
  /\ config \in [Tuyas -> [ip : Addresses, version : Firmwares \cup {None}]]
CountsTyped ==
  unresolved \in 0..MaxUnresolved /\ faults \in 0..MaxFaults /\ silent \in 0..MaxSilent

LEMMA DiscoveryTyped ==
  DiscoveryTypeOK <=> RouterTyped /\ StreamTyped /\ CoreTyped /\ CountsTyped
  BY DEF DiscoveryTypeOK, RouterTyped, StreamTyped, CoreTyped, CountsTyped

LEMMA DiscoveryTypedNext ==
  (RouterTyped /\ StreamTyped /\ CoreTyped /\ CountsTyped)' => DiscoveryTypeOK'
  BY DEF DiscoveryTypeOK, RouterTyped, StreamTyped, CoreTyped, CountsTyped

(* What a step leaves alone stays typed.                                   *)
LEMMA PartsKept ==
  /\ RouterTyped /\ UNCHANGED <<where, firmware, routerVars>> => RouterTyped'
  /\ StreamTyped /\ UNCHANGED streamVars => StreamTyped'
  /\ CoreTyped /\ UNCHANGED coreVars => CoreTyped'
  /\ CountsTyped /\ UNCHANGED bounds => CountsTyped'
<1>1. RouterTyped /\ UNCHANGED <<where, firmware, routerVars>> => RouterTyped'
  BY DEF routerVars, RouterTyped
<1>2. StreamTyped /\ UNCHANGED streamVars => StreamTyped'
  BY DEF streamVars, StreamTyped
<1>3. CoreTyped /\ UNCHANGED coreVars => CoreTyped'
  BY DEF coreVars, CoreTyped
<1>4. CountsTyped /\ UNCHANGED bounds => CountsTyped'
  BY DEF bounds, CountsTyped
<1> QED
  BY <1>1, <1>2, <1>3, <1>4

LEMMA HearTyped ==
  ASSUME DiscoveryAssumption, Heeded, NEW l \in Loops, NEW d \in Tuyas, Hear(l, d)
  PROVE  DiscoveryTypeOK'
<1>1. RouterTyped /\ StreamTyped /\ CoreTyped /\ CountsTyped
  BY DiscoveryTyped DEF Heeded
<1>2. [dev |-> d, ip |-> where[d], version |-> firmware[d], mac |-> FALSE] \in Sightings
  BY <1>1 DEF RouterTyped, Sightings, Devices
<1>3. RouterTyped'
  BY <1>1, <1>2 DEF RouterTyped, Hear
<1>4. UNCHANGED <<streamVars, coreVars, bounds>>
  BY DEF Hear
<1> QED
  BY <1>1, <1>3, <1>4, PartsKept, DiscoveryTypedNext

LEMMA ResolveTyped ==
  ASSUME DiscoveryAssumption, Heeded, NEW l \in Loops, ResolveMac(l)
  PROVE  DiscoveryTypeOK'
<1>1. RouterTyped /\ StreamTyped /\ CoreTyped /\ CountsTyped
  BY DiscoveryTyped DEF Heeded
<1>2. heard[l] \in Sightings
  BY DEF Heeded, ListenersHear, Hears, ResolveMac
<1>3. PICK found \in BOOLEAN :
        /\ heard' = [heard EXCEPT ![l].mac = found]
        /\ IF found THEN UNCHANGED unresolved
                    ELSE unresolved < MaxUnresolved /\ unresolved' = unresolved + 1
  BY DEF ResolveMac
<1>4. [heard[l] EXCEPT !.mac = found] \in Sightings
  BY <1>2 DEF Sightings
<1>5. RouterTyped'
  BY <1>1, <1>3, <1>4 DEF RouterTyped, ResolveMac
<1>6. unresolved' \in 0..MaxUnresolved
  BY <1>1, <1>3 DEF CountsTyped, DiscoveryAssumption
<1>7. CountsTyped'
  BY <1>1, <1>6 DEF CountsTyped, ResolveMac
<1>8. UNCHANGED <<streamVars, coreVars>>
  BY DEF ResolveMac
<1> QED
  BY <1>1, <1>5, <1>7, <1>8, PartsKept, DiscoveryTypedNext

LEMMA UpsertTyped ==
  ASSUME DiscoveryAssumption, Heeded, NEW l \in Loops, Upsert(l)
  PROVE  DiscoveryTypeOK'
<1>1. RouterTyped /\ StreamTyped /\ CoreTyped /\ CountsTyped
  BY DiscoveryTyped DEF Heeded
<1>2. heard[l] \in Sightings /\ heard[l].dev \in Devices
  BY DEF Heeded, ListenersHear, Hears, Upsert, Devices
<1>3. UNCHANGED <<where, firmware, coreVars, bounds>>
  BY DEF Upsert
<1>4. CASE Changed(heard[l].dev, heard[l])
  <2>1. /\ rec' = [rec EXCEPT ![heard[l].dev] = heard[l]]
        /\ pc' = [pc EXCEPT ![l] = "send"] /\ heard' = heard
    BY <1>4 DEF Upsert
  <2>2. RouterTyped'
    BY <1>1, <1>2, <1>3, <2>1 DEF RouterTyped
  <2>3. unlisted' \subseteq Devices
    <3>1. ListMayMeet(heard[l].dev)
      BY <1>4 DEF Upsert
    <3> QED
      BY <1>1, <1>2, <3>1 DEF ListMayMeet, StreamTyped
  <2>4. StreamTyped'
    BY <1>1, <2>3 DEF StreamTyped, Upsert
  <2> QED
    BY <1>1, <1>3, <2>2, <2>4, PartsKept, DiscoveryTypedNext
<1>5. CASE ~Changed(heard[l].dev, heard[l])
  <2>1. /\ rec' = rec /\ unlisted' = unlisted
        /\ pc' = [pc EXCEPT ![l] = "recv"] /\ heard' = [heard EXCEPT ![l] = None]
    BY <1>5 DEF Upsert
  <2>2. RouterTyped'
    BY <1>1, <1>3, <2>1 DEF RouterTyped
  <2>3. StreamTyped'
    BY <1>1, <2>1 DEF StreamTyped, Upsert
  <2> QED
    BY <1>1, <1>3, <2>2, <2>3, PartsKept, DiscoveryTypedNext
<1> QED
  BY <1>4, <1>5

LEMMA SendTyped ==
  ASSUME DiscoveryAssumption, Heeded, NEW l \in Loops, Send(l)
  PROVE  DiscoveryTypeOK'
<1>1. RouterTyped /\ StreamTyped /\ CoreTyped /\ CountsTyped
  BY DiscoveryTyped DEF Heeded
<1>2. heard[l] \in Sightings
  BY DEF Heeded, ListenersHear, Hears, Send
<1>3. RouterTyped'
  BY <1>1 DEF RouterTyped, Send
<1>4. /\ changes' \in Seq(Sightings) /\ Len(changes') <= Capacity
      /\ lagged' \in BOOLEAN
  <2>1. CASE Subscribed
    BY <1>2, <2>1, EnqueueTyped DEF Send, Heeded
  <2>2. CASE ~Subscribed
    BY <1>1, <2>2 DEF Send, StreamTyped
  <2> QED
    BY <2>1, <2>2
<1>5. StreamTyped'
  BY <1>1, <1>4 DEF StreamTyped, Send
<1>6. UNCHANGED <<coreVars, bounds>>
  BY DEF Send
<1> QED
  BY <1>1, <1>3, <1>5, <1>6, PartsKept, DiscoveryTypedNext

LEMMA RegisterTyped ==
  ASSUME DiscoveryAssumption, Heeded, NEW d \in Managed, RegisterDevice(d)
  PROVE  DiscoveryTypeOK'
<1>1. RouterTyped /\ StreamTyped /\ CoreTyped /\ CountsTyped
  BY DiscoveryTyped DEF Heeded
<1>2. d \in Devices
  BY DEF Devices
<1>3. [dev |-> d, ip |-> where[d], version |-> None, mac |-> TRUE] \in Sightings
  BY <1>1, <1>2 DEF RouterTyped, Sightings
<1>4. RouterTyped'
  BY <1>1, <1>3 DEF RouterTyped, RegisterDevice
<1>5. unlisted' \subseteq Devices
  BY <1>1, <1>2 DEF RegisterDevice, ListMayMeet, StreamTyped
<1>6. StreamTyped'
  BY <1>1, <1>5 DEF StreamTyped, RegisterDevice
<1>7. UNCHANGED <<coreVars, bounds>>
  BY DEF RegisterDevice
<1> QED
  BY <1>1, <1>4, <1>6, <1>7, PartsKept, DiscoveryTypedNext

LEMMA ListTyped ==
  ASSUME DiscoveryAssumption, Heeded, WatchDiscovery \/ ListRecord
  PROVE  DiscoveryTypeOK'
<1>1. RouterTyped /\ StreamTyped /\ CoreTyped /\ CountsTyped
  BY DiscoveryTyped DEF Heeded
<1>2. UNCHANGED <<where, firmware, routerVars, coreVars, bounds>>
  BY DEF WatchDiscovery, ListRecord
<1>3. CASE WatchDiscovery
  <2>1. /\ stream' = "listing" /\ unlisted' \subseteq Devices
        /\ initial' = <<>> /\ changes' = <<>> /\ lagged' = FALSE
    BY <1>3 DEF WatchDiscovery, Unlisted
  <2>2. StreamTyped'
    BY <2>1, NothingQueued DEF StreamTyped
  <2> QED
    BY <1>1, <1>2, <2>2, PartsKept, DiscoveryTypedNext
<1>4. CASE ListRecord
  <2>1. CASE unlisted = {}
    <3>1. StreamTyped'
      BY <1>1, <1>4, <2>1 DEF StreamTyped, ListRecord
    <3> QED
      BY <1>1, <1>2, <3>1, PartsKept, DiscoveryTypedNext
  <2>2. CASE unlisted # {}
    <3>1. PICK d : d = CHOOSE e \in unlisted : TRUE
      OBVIOUS
    <3>2. d \in unlisted
      BY <2>2, <3>1
    <3>3. rec[d] \in Sightings
      BY <3>2 DEF Heeded, ListIsOfRecords, IsRecordOf
    <3>4. initial' = Append(initial, rec[d]) /\ unlisted' = unlisted \ {d}
      BY <1>4, <2>2, <3>1 DEF ListRecord
    <3>5. StreamTyped'
      BY <1>1, <1>4, <3>3, <3>4 DEF StreamTyped, ListRecord
    <3> QED
      BY <1>1, <1>2, <3>5, PartsKept, DiscoveryTypedNext
  <2> QED
    BY <2>1, <2>2
<1> QED
  BY <1>3, <1>4

(* The event the core receives is the first of the list or, after it, the  *)
(* first of the channel.                                                   *)
LEMMA ReceivedIs ==
  ASSUME initial \in Seq(Sightings), changes \in Seq(Sightings), Receive
  PROVE  /\ initial # <<>> => Head(initial \o changes) = Head(initial)
         /\ initial = <<>> => changes # <<>> /\ Head(initial \o changes) = Head(changes)
<1>1. initial \o changes # <<>>
  BY DEF Receive
<1>2. CASE initial # <<>>
  <2>1. 1 \in 1..Len(initial) /\ Head(initial) = initial[1]
    BY <1>2
  <2>2. (initial \o changes)[1] = initial[1]
    BY <2>1
  <2>3. Head(initial \o changes) = (initial \o changes)[1]
    BY <1>1
  <2> QED
    BY <1>2, <2>1, <2>2, <2>3
<1>3. CASE initial = <<>>
  <2>1. initial \o changes = changes
    BY <1>3
  <2> QED
    BY <1>1, <1>3, <2>1
<1> QED
  BY <1>2, <1>3

(* How the core takes a sighting in.                                       *)
TakesIn(s) ==
  /\ cache' = [cache EXCEPT ![s.dev] = s]
  /\ IF s.dev \in Tuyas
     THEN /\ hints' = [hints EXCEPT ![s.dev] = s.version]
          /\ config' = [config EXCEPT ![s.dev] = Synced(@, s)]
     ELSE UNCHANGED <<hints, config>>

LEMMA TakesInTyped ==
  ASSUME CoreTyped, NEW s \in Sightings, TakesIn(s)
  PROVE  CoreTyped'
<1>1. /\ s.dev \in Devices /\ s.version \in Firmwares \cup {None} /\ s.ip \in Addresses
  BY DEF Sightings
<1>2. cache' \in [Devices -> Sightings \cup {None}]
  BY <1>1 DEF TakesIn, CoreTyped
<1>3. CASE s.dev \in Tuyas
  <2>1. hints' \in [Tuyas -> Firmwares \cup {None}]
    BY <1>1, <1>3 DEF TakesIn, CoreTyped
  <2>2. Synced(config[s.dev], s) \in [ip : Addresses, version : Firmwares \cup {None}]
    BY <1>1, <1>3 DEF Synced, CoreTyped
  <2>3. config' = [config EXCEPT ![s.dev] = Synced(config[s.dev], s)]
    BY <1>3 DEF TakesIn
  <2> QED
    BY <1>2, <2>1, <2>2, <2>3 DEF CoreTyped
<1>4. CASE s.dev \notin Tuyas
  BY <1>2, <1>4 DEF TakesIn, CoreTyped
<1> QED
  BY <1>3, <1>4

LEMMA ReceiveTyped ==
  ASSUME DiscoveryAssumption, Heeded, Receive
  PROVE  DiscoveryTypeOK'
<1>1. RouterTyped /\ StreamTyped /\ CoreTyped /\ CountsTyped
  BY DiscoveryTyped DEF Heeded
<1>2. PICK s : s = Head(initial \o changes)
  OBVIOUS
<1>3. TakesIn(s)
  BY <1>2 DEF Receive, TakesIn
<1>4. s \in Sightings
  BY <1>1, <1>2, ReceivedIs DEF StreamTyped
<1>5. CoreTyped'
  BY <1>1, <1>3, <1>4, TakesInTyped
<1>6. StreamTyped'
  <2>1. CASE initial # <<>>
    <3>1. initial' = Tail(initial) /\ UNCHANGED <<stream, unlisted, changes, lagged>>
      BY <2>1 DEF Receive
    <3>2. Tail(initial) \in Seq(Sightings)
      BY <1>1, <2>1 DEF StreamTyped
    <3> QED
      BY <1>1, <3>1, <3>2 DEF StreamTyped
  <2>2. CASE initial = <<>>
    <3>1. changes # <<>>
      BY <1>1, <2>2, ReceivedIs DEF StreamTyped
    <3>2. Tail(changes) \in Seq(Sightings) /\ Len(Tail(changes)) = Len(changes) - 1
      BY <1>1, <3>1 DEF StreamTyped
    <3>3. Len(Tail(changes)) <= Capacity
      BY <1>1, <3>2 DEF StreamTyped, DiscoveryAssumption
    <3> QED
      BY <1>1, <2>2, <3>2, <3>3 DEF Receive, StreamTyped
  <2> QED
    BY <2>1, <2>2
<1>7. UNCHANGED <<where, firmware, routerVars, bounds>>
  BY DEF Receive
<1> QED
  BY <1>1, <1>5, <1>6, <1>7, PartsKept, DiscoveryTypedNext

LEMMA MoveTyped ==
  ASSUME DiscoveryAssumption, Heeded, NEW d \in Tuyas, Move(d)
  PROVE  DiscoveryTypeOK'
<1>1. RouterTyped /\ StreamTyped /\ CoreTyped /\ CountsTyped
  BY DiscoveryTyped DEF Heeded
<1>2. where[d] \in Addresses /\ where[d] < MaxMoves /\ where' = [where EXCEPT ![d] = where[d] + 1]
  BY <1>1 DEF Move, RouterTyped, Devices
<1>3. where[d] + 1 \in Addresses
  BY <1>2 DEF Addresses, DiscoveryAssumption
<1>4. RouterTyped'
  BY <1>1, <1>2, <1>3 DEF RouterTyped, Move, routerVars
<1>5. UNCHANGED <<streamVars, coreVars, bounds>>
  BY DEF Move
<1> QED
  BY <1>1, <1>4, <1>5, PartsKept, DiscoveryTypedNext

LEMMA FaultyTyped ==
  ASSUME DiscoveryAssumption, Heeded, Faulty
  PROVE  DiscoveryTypeOK'
<1>1. RouterTyped /\ StreamTyped /\ CoreTyped /\ CountsTyped
  BY DiscoveryTyped DEF Heeded
<1>2. Fault => CountsTyped'
  BY <1>1 DEF Fault, CountsTyped, DiscoveryAssumption
<1>3. \A s \in {"none", "dead"} : StreamTo(s) => StreamTyped'
  BY NothingQueued DEF StreamTo, StreamTyped
<1>4. CASE StreamBreaks
  BY <1>1, <1>2, <1>3, <1>4, PartsKept, DiscoveryTypedNext DEF StreamBreaks
<1>5. CASE StreamDies
  <2>1. silent' \in 0..MaxSilent
    BY <1>1, <1>5 DEF StreamDies, CountsTyped, DiscoveryAssumption
  <2>2. CountsTyped'
    BY <1>1, <1>5, <2>1 DEF StreamDies, CountsTyped
  <2> QED
    BY <1>1, <1>3, <1>5, <2>2, PartsKept, DiscoveryTypedNext DEF StreamDies
<1>6. CASE RouterRestarts
  <2>1. RouterTyped'
    BY <1>1, <1>6 DEF RouterRestarts, RouterTyped
  <2> QED
    BY <1>1, <1>2, <1>3, <1>6, <2>1, PartsKept, DiscoveryTypedNext DEF RouterRestarts
<1>7. CASE CoreRestarts
  <2>1. CoreTyped'
    BY <1>1, <1>7 DEF CoreRestarts, CoreTyped
  <2> QED
    BY <1>1, <1>2, <1>3, <1>7, <2>1, PartsKept, DiscoveryTypedNext DEF CoreRestarts
<1> QED
  BY <1>4, <1>5, <1>6, <1>7 DEF Faulty

LEMMA DiscoveryNextTyped ==
  ASSUME DiscoveryAssumption, Heeded, DiscoveryNext
  PROVE  DiscoveryTypeOK'
  BY HearTyped, ResolveTyped, UpsertTyped, SendTyped, RegisterTyped, ListTyped, ReceiveTyped,
     MoveTyped, FaultyTyped
  DEF DiscoveryNext, Router, Core

-----------------------------------------------------------------------------
(* Listeners and records.                                                  *)

(* Each Tuya device is in reach of one listener at most.                   *)
OneListenerEach == \A d \in Tuyas : \A l, k \in HeardBy[d] : l = k

(* Listener l writes the record of a Tuya device, which no other handles.  *)
LEMMA OthersHandle ==
  ASSUME ListenersHear, OneListenerEach, NEW l \in Loops, pc[l] = "upsert",
         NEW k \in Loops \ {l}, pc[k] # "recv"
  PROVE  heard[k].dev # heard[l].dev
  BY DEF ListenersHear, Hears, OneListenerEach

LEMMA ListenersHearNext ==
  ASSUME DiscoveryAssumption, Heeded, DiscoveryNext
  PROVE  ListenersHear'
<1>1. RouterTyped /\ ListenersHear
  BY DiscoveryTyped DEF Heeded
<1>2. ASSUME NEW l \in Loops, NEW d \in Tuyas, Hear(l, d)
      PROVE  ListenersHear'
  <2>1. PICK s : s = [dev |-> d, ip |-> where[d], version |-> firmware[d], mac |-> FALSE]
    OBVIOUS
  <2>2. s \in Sightings /\ s.dev = d
    BY <1>1, <2>1 DEF RouterTyped, Sightings, Devices
  <2>3. /\ heard' = [heard EXCEPT ![l] = s] /\ pc' = [pc EXCEPT ![l] = "resolve"]
        /\ l \in HeardBy[d]
    BY <1>2, <2>1 DEF Hear
  <2> QED
    BY <1>1, <2>2, <2>3 DEF RouterTyped, ListenersHear, Hears
<1>3. ASSUME NEW l \in Loops, ResolveMac(l)
      PROVE  ListenersHear'
  <2>1. PICK found \in BOOLEAN : heard' = [heard EXCEPT ![l].mac = found]
    BY <1>3 DEF ResolveMac
  <2>2. PICK s : s = [heard[l] EXCEPT !.mac = found]
    OBVIOUS
  <2>3. /\ heard[l] \in Sightings /\ heard[l].dev \in Tuyas /\ l \in HeardBy[heard[l].dev]
    BY <1>1, <1>3 DEF ListenersHear, Hears, ResolveMac
  <2>4. s \in Sightings /\ s.dev = heard[l].dev
    BY <2>2, <2>3 DEF Sightings
  <2>5. heard' = [heard EXCEPT ![l] = s] /\ pc' = [pc EXCEPT ![l] = "upsert"]
    BY <1>3, <2>1, <2>2 DEF ResolveMac
  <2> QED
    BY <1>1, <2>3, <2>4, <2>5 DEF RouterTyped, ListenersHear, Hears
<1>4. ASSUME NEW l \in Loops, Upsert(l)
      PROVE  ListenersHear'
  <2>1. pc[l] = "upsert"
    BY <1>4 DEF Upsert
  <2>2. heard[l] \in Sightings /\ heard[l].dev \in Tuyas /\ l \in HeardBy[heard[l].dev]
    BY <1>1, <2>1 DEF ListenersHear, Hears
  <2>3. CASE Changed(heard[l].dev, heard[l])
    <3>1. /\ rec' = [rec EXCEPT ![heard[l].dev] = heard[l]]
          /\ pc' = [pc EXCEPT ![l] = "send"] /\ heard' = heard
      BY <1>4, <2>3 DEF Upsert
    <3> QED
      BY <1>1, <2>2, <3>1 DEF RouterTyped, ListenersHear, Hears
  <2>4. CASE ~Changed(heard[l].dev, heard[l])
    <3>1. /\ rec' = rec /\ pc' = [pc EXCEPT ![l] = "recv"]
          /\ heard' = [heard EXCEPT ![l] = None]
      BY <1>4, <2>4 DEF Upsert
    <3> QED
      BY <1>1, <3>1 DEF RouterTyped, ListenersHear, Hears
  <2> QED
    BY <2>3, <2>4
<1>5. ASSUME NEW l \in Loops, Send(l)
      PROVE  ListenersHear'
  <2>1. /\ pc' = [pc EXCEPT ![l] = "recv"] /\ heard' = [heard EXCEPT ![l] = None]
    BY <1>5 DEF Send
  <2> QED
    BY <1>1, <2>1 DEF RouterTyped, ListenersHear, Hears
<1>6. CASE Core \/ StreamBreaks \/ StreamDies \/ CoreRestarts
           \/ (\E d \in Tuyas : Move(d)) \/ \E d \in Managed : RegisterDevice(d)
  <2>1. pc' = pc /\ heard' = heard
    BY <1>6 DEF Core, WatchDiscovery, ListRecord, Receive, StreamBreaks, StreamDies,
                CoreRestarts, Move, RegisterDevice, routerVars
  <2> QED
    BY <1>1, <2>1 DEF ListenersHear, Hears
<1>7. CASE RouterRestarts
  <2>1. \A l \in Loops : pc'[l] = "recv"
    BY <1>7 DEF RouterRestarts
  <2> QED
    BY <2>1 DEF ListenersHear, Hears
<1> QED
  BY <1>2, <1>3, <1>4, <1>5, <1>6, <1>7 DEF DiscoveryNext, Router, Faulty

LEMMA ListenersWroteNext ==
  ASSUME DiscoveryAssumption, OneListenerEach, DInv, DiscoveryNext
  PROVE  ListenersWrote'
<1>1. RouterTyped /\ ListenersHear /\ ListenersWrote
  BY DiscoveryTyped DEF DInv, Heeded
<1>2. ASSUME NEW l \in Loops, rec' = rec, pc'[l] # "send",
             \A k \in Loops \ {l} : pc'[k] = pc[k] /\ heard'[k] = heard[k]
      PROVE  ListenersWrote'
  BY <1>1, <1>2 DEF ListenersWrote, Wrote
<1>3. ASSUME NEW l \in Loops, Upsert(l)
      PROVE  ListenersWrote'
  <2>1. pc[l] = "upsert"
    BY <1>3 DEF Upsert
  <2>2. heard[l] \in Sightings /\ heard[l].dev \in Tuyas /\ l \in HeardBy[heard[l].dev]
    BY <1>1, <2>1 DEF ListenersHear, Hears
  <2>3. CASE Changed(heard[l].dev, heard[l])
    <3>1. /\ rec' = [rec EXCEPT ![heard[l].dev] = heard[l]]
          /\ pc' = [pc EXCEPT ![l] = "send"] /\ heard' = heard
      BY <1>3, <2>3 DEF Upsert
    <3>2. Wrote(l)'
      BY <1>1, <2>2, <3>1 DEF RouterTyped, Wrote, Devices
    <3>3. ASSUME NEW k \in Loops \ {l}
          PROVE  Wrote(k)'
      <4>1. pc'[k] = pc[k] /\ heard'[k] = heard[k]
        BY <1>1, <3>1 DEF RouterTyped
      <4>2. pc[k] = "send" => rec'[heard[k].dev] = rec[heard[k].dev]
        BY <2>1, <3>1, <1>1, OthersHandle DEF RouterTyped, ListenersHear, Hears, Devices
      <4> QED
        BY <1>1, <4>1, <4>2 DEF ListenersWrote, Wrote
    <3> QED
      BY <3>2, <3>3 DEF ListenersWrote
  <2>4. CASE ~Changed(heard[l].dev, heard[l])
    <3>1. /\ rec' = rec /\ pc' = [pc EXCEPT ![l] = "recv"]
          /\ heard' = [heard EXCEPT ![l] = None]
      BY <1>3, <2>4 DEF Upsert
    <3> QED
      BY <1>1, <1>2, <3>1 DEF RouterTyped
  <2> QED
    BY <2>3, <2>4
<1>4. ASSUME NEW l \in Loops, Send(l) \/ ResolveMac(l) \/ \E d \in Tuyas : Hear(l, d)
      PROVE  ListenersWrote'
  <2>1. rec' = rec /\ pc'[l] # "send"
    BY <1>1, <1>4 DEF Send, ResolveMac, Hear, RouterTyped
  <2>2. \A k \in Loops \ {l} : pc'[k] = pc[k] /\ heard'[k] = heard[k]
    BY <1>1, <1>4 DEF Send, ResolveMac, Hear, RouterTyped
  <2> QED
    BY <1>2, <2>1, <2>2
<1>5. ASSUME NEW d \in Managed, RegisterDevice(d)
      PROVE  ListenersWrote'
  <2>1. PICK s : rec' = [rec EXCEPT ![d] = s]
    BY <1>5 DEF RegisterDevice
  <2>2. pc' = pc /\ heard' = heard
    BY <1>5 DEF RegisterDevice
  <2>3. \A e \in Tuyas : rec'[e] = rec[e]
    BY <1>1, <2>1 DEF RouterTyped, DiscoveryAssumption, Devices
  <2> QED
    BY <1>1, <2>2, <2>3 DEF ListenersHear, Hears, ListenersWrote, Wrote
<1>6. CASE Core \/ StreamBreaks \/ StreamDies \/ CoreRestarts \/ \E d \in Tuyas : Move(d)
  <2>1. pc' = pc /\ heard' = heard /\ rec' = rec
    BY <1>6 DEF Core, WatchDiscovery, ListRecord, Receive, StreamBreaks, StreamDies,
                CoreRestarts, Move, routerVars
  <2> QED
    BY <1>1, <2>1 DEF ListenersWrote, Wrote
<1>7. CASE RouterRestarts
  <2>1. \A l \in Loops : pc'[l] = "recv"
    BY <1>7 DEF RouterRestarts
  <2> QED
    BY <2>1 DEF ListenersWrote, Wrote
<1> QED
  BY <1>3, <1>4, <1>5, <1>6, <1>7 DEF DiscoveryNext, Router, Faulty

(* What a step does to the records.                                        *)
LEMMA RecordSteps ==
  ASSUME DiscoveryAssumption, Heeded, DiscoveryNext
  PROVE  rec' = rec \/ \E s \in Sightings : rec' = [rec EXCEPT ![s.dev] = s]
<1>1. RouterTyped /\ ListenersHear
  BY DiscoveryTyped DEF Heeded
<1>2. ASSUME NEW l \in Loops, Upsert(l)
      PROVE  rec' = rec \/ \E s \in Sightings : rec' = [rec EXCEPT ![s.dev] = s]
  <2>1. heard[l] \in Sightings
    BY <1>1, <1>2 DEF ListenersHear, Hears, Upsert
  <2> QED
    BY <1>2, <2>1 DEF Upsert
<1>3. ASSUME NEW d \in Managed, RegisterDevice(d)
      PROVE  \E s \in Sightings : rec' = [rec EXCEPT ![s.dev] = s]
  <2>1. PICK s : s = [dev |-> d, ip |-> where[d], version |-> None, mac |-> TRUE]
    OBVIOUS
  <2>2. s \in Sightings /\ s.dev = d
    BY <1>1, <2>1 DEF RouterTyped, Sightings, Devices
  <2>3. rec' = [rec EXCEPT ![d] = s]
    BY <1>3, <2>1 DEF RegisterDevice
  <2> QED
    BY <2>2, <2>3
<1>4. CASE Core \/ Faulty \/ (\E d \in Tuyas : Move(d))
           \/ \E l \in Loops : Send(l) \/ ResolveMac(l) \/ \E d \in Tuyas : Hear(l, d)
  BY <1>4 DEF Core, WatchDiscovery, ListRecord, Receive, Faulty, StreamBreaks, StreamDies,
              RouterRestarts, CoreRestarts, Move, Send, ResolveMac, Hear, routerVars
<1> QED
  BY <1>2, <1>3, <1>4 DEF DiscoveryNext, Router

LEMMA RecordsNamedNext ==
  ASSUME DiscoveryAssumption, Heeded, DiscoveryNext
  PROVE  /\ RecordsNamed'
         /\ \A d \in Devices : IsRecordOf(d) => IsRecordOf(d)'
<1>1. RouterTyped /\ RecordsNamed
  BY DiscoveryTyped DEF Heeded
<1>2. CASE rec' = rec
  BY <1>1, <1>2 DEF RecordsNamed, IsRecordOf
<1>3. ASSUME NEW s \in Sightings, rec' = [rec EXCEPT ![s.dev] = s]
      PROVE  /\ RecordsNamed'
             /\ \A d \in Devices : IsRecordOf(d) => IsRecordOf(d)'
  <2>1. s.dev \in Devices
    BY DEF Sightings
  <2>2. rec'[s.dev] = s /\ \A d \in Devices \ {s.dev} : rec'[d] = rec[d]
    BY <1>1, <1>3, <2>1 DEF RouterTyped
  <2> QED
    BY <1>1, <2>2 DEF RecordsNamed, IsRecordOf
<1> QED
  BY <1>2, <1>3, RecordSteps

LEMMA OneOfTwo ==
  ASSUME NEW x, NEW a, NEW b, x \in {a} \cup {b}
  PROVE  x = a \/ x = b
  OBVIOUS

LEMMA ListMeets ==
  ASSUME NEW d, ListMayMeet(d)
  PROVE  \/ unlisted' = unlisted
         \/ stream = "listing" /\ unlisted' = unlisted \cup {d}
<1>1. CASE stream = "listing" /\ rec[d] = None
  <2>1. PICK u : u = unlisted \cup {d}
    OBVIOUS
  <2>2. unlisted' \in {unlisted} \cup {u}
    BY <1>1, <2>1 DEF ListMayMeet
  <2>3. unlisted' = unlisted \/ unlisted' = u
    BY <2>2, OneOfTwo
  <2> QED
    BY <1>1, <2>1, <2>3
<1>2. CASE ~(stream = "listing" /\ rec[d] = None)
  <2>1. unlisted' \in {unlisted} \cup {unlisted}
    BY <1>2 DEF ListMayMeet
  <2> QED
    BY <2>1, OneOfTwo
<1> QED
  BY <1>1, <1>2

LEMMA ListIsOfRecordsNext ==
  ASSUME DiscoveryAssumption, Heeded, DiscoveryNext
  PROVE  ListIsOfRecords'
<1>1. RouterTyped /\ StreamTyped /\ ListenersHear /\ RecordsNamed /\ ListIsOfRecords
  BY DiscoveryTyped DEF Heeded
<1>2. \A d \in unlisted : IsRecordOf(d)'
  BY <1>1, RecordsNamedNext DEF ListIsOfRecords, StreamTyped
<1>3. ASSUME NEW d \in Devices, IsRecordOf(d)', ListMayMeet(d),
             UNCHANGED <<stream, initial, changes>>
      PROVE  ListIsOfRecords'
  <2>1. \/ unlisted' = unlisted
        \/ stream = "listing" /\ unlisted' = unlisted \cup {d}
    BY <1>3, ListMeets
  <2> QED
    BY <1>1, <1>2, <1>3, <2>1 DEF ListIsOfRecords
<1>4. ASSUME unlisted' = unlisted, UNCHANGED <<stream, initial, changes>>
      PROVE  ListIsOfRecords'
  BY <1>1, <1>2, <1>4 DEF ListIsOfRecords
<1>5. ASSUME NEW s \in {"none", "dead"}, StreamTo(s)
      PROVE  ListIsOfRecords'
  BY <1>5 DEF StreamTo, ListIsOfRecords
<1>6. ASSUME NEW l \in Loops, Upsert(l)
      PROVE  ListIsOfRecords'
  <2>1. heard[l] \in Sightings /\ heard[l].dev \in Devices
    BY <1>1, <1>6 DEF ListenersHear, Hears, Upsert, Devices
  <2>2. CASE Changed(heard[l].dev, heard[l])
    <3>1. rec' = [rec EXCEPT ![heard[l].dev] = heard[l]]
      BY <1>6, <2>2 DEF Upsert
    <3>2. IsRecordOf(heard[l].dev)'
      <4>1. PICK d : d = heard[l].dev
        OBVIOUS
      <4>2. rec'[d] = heard[l]
        BY <1>1, <2>1, <3>1, <4>1 DEF RouterTyped
      <4>3. heard[l].dev' = heard[l].dev
        BY <1>6, <2>2 DEF Upsert
      <4> QED
        BY <2>1, <4>1, <4>2, <4>3 DEF IsRecordOf
    <3>3. PICK d \in Devices : d = heard[l].dev
      BY <2>1
    <3>4. ListMayMeet(d) /\ IsRecordOf(d)' /\ UNCHANGED <<stream, initial, changes>>
      <4>1. rec'[d] = heard[l]
        BY <1>1, <2>1, <3>1, <3>3 DEF RouterTyped
      <4> QED
        BY <1>6, <2>1, <2>2, <3>3, <4>1 DEF Upsert, IsRecordOf
    <3> QED
      BY <1>3, <3>4
  <2>3. CASE ~Changed(heard[l].dev, heard[l])
    BY <1>4, <1>6, <2>3 DEF Upsert
  <2> QED
    BY <2>2, <2>3
<1>7. ASSUME NEW d \in Managed, RegisterDevice(d)
      PROVE  ListIsOfRecords'
  <2>1. d \in Devices
    BY DEF Devices
  <2>2. PICK s : s = [dev |-> d, ip |-> where[d], version |-> None, mac |-> TRUE]
    OBVIOUS
  <2>3. s \in Sightings /\ s.dev = d
    BY <1>1, <2>1, <2>2 DEF RouterTyped, Sightings
  <2>4. rec' = [rec EXCEPT ![d] = s]
    BY <1>7, <2>2 DEF RegisterDevice
  <2>5. IsRecordOf(d)'
    BY <1>1, <2>1, <2>3, <2>4 DEF RouterTyped, IsRecordOf
  <2> QED
    BY <1>3, <1>7, <2>1, <2>5 DEF RegisterDevice
<1>8. CASE WatchDiscovery
  <2>1. stream' = "listing" /\ unlisted' = Unlisted /\ rec' = rec
    BY <1>8 DEF WatchDiscovery, routerVars
  <2> QED
    BY <1>1, <2>1 DEF ListIsOfRecords, Unlisted, RecordsNamed, IsRecordOf
<1>9. CASE ListRecord
  <2>1. /\ stream = "listing" /\ unlisted' \subseteq unlisted
        /\ stream' \in {"listing", "open"}
        /\ stream' = "open" => unlisted' = {}
    BY <1>9 DEF ListRecord
  <2> QED
    BY <1>2, <2>1 DEF ListIsOfRecords
<1>10. CASE Receive
  BY <1>1, <1>2, <1>10 DEF Receive, ListIsOfRecords
<1>11. ASSUME NEW l \in Loops, Send(l)
       PROVE  ListIsOfRecords'
  <2>1. UNCHANGED <<stream, unlisted, initial>>
    BY <1>11 DEF Send
  <2>2. stream \in {"none", "dead"} => changes' = changes
    BY <1>11 DEF Send, Subscribed
  <2> QED
    BY <1>1, <1>2, <2>1, <2>2 DEF ListIsOfRecords
<1>12. CASE Faulty
  <2>1. RouterRestarts => StreamTo("none") \/ UNCHANGED <<stream, unlisted, initial, changes>>
    BY DEF RouterRestarts, streamVars
  <2> QED
    BY <1>4, <1>5, <1>12, <2>1 DEF Faulty, StreamBreaks, StreamDies, CoreRestarts
<1>13. CASE (\E d \in Tuyas : Move(d))
            \/ \E l \in Loops : ResolveMac(l) \/ \E d \in Tuyas : Hear(l, d)
  BY <1>4, <1>13 DEF Move, ResolveMac, Hear, streamVars
<1> QED
  BY <1>6, <1>7, <1>8, <1>9, <1>10, <1>11, <1>12, <1>13 DEF DiscoveryNext, Router, Core

-----------------------------------------------------------------------------
(* Nothing is lost on the way.                                             *)

LEMMA WordThere ==
  ASSUME NEW q, NEW d, NEW r, EndsWith(q, d, r)
  PROVE  ~NoWordOn(q, d)
  BY DEF EndsWith, NoWordOn

LEMMA NoWordAtAll ==
  ASSUME NEW d
  PROVE  NoWordOn(<<>>, d) /\ \A r : ~EndsWith(<<>>, d, r)
  BY DEF EndsWith, NoWordOn

(* A step of the listeners that sends nothing.                             *)
LEMMA QuietStep ==
  ASSUME NothingLost, unlisted \subseteq unlisted',
         UNCHANGED <<stream, initial, changes, lagged, cache>>,
         \A d \in Tuyas : \/ Announcing(d)'
                          \/ rec'[d] = rec[d] /\ (Announcing(d) => Announcing(d)')
  PROVE  NothingLost'
<1>1. ASSUME NEW d \in Tuyas
      PROVE  ChangesCurrent(d)' /\ (Carried(d) => Carried(d)')
  <2>1. CASE Announcing(d)'
    BY <2>1 DEF ChangesCurrent, Carried
  <2>2. CASE rec'[d] = rec[d] /\ (Announcing(d) => Announcing(d)')
    BY <2>2 DEF ChangesCurrent, Carried, NothingLost
  <2> QED
    BY <2>1, <2>2
<1> QED
  BY <1>1 DEF NothingLost

(* A step that leaves no stream.                                           *)
LEMMA NoStreamLosesNothing ==
  ASSUME changes' = <<>>, stream' \in {"none", "dead"}
  PROVE  NothingLost'
  BY NoWordAtAll DEF NothingLost, ChangesCurrent

LEMMA WatchLosesNothing ==
  ASSUME WatchDiscovery
  PROVE  NothingLost'
<1>1. changes' = <<>> /\ unlisted' = Unlisted /\ rec' = rec
  BY DEF WatchDiscovery, routerVars
<1>2. \A d \in Tuyas : rec'[d] = None \/ d \in unlisted'
  BY <1>1 DEF Unlisted, Devices
<1> QED
  BY <1>1, <1>2, NoWordAtAll DEF NothingLost, ChangesCurrent, Carried

LEMMA ListLosesNothing ==
  ASSUME DInv, ListRecord
  PROVE  NothingLost'
<1>1. StreamTyped /\ ListIsOfRecords /\ NothingLost
  BY DiscoveryTyped DEF DInv, Heeded
<1>2. /\ stream = "listing" /\ stream' \in {"listing", "open"}
      /\ UNCHANGED <<rec, pc, heard, changes, lagged, cache>>
  BY DEF ListRecord, routerVars, coreVars
<1>3. ASSUME NEW d \in Tuyas
      PROVE  ChangesCurrent(d)'
  BY <1>1, <1>2 DEF NothingLost, ChangesCurrent, Announcing
<1>4. ASSUME NEW d \in Tuyas, Carried(d)
      PROVE  Carried(d)'
  <2>1. CASE unlisted = {}
    <3>1. UNCHANGED <<unlisted, initial>>
      BY <2>1 DEF ListRecord
    <3> QED
      BY <1>2, <1>4, <3>1 DEF Carried, Announcing
  <2>2. CASE unlisted # {}
    <3>1. PICK e \in unlisted :
            initial' = Append(initial, rec[e]) /\ unlisted' = unlisted \ {e}
      BY <2>2 DEF ListRecord
    <3>2. rec[e] \in Sightings /\ rec[e].dev = e
      BY <1>1, <3>1 DEF ListIsOfRecords, IsRecordOf
    <3>3. PICK s \in Sightings : s = rec[e]
      BY <3>2
    <3>4. initial \in Seq(Sightings) /\ initial' = Append(initial, s) /\ s.dev = e
      BY <1>1, <3>1, <3>2, <3>3 DEF StreamTyped
    <3>5. CASE d = e
      BY <1>2, <3>3, <3>4, <3>5, WordAppended DEF Carried
    <3>6. CASE d # e
      <4>1. /\ NoWordOn(initial, d) => NoWordOn(initial', d)
            /\ EndsWith(initial, d, rec[d]) => EndsWith(initial', d, rec[d])
        BY <3>4, <3>6, WordAppended
      <4>2. d \in unlisted => d \in unlisted'
        BY <3>1, <3>6
      <4> QED
        BY <1>2, <1>4, <4>1, <4>2 DEF Carried, Announcing
    <3> QED
      BY <3>5, <3>6
  <2> QED
    BY <2>1, <2>2
<1> QED
  BY <1>1, <1>2, <1>3, <1>4 DEF NothingLost

LEMMA SendLosesNothing ==
  ASSUME DiscoveryAssumption, DInv, NEW l \in Loops, Send(l)
  PROVE  NothingLost'
<1>1. RouterTyped /\ StreamTyped /\ ListenersHear /\ ListenersWrote /\ ListIsOfRecords /\ NothingLost
  BY DiscoveryTyped DEF DInv, Heeded
<1>2. UNCHANGED <<rec, stream, unlisted, initial, cache>>
  BY DEF Send, coreVars
<1>3. CASE ~Subscribed
  <2>1. stream' \in {"none", "dead"} /\ changes' = changes
    BY <1>1, <1>2, <1>3 DEF Send, Subscribed, StreamTyped
  <2> QED
    BY <1>1, <1>2, <2>1, NoStreamLosesNothing DEF ListIsOfRecords
<1>4. CASE Subscribed
  <2>1. PICK s \in Sightings : s = heard[l]
    BY <1>1 DEF ListenersHear, Hears, ListenersWrote, Wrote, Send
  <2>2. s.dev \in Tuyas /\ rec[s.dev] = s
    BY <1>1, <2>1 DEF ListenersHear, Hears, ListenersWrote, Wrote, Send
  <2>3. ASSUME NEW d \in Tuyas, d # s.dev, Announcing(d)
        PROVE  Announcing(d)'
    <3>1. PICK k \in Loops : pc[k] = "send" /\ heard[k].dev = d
      BY <2>3 DEF Announcing
    <3>2. k # l
      BY <2>1, <2>3, <3>1
    <3>3. pc'[k] = pc[k] /\ heard'[k] = heard[k]
      BY <1>1, <3>2 DEF Send, RouterTyped
    <3> QED
      BY <3>1, <3>3 DEF Announcing
  <2>4. PICK q \in Seq(Sightings) :
          /\ changes' = Append(q, s)
          /\ \/ q = changes /\ lagged' = lagged
             \/ q = Tail(changes) /\ changes # <<>> /\ lagged' = TRUE
    <3>1. changes \in Seq(Sightings) /\ Capacity \in Nat \ {0}
      BY <1>1 DEF StreamTyped, DiscoveryAssumption
    <3>2. CASE Len(changes) < Capacity
      BY <1>4, <2>1, <3>1, <3>2 DEF Send, Enqueue
    <3>3. CASE ~(Len(changes) < Capacity)
      <4>1. changes # <<>> /\ Tail(changes) \in Seq(Sightings)
        BY <3>1, <3>3
      <4> QED
        BY <1>4, <2>1, <3>3, <4>1 DEF Send, Enqueue
    <3> QED
      BY <3>2, <3>3
  <2>5. ASSUME NEW d \in Tuyas
        PROVE  /\ ChangesCurrent(d)'
               /\ lagged' = FALSE /\ Carried(d) => Carried(d)'
    <3>1. CASE d = s.dev
      <4>1. EndsWith(changes', d, rec'[d]) /\ ~NoWordOn(changes', d)
        BY <1>2, <2>2, <2>4, <3>1, WordAppended
      <4> QED
        BY <4>1 DEF ChangesCurrent, Carried
    <3>2. CASE d # s.dev
      <4>1. /\ NoWordOn(q, d) <=> NoWordOn(changes', d)
            /\ EndsWith(q, d, rec[d]) => EndsWith(changes', d, rec[d])
        BY <2>4, <3>2, WordAppended
      <4>2. /\ NoWordOn(changes, d) => NoWordOn(q, d)
            /\ EndsWith(changes, d, rec[d]) => EndsWith(q, d, rec[d]) \/ NoWordOn(q, d)
        <5>1. CASE q = changes
          BY <5>1
        <5>2. CASE q = Tail(changes) /\ changes # <<>>
          BY <1>1, <5>2, WordTaken DEF StreamTyped
        <5> QED
          BY <2>4, <5>1, <5>2
      <4>3. ChangesCurrent(d)'
        BY <1>1, <1>2, <2>3, <3>2, <4>1, <4>2 DEF NothingLost, ChangesCurrent
      <4>4. ASSUME lagged' = FALSE, Carried(d)
            PROVE  Carried(d)'
        <5>1. q = changes
          BY <2>4, <4>4
        <5> QED
          BY <1>2, <2>3, <3>2, <4>1, <4>4, <5>1 DEF Carried
      <4> QED
        BY <4>3, <4>4
    <3> QED
      BY <3>1, <3>2
  <2>6. lagged' = FALSE => lagged = FALSE
    BY <2>4
  <2> QED
    BY <1>1, <1>2, <2>4, <2>5, <2>6 DEF NothingLost, StreamTyped
<1> QED
  BY <1>3, <1>4

LEMMA ReceiveLosesNothing ==
  ASSUME DInv, Receive
  PROVE  NothingLost'
<1>1. RouterTyped /\ StreamTyped /\ CoreTyped /\ ListIsOfRecords /\ NothingLost
  BY DiscoveryTyped DEF DInv, Heeded
<1>2. /\ stream = "open" /\ unlisted = {}
      /\ UNCHANGED <<rec, pc, heard, stream, unlisted, lagged>>
  BY <1>1 DEF Receive, routerVars, ListIsOfRecords
<1>3. PICK s : s = Head(initial \o changes)
  OBVIOUS
<1>4. s \in Sightings /\ s.dev \in Devices
  <2>1. s \in Sightings
    BY <1>1, <1>3, ReceivedIs DEF StreamTyped, Receive
  <2> QED
    BY <2>1 DEF Sightings
<1>5. cache'[s.dev] = s /\ \A d \in Devices \ {s.dev} : cache'[d] = cache[d]
  <2>1. cache' = [cache EXCEPT ![s.dev] = s]
    BY <1>3 DEF Receive
  <2> QED
    BY <1>1, <1>4, <2>1 DEF CoreTyped
<1>6. \A d \in Tuyas : d \in Devices /\ (Announcing(d) <=> Announcing(d)')
  BY <1>2 DEF Announcing, Devices
<1>7. CASE initial # <<>>
  <2>1. /\ initial \in Seq(Sightings) /\ s = Head(initial)
        /\ initial' = Tail(initial) /\ changes' = changes
    BY <1>1, <1>3, <1>7, ReceivedIs DEF StreamTyped, Receive
  <2>2. ASSUME NEW d \in Tuyas
        PROVE  ChangesCurrent(d)'
    BY <1>1, <1>2, <1>6, <2>1 DEF NothingLost, ChangesCurrent
  <2>3. ASSUME NEW d \in Tuyas, Carried(d)
        PROVE  Carried(d)'
    <3>1. /\ NoWordOn(initial, d) => NoWordOn(initial', d) /\ s.dev # d
          /\ EndsWith(initial, d, rec[d]) =>
               \/ EndsWith(initial', d, rec[d])
               \/ NoWordOn(initial', d) /\ s = rec[d] /\ s.dev = d
      BY <1>7, <2>1, WordTaken
    <3>2. CASE EndsWith(initial, d, rec[d])
      BY <1>2, <1>5, <3>1, <3>2 DEF Carried
    <3>3. CASE NoWordOn(initial, d) /\ cache[d] = rec[d]
      BY <1>2, <1>5, <1>6, <3>1, <3>3 DEF Carried
    <3>4. CASE rec[d] = None \/ Announcing(d) \/ ~NoWordOn(changes, d)
      BY <1>2, <1>6, <2>1, <3>4 DEF Carried
    <3> QED
      BY <1>2, <2>3, <3>2, <3>3, <3>4 DEF Carried
  <2> QED
    BY <1>1, <1>2, <2>2, <2>3 DEF NothingLost
<1>8. CASE initial = <<>>
  <2>1. /\ changes \in Seq(Sightings) /\ changes # <<>> /\ s = Head(changes)
        /\ initial' = initial /\ changes' = Tail(changes)
    BY <1>1, <1>3, <1>8, ReceivedIs DEF StreamTyped, Receive
  <2>2. ASSUME NEW d \in Tuyas
        PROVE  ChangesCurrent(d)' /\ (Carried(d) => Carried(d)')
    <3>1. /\ NoWordOn(changes, d) => NoWordOn(changes', d) /\ s.dev # d
          /\ EndsWith(changes, d, rec[d]) =>
               \/ EndsWith(changes', d, rec[d])
               \/ NoWordOn(changes', d) /\ s = rec[d] /\ s.dev = d
      BY <2>1, WordTaken
    <3>2. NoWordOn(initial', d) /\ ~EndsWith(initial, d, rec[d])
      BY <1>8, <2>1, NoWordAtAll
    <3>3. ChangesCurrent(d)
      BY <1>1 DEF NothingLost
    <3>4. CASE rec[d] = None \/ Announcing(d)
      BY <1>2, <1>6, <3>4 DEF ChangesCurrent, Carried
    <3>5. CASE NoWordOn(changes, d)
      <4>1. cache'[d] = cache[d] /\ NoWordOn(changes', d)
        BY <1>5, <1>6, <3>1, <3>5
      <4> QED
        BY <1>2, <1>6, <3>2, <3>5, <4>1 DEF ChangesCurrent, Carried
    <3>6. CASE EndsWith(changes, d, rec[d])
      <4>1. CASE EndsWith(changes', d, rec[d])
        <5>1. ~NoWordOn(changes', d)
          BY <4>1, WordThere
        <5> QED
          BY <1>2, <4>1, <5>1 DEF ChangesCurrent, Carried
      <4>2. CASE NoWordOn(changes', d) /\ s = rec[d] /\ s.dev = d
        BY <1>2, <1>5, <3>2, <4>2 DEF ChangesCurrent, Carried
      <4> QED
        BY <3>1, <3>6, <4>1, <4>2
    <3> QED
      BY <3>3, <3>4, <3>5, <3>6 DEF ChangesCurrent
  <2> QED
    BY <1>1, <1>2, <2>2 DEF NothingLost
<1> QED
  BY <1>7, <1>8

LEMMA NothingLostNext ==
  ASSUME DiscoveryAssumption, DInv, DiscoveryNext
  PROVE  NothingLost'
<1>1. RouterTyped /\ StreamTyped /\ ListenersHear /\ ListenersWrote /\ ListIsOfRecords /\ NothingLost
  BY DiscoveryTyped DEF DInv, Heeded
<1>2. ASSUME NEW l \in Loops, pc[l] # "send",
             \A k \in Loops \ {l} : pc'[k] = pc[k] /\ heard'[k] = heard[k]
      PROVE  \A d \in Tuyas : Announcing(d) => Announcing(d)'
  BY <1>2 DEF Announcing
<1>3. ASSUME NEW l \in Loops, ResolveMac(l) \/ \E d \in Tuyas : Hear(l, d)
      PROVE  NothingLost'
  <2>1. /\ pc[l] # "send"
        /\ UNCHANGED <<rec, stream, initial, changes, lagged, cache, unlisted>>
    BY <1>3 DEF ResolveMac, Hear, streamVars, coreVars
  <2>2. \A k \in Loops \ {l} : pc'[k] = pc[k] /\ heard'[k] = heard[k]
    BY <1>1, <1>3 DEF ResolveMac, Hear, RouterTyped
  <2> QED
    BY <1>1, <1>2, <2>1, <2>2, QuietStep
<1>4. ASSUME NEW l \in Loops, Upsert(l)
      PROVE  NothingLost'
  <2>1. pc[l] = "upsert" /\ UNCHANGED <<stream, initial, changes, lagged, cache>>
    BY <1>4 DEF Upsert, coreVars
  <2>2. PICK s \in Sightings : s = heard[l] /\ s.dev \in Tuyas
    BY <1>1, <2>1 DEF ListenersHear, Hears, ListenersWrote, Wrote
  <2>3. CASE Changed(s.dev, s)
    <3>1. /\ rec' = [rec EXCEPT ![s.dev] = s] /\ ListMayMeet(s.dev)
          /\ pc' = [pc EXCEPT ![l] = "send"] /\ heard' = heard
      BY <1>4, <2>2, <2>3 DEF Upsert
    <3>2. unlisted \subseteq unlisted'
      BY <3>1, ListMeets
    <3>3. Announcing(s.dev)'
      BY <1>1, <2>2, <3>1 DEF Announcing, RouterTyped
    <3>4. \A d \in Tuyas : d # s.dev => rec'[d] = rec[d]
      BY <1>1, <3>1 DEF RouterTyped, Devices
    <3>5. \A d \in Tuyas : Announcing(d) => Announcing(d)'
      BY <1>1, <1>2, <2>1, <3>1 DEF RouterTyped
    <3> QED
      BY <1>1, <2>1, <3>2, <3>3, <3>4, <3>5, QuietStep
  <2>4. CASE ~Changed(s.dev, s)
    <3>1. /\ rec' = rec /\ unlisted' = unlisted
          /\ pc' = [pc EXCEPT ![l] = "recv"] /\ heard' = [heard EXCEPT ![l] = None]
      BY <1>4, <2>2, <2>4 DEF Upsert
    <3>2. \A d \in Tuyas : Announcing(d) => Announcing(d)'
      BY <1>1, <1>2, <2>1, <3>1 DEF RouterTyped
    <3> QED
      BY <1>1, <2>1, <3>1, <3>2, QuietStep
  <2> QED
    BY <2>3, <2>4
<1>5. ASSUME NEW d \in Managed, RegisterDevice(d)
      PROVE  NothingLost'
  <2>1. UNCHANGED <<pc, heard, stream, initial, changes, lagged, cache>>
    BY <1>5 DEF RegisterDevice, coreVars
  <2>2. unlisted \subseteq unlisted'
    BY <1>5, ListMeets DEF RegisterDevice
  <2>3. \A e \in Tuyas : rec'[e] = rec[e] /\ (Announcing(e) => Announcing(e)')
    <3>1. PICK s : rec' = [rec EXCEPT ![d] = s]
      BY <1>5 DEF RegisterDevice
    <3> QED
      BY <1>1, <2>1, <3>1 DEF RouterTyped, DiscoveryAssumption, Devices, Announcing
  <2> QED
    BY <1>1, <2>1, <2>2, <2>3, QuietStep
<1>6. ASSUME NEW d \in Tuyas, Move(d)
      PROVE  NothingLost'
  <2>1. UNCHANGED <<rec, pc, heard, stream, initial, changes, lagged, cache, unlisted>>
    BY <1>6 DEF Move, routerVars, streamVars, coreVars
  <2>2. \A e \in Tuyas : Announcing(e) => Announcing(e)'
    BY <2>1 DEF Announcing
  <2> QED
    BY <1>1, <2>1, <2>2, QuietStep
<1>7. CASE Faulty
  <2>1. \A s \in {"none", "dead"} : StreamTo(s) => NothingLost'
    BY NoStreamLosesNothing DEF StreamTo
  <2>2. CASE RouterRestarts /\ stream = "dead"
    <3>1. changes' = changes /\ stream' = stream
      BY <2>2 DEF RouterRestarts, streamVars
    <3> QED
      BY <1>1, <2>2, <3>1, NoStreamLosesNothing DEF ListIsOfRecords
  <2> QED
    BY <1>7, <2>1, <2>2 DEF Faulty, StreamBreaks, StreamDies, RouterRestarts, CoreRestarts
<1> QED
  BY <1>3, <1>4, <1>5, <1>6, <1>7, SendLosesNothing, WatchLosesNothing, ListLosesNothing,
     ReceiveLosesNothing
  DEF DiscoveryNext, Router, Core

-----------------------------------------------------------------------------
(* The theorems.                                                           *)

LEMMA DiscoveryBegins ==
  ASSUME DiscoveryAssumption, DiscoveryInit
  PROVE  Heeded /\ DInv
<1>1. DiscoveryTypeOK
  <2>1. 0 \in Addresses
    BY DEF DiscoveryAssumption, Addresses
  <2>2. RouterTyped
    BY <2>1 DEF DiscoveryInit, RouterTyped, Devices
  <2>3. StreamTyped
    BY NothingQueued DEF DiscoveryInit, StreamTyped
  <2>4. CoreTyped
    <3>1. PICK c : c = [ip |-> 0, version |-> None]
      OBVIOUS
    <3>2. c \in [ip : Addresses, version : Firmwares \cup {None}]
      BY <2>1, <3>1
    <3>3. config = [d \in Tuyas |-> c]
      BY <3>1 DEF DiscoveryInit
    <3> QED
      BY <3>2, <3>3 DEF DiscoveryInit, CoreTyped
  <2>5. CountsTyped
    BY DEF DiscoveryInit, CountsTyped, DiscoveryAssumption
  <2> QED
    BY <2>2, <2>3, <2>4, <2>5, DiscoveryTyped
<1>2. ListenersHear /\ ListenersWrote
  BY DEF DiscoveryInit, ListenersHear, Hears, ListenersWrote, Wrote
<1>3. RecordsNamed /\ ListIsOfRecords
  BY DEF DiscoveryInit, RecordsNamed, ListIsOfRecords
<1>4. NothingLost
  BY DEF DiscoveryInit, NothingLost, ChangesCurrent, Devices
<1> QED
  BY <1>1, <1>2, <1>3, <1>4 DEF DInv, Heeded

LEMMA DiscoveryStill ==
  ASSUME UNCHANGED discoveryVars
  PROVE  /\ UNCHANGED <<where, firmware, rec, pc, heard>>
         /\ UNCHANGED <<stream, unlisted, initial, changes, lagged>>
         /\ UNCHANGED <<cache, hints, config, unresolved, faults, silent>>
  BY DEF discoveryVars, routerVars, streamVars, coreVars, bounds

LEMMA HeededStep ==
  ASSUME DiscoveryAssumption, Heeded, [DiscoveryNext]_discoveryVars
  PROVE  Heeded'
<1>1. CASE DiscoveryNext
  BY <1>1, DiscoveryNextTyped, ListenersHearNext, RecordsNamedNext, ListIsOfRecordsNext
  DEF Heeded
<1>2. CASE UNCHANGED discoveryVars
  <2>1. DiscoveryTypeOK'
    BY <1>2, DiscoveryStill DEF Heeded, DiscoveryTypeOK
  <2>2. ListenersHear' /\ RecordsNamed' /\ ListIsOfRecords'
    BY <1>2, DiscoveryStill
    DEF Heeded, ListenersHear, Hears, RecordsNamed, ListIsOfRecords, IsRecordOf
  <2> QED
    BY <2>1, <2>2 DEF Heeded
<1> QED
  BY <1>1, <1>2

LEMMA DiscoveryStep ==
  ASSUME DiscoveryAssumption, OneListenerEach, DInv, [DiscoveryNext]_discoveryVars
  PROVE  DInv'
<1>1. Heeded'
  BY HeededStep DEF DInv
<1>2. CASE DiscoveryNext
  BY <1>1, <1>2, ListenersWroteNext, NothingLostNext DEF DInv
<1>3. CASE UNCHANGED discoveryVars
  <2>1. ListenersWrote' /\ \A d \in Tuyas : Announcing(d) => Announcing(d)'
    BY <1>3, DiscoveryStill DEF DInv, ListenersWrote, Wrote, Announcing
  <2>2. NothingLost'
    BY <1>3, <2>1, DiscoveryStill, QuietStep DEF DInv
  <2> QED
    BY <1>1, <2>1, <2>2 DEF DInv
<1> QED
  BY <1>2, <1>3

LEMMA DiscoveryInvariant ==
  ASSUME DiscoveryAssumption, OneListenerEach
  PROVE  DiscoverySpec => []DInv
  BY DiscoveryBegins, DiscoveryStep, PTL DEF DiscoverySpec

(* The variables of the router's records, its stream and the core's copies *)
(* keep their types, however many listeners hear a device.                 *)
THEOREM DiscoveryTypeCorrect ==
  ASSUME DiscoveryAssumption
  PROVE  DiscoverySpec => []DiscoveryTypeOK
<1>1. Heeded => DiscoveryTypeOK
  BY DEF Heeded
<1> QED
  BY <1>1, DiscoveryBegins, HeededStep, PTL DEF DiscoverySpec

LEMMA LastWordHolds ==
  ASSUME DInv
  PROVE  NothingMissed
<1> SUFFICES ASSUME stream = "open", ~lagged, NEW d \in Tuyas,
                    rec[d] # None, ~Announcing(d)
             PROVE  LastWordIs(d, rec[d])
  BY DEF NothingMissed
<1>1. /\ initial \in Seq(Sightings) /\ changes \in Seq(Sightings)
      /\ unlisted = {} /\ ChangesCurrent(d) /\ Carried(d)
  BY DEF DInv, Heeded, DiscoveryTypeOK, ListIsOfRecords, NothingLost
<1>2. CASE EndsWith(changes, d, rec[d])
  BY <1>1, <1>2, WordJoined DEF LastWordIs
<1>3. CASE NoWordOn(changes, d)
  BY <1>1, <1>3, WordJoined DEF LastWordIs, Carried
<1> QED
  BY <1>1, <1>2, <1>3 DEF ChangesCurrent

(* An open stream that has not lagged ends at the router's records, for    *)
(* any number of devices, listeners and faults and any capacity of the     *)
(* channel, as long as no device is heard by two listeners.                *)
THEOREM NothingIsMissed ==
  ASSUME DiscoveryAssumption, OneListenerEach
  PROVE  DiscoverySpec => []NothingMissed
  BY LastWordHolds, DiscoveryInvariant, PTL
=============================================================================
