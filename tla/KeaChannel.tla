----------------------------- MODULE KeaChannel -----------------------------
(***************************************************************************)
(* The reservation command channel between synaptex-router and the Kea     *)
(* hook: KeaClient (dhcp.rs) and its callers, the listener that takes the  *)
(* hook's connection (kea.rs), the start-up sync (main.rs), and the hook's *)
(* command thread with its in-memory hosts (synaptex_hook.cc).             *)
(*                                                                         *)
(* One command is outstanding at a time: send() holds the CmdState mutex   *)
(* from its write to its read.  An RPC's future may be dropped in between  *)
(* (its client went away), and either process may restart at any moment.   *)
(*                                                                         *)
(* A command is its kind and its MAC: "own" adds the reservation of the    *)
(* managed address, "other" one of an operator's address, "none" deletes.  *)
(* A reply carries the command it answers, which the code does not have.   *)
(* What a caller does with the result (a log line, an RPC status) is left  *)
(* out.  Creating the record, which precedes a push, is RouterPool's.      *)
(***************************************************************************)
EXTENDS Naturals, Sequences, FiniteSets

CONSTANTS
  Listeners,    \* tasks running listen_loop
  Rpcs,         \* tasks serving register_device and the DHCP RPCs
  Sync,         \* the start-up task running sync_from_db
  Macs,
  BadMacs,      \* parse_mac_bytes throws on them
  OperatorMacs, \* the MACs the DHCP RPCs are called with
  Conns,        \* connections of the command thread, reused when closed
  NoConn,       \* no connection
  NoCommand,    \* the command of a caller that makes no call
  Nobody,       \* holds the mutex when it is free
  MaxAbandoned, \* bound: RPC futures dropped before they ended
  MaxKea,       \* bound: restarts of Kea
  MaxRouter     \* bound: restarts of synaptex-router

Callers == Listeners \cup Rpcs \cup {Sync}
Kinds == {"own", "other", "none"}
Commands == [kind : Kinds, mac : Macs]
Replies == [to : Commands, ok : BOOLEAN]
Ends == Conns \cup {NoConn}

ASSUME KeaChannelAssumption ==
  /\ BadMacs \subseteq Macs /\ OperatorMacs \subseteq Macs
  /\ Sync \notin Listeners \cup Rpcs /\ Listeners \cap Rpcs = {}
  /\ NoConn \notin Conns /\ NoCommand \notin Commands /\ Nobody \notin Callers
  /\ MaxAbandoned \in Nat /\ MaxKea \in Nat /\ MaxRouter \in Nat

VARIABLES
  stored,     \* MACs with a record and a managed address in the router's db
  hosts,      \* by_mac_ in the hook: MAC -> reservation
  cmdState,   \* CmdState: the connection KeaClient holds
  accepted,   \* connections opened, not yet put into CmdState
  hook,       \* the connection the hook's command thread is on
  toHook,     \* toHook[n]: command lines on their way
  toRouter,   \* toRouter[n]: reply lines on their way
  cmd,        \* cmd[c]: the command of caller c's call in progress
  holder,     \* the caller that holds the CmdState mutex and reads
  ready,      \* the Notify holds a permit
  todo,       \* records sync_from_db has listed and not pushed yet
  awaits,     \* the start-up task still awaits the notification
  abandoned,  \* abandoned[n]: calls dropped on n with their reply unread
  lost        \* restarts and abandoned calls so far
vars == <<stored, hosts, cmdState, accepted, hook, toHook, toRouter, cmd,
          holder, ready, todo, awaits, abandoned, lost>>
channelVars == <<cmdState, accepted, hook, toHook, toRouter, abandoned>>
syncVars == <<ready, todo, awaits>>

(* The types; the mutex is held during calls only, on a connection.        *)
TypeOK ==
  /\ stored \subseteq Macs
  /\ hosts \in [Macs -> Kinds]
  /\ cmdState \in Ends /\ accepted \subseteq Conns /\ hook \in Ends
  /\ toHook \in [Ends -> Seq(Commands)] /\ toRouter \in [Ends -> Seq(Replies)]
  /\ cmd \in [Callers -> Commands \cup {NoCommand}]
  /\ holder \in Callers \cup {Nobody}
  /\ holder # Nobody => cmd[holder] # NoCommand /\ cmdState # NoConn
  /\ ready \in BOOLEAN /\ awaits \in BOOLEAN /\ todo \subseteq Macs
  /\ abandoned \in [Ends -> Nat]
  /\ lost \in [kea : 0..MaxKea, router : 0..MaxRouter, calls : 0..MaxAbandoned]

Init ==
  /\ stored \in SUBSET (Macs \ BadMacs)
  /\ hosts = [m \in Macs |-> "none"]
  /\ cmdState = NoConn /\ accepted = {} /\ hook = NoConn
  /\ toHook = [n \in Ends |-> <<>>] /\ toRouter = [n \in Ends |-> <<>>]
  /\ cmd = [c \in Callers |-> NoCommand] /\ holder = Nobody
  /\ ready = FALSE /\ todo = {} /\ awaits = TRUE
  /\ abandoned = [n \in Ends |-> 0]
  /\ lost = [kea |-> 0, router |-> 0, calls |-> 0]

(* The mutex is held from a command's write to the end of its read.        *)
Free == holder = Nobody

(* The router keeps its end of n open.                                     *)
Kept(n) == n \in accepted \cup {cmdState}

(* No end of n is open: n stands for a connection yet to be made.          *)
Unused(n) == n # hook /\ ~Kept(n)

-----------------------------------------------------------------------------
(* The callers.                                                            *)

Ask(c, kind, m) ==
  /\ cmd[c] = NoCommand
  /\ UNCHANGED holder
  /\ cmd' = [cmd EXCEPT ![c] = [kind |-> kind, mac |-> m]]

(* Mutant of End: the mutex is not released.                               *)
EndOnly(c) ==
  /\ cmd' = [cmd EXCEPT ![c] = NoCommand]
  /\ UNCHANGED holder

(* The call of c ends; the mutex is free.                                  *)
End(c) ==
  /\ cmd' = [cmd EXCEPT ![c] = NoCommand]
  /\ holder' = IF holder = c THEN Nobody ELSE holder

(* listen_loop: a changed record has been written; its MAC came from ARP.  *)
Discover(c, m) ==
  /\ c \in Listeners /\ m \notin BadMacs
  /\ Ask(c, "own", m)
  /\ stored' = stored \cup {m}
  /\ UNCHANGED <<hosts, channelVars, syncVars, lost>>

(* register_device writes the record, then pushes.                         *)
Register(c, m) ==
  /\ c \in Rpcs
  /\ Ask(c, "own", m)
  /\ stored' = stored \cup {m}
  /\ UNCHANGED <<hosts, channelVars, syncVars, lost>>

(* add_dhcp_reservation and remove_dhcp_reservation write no record.       *)
Operate(c, kind, m) ==
  /\ c \in Rpcs /\ m \in OperatorMacs /\ kind \in {"other", "none"}
  /\ Ask(c, kind, m)
  /\ UNCHANGED <<stored, hosts, channelVars, syncVars, lost>>

(* Mutant of SyncLists: it does not wait for the channel.                  *)
SyncEagerly ==
  /\ awaits
  /\ awaits' = FALSE /\ todo' = stored
  /\ UNCHANGED <<stored, hosts, channelVars, cmd, holder, ready, lost>>

(* sync_from_db lists the records once the channel has been announced.     *)
SyncLists ==
  /\ awaits /\ ready
  /\ awaits' = FALSE /\ ready' = FALSE /\ todo' = stored
  /\ UNCHANGED <<stored, hosts, channelVars, cmd, holder, lost>>

SyncNext(m) ==
  /\ m \in todo
  /\ Ask(Sync, "own", m)
  /\ todo' = todo \ {m}
  /\ UNCHANGED <<stored, hosts, channelVars, ready, awaits, lost>>

(* send() up to its read.  A missing channel fails the call, and so does a *)
(* write to a connection the hook has closed, which is given up.           *)
SendFails(c) ==
  /\ cmd[c] # NoCommand /\ Free
  /\ cmdState = NoConn \/ cmdState # hook
  /\ cmdState' = NoConn
  /\ toRouter' = [toRouter EXCEPT ![cmdState] = <<>>]
  /\ End(c)
  /\ UNCHANGED <<stored, hosts, accepted, hook, toHook, syncVars, abandoned, lost>>

(* Mutant of Write: the mutex is not taken before the write.               *)
WriteUnlocked(c) ==
  /\ cmd[c] # NoCommand /\ holder # c
  /\ cmdState # NoConn /\ cmdState = hook
  /\ toHook' = [toHook EXCEPT ![cmdState] = Append(@, cmd[c])]
  /\ holder' = c
  /\ UNCHANGED <<stored, hosts, cmdState, accepted, hook, toRouter, cmd, syncVars,
                 abandoned, lost>>

Write(c) ==
  /\ cmd[c] # NoCommand /\ Free
  /\ cmdState # NoConn /\ cmdState = hook
  /\ toHook' = [toHook EXCEPT ![cmdState] = Append(@, cmd[c])]
  /\ holder' = c
  /\ UNCHANGED <<stored, hosts, cmdState, accepted, hook, toRouter, cmd, syncVars,
                 abandoned, lost>>

(* read_line takes the next line, whatever command it answers.             *)
Read(c) ==
  /\ holder = c /\ toRouter[cmdState] # <<>>
  /\ toRouter' = [toRouter EXCEPT ![cmdState] = Tail(@)]
  /\ End(c)
  /\ UNCHANGED <<stored, hosts, cmdState, accepted, hook, toHook, syncVars, abandoned,
                 lost>>

ReadFails(c) ==
  /\ holder = c /\ toRouter[cmdState] = <<>> /\ cmdState # hook
  /\ cmdState' = NoConn
  /\ End(c)
  /\ UNCHANGED <<stored, hosts, accepted, hook, toHook, toRouter, syncVars,
                 abandoned, lost>>

(* The client of an RPC is gone and its future is dropped: waiting for the *)
(* mutex, or reading, which releases the mutex with the reply still due.   *)
Abandon(c) ==
  /\ c \in Rpcs /\ cmd[c] # NoCommand /\ lost.calls < MaxAbandoned
  /\ lost' = [lost EXCEPT !.calls = @ + 1]
  /\ abandoned' = IF holder = c THEN [abandoned EXCEPT ![cmdState] = @ + 1]
                                     ELSE abandoned
  /\ End(c)
  /\ UNCHANGED <<stored, hosts, cmdState, accepted, hook, toHook, toRouter, syncVars>>

-----------------------------------------------------------------------------
(* Connections.                                                            *)

(* The command thread connects and announces itself.                       *)
Connect ==
  /\ hook = NoConn
  /\ \E n \in Conns : Unused(n)
  /\ LET n == CHOOSE k \in Conns : Unused(k) IN
       /\ hook' = n
       /\ accepted' = accepted \cup {n}
       /\ toHook' = [toHook EXCEPT ![n] = <<>>]
       /\ toRouter' = [toRouter EXCEPT ![n] = <<>>]
       /\ abandoned' = [abandoned EXCEPT ![n] = 0]
  /\ UNCHANGED <<stored, hosts, cmdState, cmd, holder, syncVars, lost>>

(* Mutant of Announce: the mutex is not awaited.                           *)
AnnounceAtOnce(n) ==
  /\ n \in accepted
  /\ accepted' = accepted \ {n}
  /\ cmdState' = n
  /\ toRouter' = [toRouter EXCEPT ![cmdState] = <<>>]
  /\ ready' = TRUE
  /\ UNCHANGED <<stored, hosts, hook, toHook, cmd, holder, todo, awaits, abandoned, lost>>

(* Mutant of Announce: a connection that is there already is kept.         *)
AnnounceFirst(n) ==
  /\ n \in accepted /\ Free
  /\ accepted' = accepted \ {n}
  /\ cmdState' = IF cmdState = NoConn THEN n ELSE cmdState
  /\ ready' = TRUE
  /\ UNCHANGED <<stored, hosts, hook, toHook, toRouter, cmd, holder, todo, awaits,
                 abandoned, lost>>

(* handle_connection, in its own task: takes the mutex, replaces whatever  *)
(* connection was there and notifies the start-up task.                    *)
Announce(n) ==
  /\ n \in accepted /\ Free
  /\ accepted' = accepted \ {n}
  /\ cmdState' = n
  /\ toRouter' = [toRouter EXCEPT ![cmdState] = <<>>]
  /\ ready' = TRUE
  /\ UNCHANGED <<stored, hosts, hook, toHook, cmd, holder, todo, awaits, abandoned, lost>>

(* cmd_channel_loop sees the end of the stream once it has taken every     *)
(* command that was written, and closes its end.                           *)
HangUp ==
  /\ hook # NoConn /\ toHook[hook] = <<>> /\ ~Kept(hook)
  /\ hook' = NoConn
  /\ UNCHANGED <<stored, hosts, cmdState, accepted, toHook, toRouter, cmd, holder,
                 syncVars, abandoned, lost>>

(* Mutant of Apply: a refused command gets no reply.                       *)
ApplySilently ==
  /\ hook # NoConn /\ toHook[hook] # <<>>
  /\ LET x == Head(toHook[hook])
         ok == x.mac \notin BadMacs
     IN /\ hosts' = IF ok THEN [hosts EXCEPT ![x.mac] = x.kind] ELSE hosts
        /\ toRouter' = IF Kept(hook) /\ ok
             THEN [toRouter EXCEPT ![hook] = Append(@, [to |-> x, ok |-> ok])]
             ELSE toRouter
  /\ toHook' = [toHook EXCEPT ![hook] = Tail(@)]
  /\ UNCHANGED <<stored, cmdState, accepted, hook, cmd, holder, syncVars, abandoned, lost>>

(* dispatch_cmd: one command, one reply line.                              *)
Apply ==
  /\ hook # NoConn /\ toHook[hook] # <<>>
  /\ LET x == Head(toHook[hook])
         ok == x.mac \notin BadMacs
     IN /\ hosts' = IF ok THEN [hosts EXCEPT ![x.mac] = x.kind] ELSE hosts
        /\ toRouter' = IF Kept(hook)
             THEN [toRouter EXCEPT ![hook] = Append(@, [to |-> x, ok |-> ok])]
             ELSE toRouter
  /\ toHook' = [toHook EXCEPT ![hook] = Tail(@)]
  /\ UNCHANGED <<stored, cmdState, accepted, hook, cmd, holder, syncVars, abandoned, lost>>

(* Kea stops: the hosts were in its memory only.                           *)
KeaRestart ==
  /\ lost.kea < MaxKea
  /\ lost' = [lost EXCEPT !.kea = @ + 1]
  /\ hosts' = [m \in Macs |-> "none"]
  /\ toHook' = [toHook EXCEPT ![hook] = <<>>]
  /\ hook' = NoConn
  /\ UNCHANGED <<stored, cmdState, accepted, toRouter, cmd, holder, syncVars, abandoned>>

(* synaptex-router stops: its tasks and its ends of the connections go; it *)
(* starts again with a new start-up task.                                  *)
RouterRestart ==
  /\ lost.router < MaxRouter
  /\ lost' = [lost EXCEPT !.router = @ + 1]
  /\ cmdState' = NoConn /\ accepted' = {}
  /\ toRouter' = [n \in Ends |-> <<>>]
  /\ cmd' = [c \in Callers |-> NoCommand] /\ holder' = Nobody
  /\ ready' = FALSE /\ todo' = {} /\ awaits' = TRUE
  /\ UNCHANGED <<stored, hosts, hook, toHook, abandoned>>

Next ==
  \/ \E c \in Callers, m \in Macs : Discover(c, m) \/ Register(c, m)
  \/ \E c \in Callers, k \in Kinds, m \in Macs : Operate(c, k, m)
  \/ SyncLists \/ \E m \in Macs : SyncNext(m)
  \/ \E c \in Callers : SendFails(c) \/ Write(c) \/ Read(c) \/ ReadFails(c) \/ Abandon(c)
  \/ Connect \/ HangUp \/ Apply
  \/ \E n \in Conns : Announce(n)
  \/ KeaRestart \/ RouterRestart

Spec == Init /\ [][Next]_vars

(* Tokio's mutex is fair, so a task that waits for it again and again      *)
(* becomes free gets it; tasks and threads that can go on do.              *)
Fairness ==
  /\ \A c \in Callers : /\ SF_vars(SendFails(c) \/ Write(c))
                        /\ WF_vars(Read(c) \/ ReadFails(c))
  /\ \A n \in Conns : SF_vars(Announce(n))
  /\ WF_vars(Connect) /\ WF_vars(HangUp) /\ WF_vars(Apply)
  /\ WF_vars(SyncLists) /\ WF_vars(\E m \in Macs : SyncNext(m))

FairSpec == Spec /\ Fairness

-----------------------------------------------------------------------------
(* Properties.                                                             *)

(* The connection callers use and the hook is on.                          *)
Shared == cmdState # NoConn /\ cmdState = hook

CallsInProgress == IF Free THEN 0 ELSE 1

(* On a connection both ends are on, the commands and replies under way    *)
(* are those of the call in progress and of the abandoned ones: an         *)
(* abandoned call shifts every later answer, for as long as the connection *)
(* lasts.                                                                  *)
AbandonedCallsLag ==
  Shared => Len(toHook[hook]) + Len(toRouter[hook]) = abandoned[hook] + CallsInProgress

(* On a connection without abandoned calls, the line send() reads is the   *)
(* answer to its own command, whatever restarts and reconnections there    *)
(* were, and if both ends are still on it and the answer is ok the         *)
(* reservation is in force.                                                *)
AnswersInForce ==
  \A c \in Callers :
    (holder = c /\ abandoned[cmdState] = 0 /\ toRouter[cmdState] # <<>>) =>
      LET r == Head(toRouter[cmdState]) IN
        /\ r.to = cmd[c]
        /\ r.ok /\ Shared => hosts[r.to.mac] = r.to.kind

(* Every call gets its own answer.  Not so after an abandoned one.         *)
AnswersAreOwn ==
  \A c \in Callers :
    holder = c /\ toRouter[cmdState] # <<>> => Head(toRouter[cmdState]).to = cmd[c]

(* A call ends: no reconnection, restart or abandoned call leaves a task   *)
(* holding the mutex for ever.                                             *)
CallsEnd == \A c \in Callers : cmd[c] # NoCommand ~> cmd[c] = NoCommand

(* Once nothing restarts any more, the router ends up on the connection    *)
(* the hook is on, even if a dead one was announced after the live one.    *)
ChannelHeals == <>[]Shared

(* As long as Kea has not restarted and no call was abandoned, the devices *)
(* with a managed address get their reservations, however the router       *)
(* restarts: a push made before the channel is there is made up for by the *)
(* start-up sync.                                                          *)
StoredAreReserved ==
  [](lost.kea = 0 /\ lost.calls = 0) =>
    <>[](\A m \in stored \ (BadMacs \cup OperatorMacs) : hosts[m] = "own")

(* sync_from_db's promise without that condition: a restart of Kea empties *)
(* its hosts, and nothing pushes them again.                               *)
ReservationsReturn ==
  <>[](\A m \in stored \ (BadMacs \cup OperatorMacs) : hosts[m] = "own")
=============================================================================
