----------------------------- MODULE MCRegistry -----------------------------
(* Instances of Registry for TLC: two devices, the tasks that call it, and *)
(* what each may do.                                                       *)
EXTENDS Registry

CONSTANTS d1, d2, r1, r2, r3

OneShard == [d \in Devices |-> CHOOSE s \in Shards : TRUE]

(* One task registers in every way there is, another deregisters, commands *)
(* and polls, a third commands.                                            *)
OneRegistrar ==
  [r \in Requests |-> CASE r = r1 -> {"unregister", "patch", "add", "sync"}
                       [] r = r2 -> Calls \cup {"unregister"}
                       [] OTHER -> {"command"}]

(* Two tasks build plugins without looking, one of them also deregisters.  *)
Reregister == [r \in Requests |-> {"add", "unregister"}]
=============================================================================
