-------------------------- MODULE HandleLifecycle --------------------------
(***************************************************************************)
(* What the native bridge promises of one libpcap structure: it is opened  *)
(* at most once, threads enter libpcap with it only while it is open, and  *)
(* it is closed once, by a thread that is then alone inside.               *)
(***************************************************************************)
CONSTANTS Threads, Handles

VARIABLES status,   \* status[h] \in {"none", "open", "closed"}
          inside    \* inside[h]: the threads inside libpcap with h

Init == /\ status = [h \in Handles |-> "none"]
        /\ inside = [h \in Handles |-> {}]

Open(h) == /\ status[h] = "none"
           /\ status' = [status EXCEPT ![h] = "open"]
           /\ UNCHANGED inside

(* An object that never had a structure is handed out closed. *)
OpenClosed(h) == /\ status[h] = "none"
                 /\ status' = [status EXCEPT ![h] = "closed"]
                 /\ UNCHANGED inside

Enter(t, h) == /\ status[h] = "open" /\ t \notin inside[h]
               /\ inside' = [inside EXCEPT ![h] = @ \cup {t}]
               /\ UNCHANGED status

Leave(t, h) == /\ t \in inside[h]
               /\ inside' = [inside EXCEPT ![h] = @ \ {t}]
               /\ UNCHANGED status

Close(t, h) == /\ status[h] = "open" /\ inside[h] = {t}
               /\ status' = [status EXCEPT ![h] = "closed"]
               /\ inside' = [inside EXCEPT ![h] = {}]

Next == \E h \in Handles : \/ Open(h) \/ OpenClosed(h)
                           \/ \E t \in Threads : Enter(t, h) \/ Leave(t, h) \/ Close(t, h)

Spec == Init /\ [][Next]_<<status, inside>>
=============================================================================
