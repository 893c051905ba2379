---------------------------- MODULE DeviceAttempt ----------------------------
(***************************************************************************)
(* What one device authorization promises, whatever the number of poll     *)
(* requests that drive it, the processes that die under them and the       *)
(* moment it is cancelled: its one-time code is exchanged at most once, it *)
(* has one outcome, only an open attempt whose code was exchanged replaces *)
(* the channel's credential, and a cancelled one never does.               *)
(***************************************************************************)
EXTENDS Naturals

VARIABLES outcome,    \* how the attempt ended, "open" until then
          exchanges,  \* times the one-time code was sent to upstream
          replaced    \* whether the channel's credential came from it

vars == <<outcome, exchanges, replaced>>

Init == outcome = "open" /\ exchanges = 0 /\ replaced = FALSE

\* The code is sent, at a time when the attempt may just have been cancelled.
Exchange == /\ exchanges = 0
            /\ exchanges' = 1
            /\ UNCHANGED <<outcome, replaced>>

Save == /\ outcome = "open"
        /\ exchanges = 1
        /\ outcome' = "saved"
        /\ replaced' = TRUE
        /\ UNCHANGED exchanges

\* Cancelled by the user, failed, or its exchange is in doubt.
End == /\ outcome = "open"
       /\ outcome' \in {"cancelled", "failed", "uncertain"}
       /\ UNCHANGED <<exchanges, replaced>>

\* Its row is deleted: a newer attempt was started, or its time is over.
Drop == /\ outcome' = "gone"
        /\ UNCHANGED <<exchanges, replaced>>

Next == Exchange \/ Save \/ End \/ Drop

Spec == Init /\ [][Next]_vars
=============================================================================
