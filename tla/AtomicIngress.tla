---------------------------- MODULE AtomicIngress ----------------------------
(***************************************************************************)
(* What one ingress transfer of keysas-io promises to keysas-in, which     *)
(* watches SAS_IN: while SAS_IN/.lock is present files appear in SAS_IN,   *)
(* each one in a single step and whole, under its sanitised name; outside *)
(* the lock nothing appears; and the transfer ends.  A transfer that ends *)
(* by a panic may leave the lock behind.  IngressCopy implements it.       *)
(***************************************************************************)
CONSTANTS Files, Names, Name, None

VARIABLES
    published, \* [Names -> Files \cup {None}]: whose content SAS_IN/<name> holds
    busy,      \* SAS_IN/.lock is present
    ended      \* the transfer has returned or panicked

vars == <<published, busy, ended>>

Init ==
    /\ published = [n \in Names |-> None]
    /\ busy = FALSE
    /\ ended = FALSE

Begin ==
    /\ ~ended /\ ~busy
    /\ busy' = TRUE
    /\ UNCHANGED <<published, ended>>

\* File f appears whole in SAS_IN, replacing a file of the same name.
Publish(f) ==
    /\ busy /\ ~ended
    /\ published' = [published EXCEPT ![Name[f]] = f]
    /\ UNCHANGED <<busy, ended>>

End ==
    /\ ~ended
    /\ ended' = TRUE
    /\ busy' = FALSE
    /\ UNCHANGED published

\* The worker panics: the transfer ends and the lock stays.
Abort ==
    /\ ~ended
    /\ ended' = TRUE
    /\ UNCHANGED <<published, busy>>

Next == Begin \/ End \/ Abort \/ \E f \in Files : Publish(f)

Spec == Init /\ [][Next]_vars /\ WF_vars(End \/ Abort)
=============================================================================
