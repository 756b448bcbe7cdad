--------------------------- MODULE AdmissionLatch ---------------------------
(***************************************************************************)
(* What the safety signals promise (docs/research/SAFETY_SIGNALS_PHASE_6): *)
(* work is admitted only while the monitor vouches for it and no alert is  *)
(* open; a lapse of the monitor is undone by a fresh operator decision     *)
(* only; a stop is never undone.  How health, leases, boots, databases and *)
(* crashes bring that about is the business of SignalGate.                 *)
(***************************************************************************)

CONSTANTS Processes, Alerts, Nonces

VARIABLES
    mode,      \* "open", "paused" or "stopped"
    holds,     \* the alerts that await resolution
    spent,     \* the nonces of the operator decisions that were used
    working    \* the processes past admission

latchVars == <<mode, holds, spent, working>>

Init ==
    /\ mode = "paused"
    /\ holds = {}
    /\ spent = {}
    /\ working = {}

Admit(p) ==
    /\ mode = "open"
    /\ holds = {}
    /\ working' = working \cup {p}
    /\ UNCHANGED <<mode, holds, spent>>

\* Processes finish, or die, one or all together; a lapse may come with it.
Leave ==
    /\ working' \subseteq working
    /\ mode' \in {mode, IF mode = "open" THEN "paused" ELSE mode}
    /\ UNCHANGED <<holds, spent>>

Reopen(n) ==
    /\ mode = "paused"
    /\ holds = {}
    /\ n \notin spent
    /\ mode' = "open"
    /\ spent' = spent \cup {n}
    /\ UNCHANGED <<holds, working>>

Hold(e) ==
    /\ holds' = holds \cup {e}
    /\ UNCHANGED <<mode, spent, working>>

Release(e) ==
    /\ holds' = holds \ {e}
    /\ UNCHANGED <<mode, spent, working>>

\* A stop for an alert and the end of that alert's hold are one step.
Stop ==
    /\ mode' = "stopped"
    /\ \E e \in Alerts : holds' \in {holds, holds \ {e}}
    /\ UNCHANGED <<spent, working>>

Next ==
    \/ \E p \in Processes : Admit(p)
    \/ \E n \in Nonces : Reopen(n)
    \/ \E e \in Alerts : Hold(e) \/ Release(e)
    \/ Leave
    \/ Stop

Spec == Init /\ [][Next]_latchVars

=============================================================================
