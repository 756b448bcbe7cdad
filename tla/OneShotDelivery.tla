--------------------------- MODULE OneShotDelivery ---------------------------
(***************************************************************************)
(* What a gateway in front of an unreliable receiver promises: one exact   *)
(* action is delivered at most once, only if it was reserved while the     *)
(* gateway was live, and only as long as its outcome is unsettled.  An     *)
(* outcome may stay unknown for ever; a settled one is never wrong.        *)
(***************************************************************************)
CONSTANTS Gateways, Actions, Approved

VARIABLES live, outcome, delivered

deliveryVars == <<live, outcome, delivered>>

Init ==
    /\ live = [g \in Gateways |-> TRUE]
    /\ outcome = [g \in Gateways |-> "none"]
    /\ delivered = {}

Reserve(g) ==
    /\ live[g]
    /\ outcome[g] = "none"
    /\ outcome' = [outcome EXCEPT ![g] = "unknown"]
    /\ UNCHANGED <<live, delivered>>

Deliver(g) ==
    /\ outcome[g] = "unknown"
    /\ delivered' = delivered \cup {Approved[g]}
    /\ UNCHANGED <<live, outcome>>

SettleObserved(g) ==
    /\ outcome[g] = "unknown"
    /\ Approved[g] \in delivered
    /\ outcome' = [outcome EXCEPT ![g] = "observed"]
    /\ UNCHANGED <<live, delivered>>

SettleDenied(g) ==
    /\ outcome[g] = "unknown"
    /\ outcome' = [outcome EXCEPT ![g] = "denied"]
    /\ UNCHANGED <<live, delivered>>

Stop ==
    /\ \E halted \in SUBSET Gateways :
            live' = [g \in Gateways |-> live[g] /\ g \notin halted]
    /\ UNCHANGED <<outcome, delivered>>

Next ==
    \/ \E g \in Gateways :
            Reserve(g) \/ Deliver(g) \/ SettleObserved(g) \/ SettleDenied(g)
    \/ Stop

Spec == Init /\ [][Next]_deliveryVars

=============================================================================
