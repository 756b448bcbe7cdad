---------------------------- MODULE MCNodeParts ----------------------------
(***************************************************************************)
(* The parts of the Node code that keep their state to themselves: the     *)
(* server's guards and limiters, the shield's routers and the consent      *)
(* pilots mounted beside the exam, and the history verifier.  They share   *)
(* nothing, so a behaviour follows one of them.                            *)
(***************************************************************************)
EXTENDS FreshnessGuards, RequestLimits, ShieldGateway, ShieldRouter,
        ConsentPilots, MCHistoryVerdict

VARIABLE part

MCScenarios ==
  {[type |-> "cdr_consent", detail |-> "none", prompted |-> FALSE],
   [type |-> "confirmation_of_payee", detail |-> "match", prompted |-> FALSE],
   [type |-> "remote_access", detail |-> "caller_requested", prompted |-> TRUE]}

MCPrompts == {[long |-> FALSE, hard |-> FALSE, heuristic |-> FALSE, framed |-> FALSE],
              [long |-> FALSE, hard |-> FALSE, heuristic |-> TRUE, framed |-> FALSE],
              [long |-> FALSE, hard |-> TRUE, heuristic |-> TRUE, framed |-> FALSE]}
Plain == [shape |-> "valid", big |-> FALSE, trust |-> "untrusted", marked |-> FALSE]
MCContexts == {{}, {Plain}, {[Plain EXCEPT !.trust = "synthetic"], [Plain EXCEPT !.marked = TRUE]}}

allVars == <<part, vars, limitVars, gatewayVars, shield, pilotVars, historyVars>>

PartsInit ==
  /\ part \in {"freshness", "limiter", "instructor", "bucket",
               "gateway", "shield", "pilots", "history"}
  /\ Init /\ LimitInit /\ GatewayInit /\ ShieldInit /\ PilotInit /\ HistoryInit
  /\ part # "pilots" => pilot = "banking"
  /\ part # "history" => bundle = CHOOSE b \in Bundles : TRUE

LimitNext ==
  \/ part = "limiter" /\ LimiterNext
  \/ part = "instructor" /\ InstructorNext
  \/ part = "bucket" /\ ConsumeRateToken
  \/ part \in {"limiter", "instructor", "bucket"} /\ PassTime

ServerNext ==
  \/ part = "freshness" /\ Next /\ UNCHANGED <<limitVars, gatewayVars, shield, pilotVars>>
  \/ LimitNext /\ UNCHANGED <<vars, gatewayVars, shield, pilotVars>>
  \/ part = "gateway" /\ GatewayNext /\ UNCHANGED <<vars, limitVars, shield, pilotVars>>
  \/ part = "shield" /\ ShieldNext /\ UNCHANGED <<vars, limitVars, gatewayVars, pilotVars>>
  \/ part = "pilots" /\ PilotNext /\ UNCHANGED <<vars, limitVars, gatewayVars, shield>>

PartsNext ==
  /\ UNCHANGED part
  /\ \/ ServerNext /\ UNCHANGED historyVars
     \/ /\ part = "history" /\ HistoryNext
        /\ UNCHANGED <<vars, limitVars, gatewayVars, shield, pilotVars>>

PartsSpec == PartsInit /\ [][PartsNext]_allVars

Symmetry == Permutations(GatewayIds) \cup Permutations(Requests)
=============================================================================
