---------------------------- MODULE ShieldRouter ----------------------------
(***************************************************************************)
(* The LLM shield's own routes (src/llmShield/llmShieldRouter.js): plain   *)
(* runs of a prompt and contained runs that supply contexts and a mock     *)
(* scenario.  Handlers are synchronous; a session keeps its run counter,   *)
(* its risk, the number of warned runs and the log of its verdicts.        *)
(***************************************************************************)
EXTENDS ShieldPolicy, Sequences, FiniteSets

CONSTANTS ShieldIds,       \* sessions
          ShieldCap,       \* SIMURGH_LLM_SHIELD_MAX_SESSIONS
          ShieldPrompts,   \* prompts sent
          ShieldContexts,  \* sets of contexts supplied
          MaxShieldRuns    \* bound on the runs of a session

ASSUME ShieldAssumption ==
  /\ ShieldCap \in Nat /\ MaxShieldRuns \in Nat
  /\ ShieldPrompts \subseteq Prompts /\ ShieldContexts \subseteq SUBSET Contexts

VARIABLE shield    \* session -> [runs, risk, warned, log], of those created

ShieldInit == shield = <<>>

CreateShieldSession(s) ==
  /\ s \notin DOMAIN shield /\ Cardinality(DOMAIN shield) < ShieldCap
  /\ shield' = [x \in DOMAIN shield \cup {s} |->
                  IF x = s THEN [runs |-> 0, risk |-> 0, warned |-> 0, log |-> <<>>]
                  ELSE shield[x]]

MayRunShield(s) == s \in DOMAIN shield /\ shield[s].runs < MaxShieldRuns

(* A request refused for its shape has used up a run number.               *)
RefuseRun(s) ==
  /\ MayRunShield(s)
  /\ shield' = [shield EXCEPT ![s].runs = @ + 1]

(* A plain run: the model is called unless the prompt is blocked, and the  *)
(* risk of the session is not touched.                                     *)
RunPlain(s, prompt) ==
  /\ MayRunShield(s)
  /\ LET rec == shield[s]
         input == ClassifyPrompt(prompt)
     IN shield' = [shield EXCEPT ![s] =
          [runs |-> rec.runs + 1, risk |-> rec.risk, warned |-> rec.warned,
           log |-> Append(rec.log, [kind |-> "plain", input |-> input,
                                    called |-> input # "blocked", risk |-> input,
                                    run |-> rec.runs + 1])]]

(* The mock scenarios: what they answer and the tool they ask for.         *)
Scenarios3D == [benign |-> [text |-> "clean", tool |-> "none"],
                tool_escalation |-> [text |-> "clean", tool |-> "unsafe"],
                policy_leak |-> [text |-> "leak", tool |-> "none"]]

(* Mutant: a repeated warning is looked for in the session's risk.         *)
RepeatedInRisk(rec, input) == rec.risk > 2 /\ input = "warning"

Repeated(rec, input) == rec.warned > 0 /\ input = "warning"

RunContained(s, prompt, contexts, scenario) ==
  /\ MayRunShield(s)
  /\ LET rec == shield[s]
         input == ClassifyPrompt(prompt)
         context == GuardContexts(contexts, FALSE)
         called == input # "blocked" /\ context # "rejected"
         tool == IF called THEN GateToolRequest(scenario.tool) ELSE "not_requested"
         output == IF called THEN ScanOutput(scenario.text) ELSE "not_called"
         points == IF input = "blocked" THEN 6
                   ELSE RiskPointsFor(input, context, tool, output, Repeated(rec, input))
         risk == IF input = "blocked" \/ context = "rejected" THEN "blocked"
                 ELSE RiskVerdict(rec.risk + points)
     IN shield' = [shield EXCEPT ![s] =
          [runs |-> rec.runs + 1, risk |-> rec.risk + points,
           warned |-> rec.warned + Points(input = "warning", 1),
           log |-> Append(rec.log, [kind |-> "contained", input |-> input, called |-> called,
                                    risk |-> risk, run |-> rec.runs + 1])]]

ShieldNext ==
  \/ \E s \in ShieldIds : CreateShieldSession(s) \/ RefuseRun(s)
  \/ \E s \in ShieldIds, prompt \in ShieldPrompts : RunPlain(s, prompt)
  \/ \E s \in ShieldIds, prompt \in ShieldPrompts, contexts \in ShieldContexts,
        name \in DOMAIN Scenarios3D : RunContained(s, prompt, contexts, Scenarios3D[name])

-----------------------------------------------------------------------------
(* Softening a session over several turns escalates: from the second       *)
(* contained run with a warned prompt on, every contained run of the       *)
(* session is "blocked", however harmless, and whatever plain runs and     *)
(* refused requests lie in between (llmShieldRouter.js 280-297,            *)
(* LLM_SHIELD_STAGE_3D_PROVENANCE_CONTAINMENT.md "multi-turn softening     *)
(* escalates").                                                            *)
SofteningEscalates ==
  \A s \in DOMAIN shield :
    LET log == shield[s].log
        Warned(i) == log[i].kind = "contained" /\ log[i].input = "warning"
    IN \A i, j \in DOMAIN log :
         i < j /\ Warned(i) /\ Warned(j) =>
           \A k \in DOMAIN log : k >= j /\ log[k].kind = "contained" => log[k].risk = "blocked"
=============================================================================
