---------------------------- MODULE ShieldPolicy ----------------------------
(***************************************************************************)
(* The decisions of the LLM shield that keep no state: the input firewall, *)
(* the guard of supplied contexts, the tool gate, the output firewall, the *)
(* points of a run (src/llmShield) and the fallback policy of its gateway  *)
(* (src/llmShield/gateway/fallbackPolicy.js).  Texts are abstracted to     *)
(* what the pattern tables find in them.                                   *)
(***************************************************************************)
EXTENDS Integers

(* A prompt: over the size limit, an override or exfiltration phrase found *)
(* in it, a warning heuristic, an educational frame around the phrase.     *)
Prompts == [long : BOOLEAN, hard : BOOLEAN, heuristic : BOOLEAN, framed : BOOLEAN]

ClassifyPrompt(p) ==
  IF p.long \/ (p.hard /\ ~p.framed) THEN "blocked"
  ELSE IF p.hard \/ p.heuristic THEN "warning"
  ELSE "safe"

(* A supplied context: its shape, its size, the trust it claims and the    *)
(* authority or secret markers found in it.                                *)
Contexts == [shape : {"valid", "schema", "extra"}, big : BOOLEAN,
             trust : {"trusted", "untrusted", "synthetic"}, marked : BOOLEAN]

GuardOne(c) ==
  IF c.shape # "valid" \/ c.big \/ c.trust = "trusted" \/ c.marked THEN "rejected"
  ELSE IF c.trust = "synthetic" THEN "accepted" ELSE "demoted"

GuardContexts(cs, oversize) ==
  IF cs = {} THEN "not_supplied"
  ELSE IF oversize \/ \E c \in cs : GuardOne(c) = "rejected" THEN "rejected"
  ELSE IF \E c \in cs : GuardOne(c) = "demoted" THEN "demoted"
  ELSE "accepted"

(* What a provider answers: its text, the tool it asks for, a refusal and  *)
(* an error code.                                                          *)
Raws == [text : {"clean", "leak"}, tool : {"none", "mock", "unsafe"},
         refused : BOOLEAN, error : {"none", "timeout", "failed"}]

GateToolRequest(tool) ==
  CASE tool = "none" -> "not_requested"
    [] tool = "mock" -> "allowed"
    [] OTHER -> "blocked"

ScanOutput(text) == IF text = "leak" THEN "blocked" ELSE "accepted"

-----------------------------------------------------------------------------
Points(holds, n) == IF holds THEN n ELSE 0

RiskPointsFor(input, context, tool, output, repeated) ==
  Points(input = "warning", 2) + Points(context = "demoted", 1)
    + Points(context = "rejected", 4) + Points(tool = "blocked", 5)
    + Points(tool = "allowed", 1) + Points(output = "blocked", 5)
    + Points(repeated, 2)

RiskVerdict(score) ==
  IF score <= 2 THEN "safe" ELSE IF score <= 5 THEN "warning" ELSE "blocked"

-----------------------------------------------------------------------------
ClassifyProviderOutcome(raw) ==
  IF raw.error = "timeout" THEN "timeout"
  ELSE IF raw.error = "failed" THEN "unavailable"
  ELSE IF raw.refused THEN "provider_refusal"
  ELSE "available"

PreCheckNonTerminal(input, context) ==
  input = "safe" /\ context \in {"accepted", "not_supplied", "demoted"}

(* The budget allows one hop, and the question is asked once, before it.   *)
ShouldFallback(outcome, input, context, onRefusal) ==
  /\ outcome # "available"
  /\ PreCheckNonTerminal(input, context)
  /\ outcome = "provider_refusal" => onRefusal

RiskDeltaFor(outcome) == IF outcome = "provider_refusal" THEN 3 ELSE 2

(* "safe", a word of the risk verdicts only, ranks with "accepted".        *)
VerdictRank(v) == CASE v = "warning" -> 1 [] v = "blocked" -> 2 [] OTHER -> 0

MergeTrustMonotonic(prior, recomputed) ==
  LET higher == IF VerdictRank(prior) >= VerdictRank(recomputed)
                THEN VerdictRank(prior) ELSE VerdictRank(recomputed)
  IN CASE higher = 0 -> "accepted" [] higher = 1 -> "warning" [] OTHER -> "blocked"

ApplySwapFloor(verdict) == MergeTrustMonotonic(verdict, "warning")

-----------------------------------------------------------------------------
(* runBoundaries of the gateway: what one attempt amounts to.  A blocked   *)
(* tool request leaves the output unscanned.                               *)
Boundaries(raw, input, context) ==
  LET tool == GateToolRequest(raw.tool)
      output == IF tool = "blocked" THEN "not_called" ELSE ScanOutput(raw.text)
  IN [raw |-> raw, tool |-> tool, output |-> output,
      verdict |-> IF tool = "blocked" \/ output = "blocked" THEN "blocked"
                  ELSE RiskVerdict(RiskPointsFor(input, context, tool, output, FALSE))]
=============================================================================
