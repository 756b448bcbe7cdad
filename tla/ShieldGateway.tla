---------------------------- MODULE ShieldGateway ----------------------------
(***************************************************************************)
(* The LLM shield's provider gateway (src/llmShield/gateway) behind its     *)
(* mount (server.js): sessions with a risk score that only grows, runs     *)
(* that await a provider, one fallback hop, and the guard that decides at  *)
(* the mount what of a run is exported.  A handler runs to its next await; *)
(* the mock provider answers within the handler, a recorded fixture lets   *)
(* other requests in.  A request for the live provider is answered 410 at  *)
(* the mount, before the router and with nothing changed: it has no action *)
(* here, and the router's ledger of live calls is never reached.           *)
(***************************************************************************)
EXTENDS ShieldPolicy, Sequences, FiniteSets, FiniteSetsExt

CONSTANTS GatewayIds,       \* sessions
          Requests,         \* requests that can be under way at once
          MaxSessions,      \* SIMURGH_GATEWAY_MAX_SESSIONS
          OnRefusal,        \* SIMURGH_GATEWAY_FALLBACK_ON_REFUSAL
          ExportGuard,      \* SIMURGH_GATEWAY_EXPORT_GUARD is not 0
          Modes,            \* provider modes the mount lets through
          Inputs,           \* verdicts of the input firewall that occur
          Guarded,          \* verdicts of the context guard that occur
          MaxRuns           \* bound on the runs of a session

ASSUME GatewayAssumption ==
  /\ MaxSessions \in Nat /\ MaxRuns \in Nat
  /\ OnRefusal \in BOOLEAN /\ ExportGuard \in BOOLEAN
  /\ Modes \subseteq {"mock", "recorded_fixture"}
  /\ Inputs \subseteq {"safe", "warning", "blocked"}
  /\ Guarded \subseteq {"not_supplied", "accepted", "demoted", "rejected"}
  /\ IsFiniteSet(Requests)

VARIABLES
  sessions,   \* store: id -> [risk, trail], of the sessions created
  flight      \* request -> what it awaits, of the requests under way

gatewayVars == <<sessions, flight>>

GatewayInit == sessions = <<>> /\ flight = <<>>

Change(f, k, v) == [x \in DOMAIN f \cup {k} |-> IF x = k THEN v ELSE f[x]]
Without(f, k) == [x \in DOMAIN f \ {k} |-> f[x]]

-----------------------------------------------------------------------------
(* The end of a run.  final is the last attempt, NoAttempt when the input  *)
(* or its contexts kept the provider from being called; swap is FALSE or   *)
(* the verdict and risk of the hop.                                        *)
NoRaw == [text |-> "clean", tool |-> "none", refused |-> FALSE, error |-> "none"]
NoAttempt == [raw |-> NoRaw, tool |-> "not_requested", output |-> "not_called",
              verdict |-> "accepted"]
NoSwap == [used |-> FALSE, delta |-> 0, verdict |-> "accepted", prior |-> "accepted"]

GatewayVerdict(run, final, risk) ==
  IF run.context = "rejected" \/ final.tool = "blocked" \/ final.output = "blocked"
       \/ run.input = "blocked"
  THEN "blocked"
  ELSE IF risk = "warning" THEN "warning" ELSE "accepted"

\* Mutant: the guard looks at the run and not at the session it belongs to.
GuardOfTheRun(run, final, risk, verdict) ==
  IF /\ ExportGuard
     /\ final.raw.error # "none" \/ (verdict = "accepted" /\ run.flagged)
  THEN "blocked" ELSE verdict

(* What the mount exports of the router's verdict: a cumulative risk that  *)
(* is blocked and a provider's error, which the router lets through, are   *)
(* blocked here, and so is an exported text the maintained scan finds      *)
(* something in.                                                           *)
GuardGatewayExport(run, final, risk, verdict) ==
  IF /\ ExportGuard
     /\ \/ risk = "blocked"
        \/ final.raw.error # "none"
        \/ verdict = "accepted" /\ run.flagged
  THEN "blocked" ELSE verdict

Finished(rec, run, final, swap) ==
  LET points == IF run.input = "blocked" THEN 6
                ELSE RiskPointsFor(run.input, run.context, final.tool, final.output, FALSE)
      score == rec.risk + points + swap.delta
      own == IF run.input = "blocked" \/ run.context = "rejected" THEN "blocked"
             ELSE RiskVerdict(score)
      risk == IF swap.used THEN MergeTrustMonotonic(own, swap.verdict) ELSE own
      verdict == GatewayVerdict(run, final, risk)
  IN [risk |-> score,
      trail |-> Append(rec.trail, [swapped |-> swap.used, prior |-> swap.prior,
                                   risk |-> risk, score |-> score,
                                   exported |-> GuardGatewayExport(run, final, risk, verdict)])]

(* finishConfigRejected: a run is recorded, without risk.                  *)
Refused(rec) ==
  [rec EXCEPT !.trail = Append(@, [swapped |-> FALSE, prior |-> "accepted",
                                   risk |-> "warning", score |-> rec.risk,
                                   exported |-> "blocked"])]

\* Mutant: the verdict of the last attempt is taken for the run's.
SwapAnew(primary, outcome, fallback) ==
  [used |-> TRUE, delta |-> RiskDeltaFor(outcome), prior |-> primary.verdict,
   verdict |-> fallback.verdict]

Swap(primary, outcome, fallback) ==
  [used |-> TRUE, delta |-> RiskDeltaFor(outcome), prior |-> primary.verdict,
   verdict |-> ApplySwapFloor(MergeTrustMonotonic(primary.verdict, fallback.verdict))]

-----------------------------------------------------------------------------
(* POST /sessions.  Sessions are never removed.                            *)
CreateSession(s) ==
  /\ s \notin DOMAIN sessions
  /\ Cardinality(DOMAIN sessions) < MaxSessions
  /\ sessions' = Change(sessions, s, [risk |-> 0, trail |-> <<>>])
  /\ UNCHANGED flight

(* MaxRuns bounds the runs of a session, ended and under way.              *)
MayRun(s) ==
  /\ s \in DOMAIN sessions
  /\ Len(sessions[s].trail) + Cardinality({r \in DOMAIN flight : flight[r].session = s})
       < MaxRuns

(* A provider mode that is unknown or not configured.                      *)
RejectConfig(s) ==
  /\ MayRun(s)
  /\ sessions' = [sessions EXCEPT ![s] = Refused(@)]
  /\ UNCHANGED flight

(* POST /:id/run up to its first await.                                    *)
ProviderCalled(run) == run.input # "blocked" /\ run.context # "rejected"

Skip(s, run) ==
  /\ MayRun(s) /\ ~ProviderCalled(run)
  /\ sessions' = [sessions EXCEPT ![s] = Finished(@, run, NoAttempt, NoSwap)]
  /\ UNCHANGED flight

RunMock(s, run, raw) ==
  /\ MayRun(s) /\ ProviderCalled(run) /\ run.mode = "mock"
  /\ LET primary == Boundaries(raw, run.input, run.context)
         outcome == ClassifyProviderOutcome(raw)
         hop == ShouldFallback(outcome, run.input, run.context, OnRefusal)
         benign == Boundaries(NoRaw, run.input, run.context)
     IN sessions' = [sessions EXCEPT ![s] =
                       IF hop THEN Finished(@, run, benign, Swap(primary, outcome, benign))
                       ELSE Finished(@, run, primary, NoSwap)]
  /\ UNCHANGED flight

Begin(r, s, run) ==
  /\ MayRun(s) /\ ProviderCalled(run) /\ run.mode # "mock" /\ r \notin DOMAIN flight
  /\ flight' = Change(flight, r, [session |-> s, run |-> run, primary |-> <<>>])
  /\ UNCHANGED sessions

(* The fixture is read: the run goes on to its fallback attempt, which     *)
(* reads the same fixture, or ends.                                        *)
Answer(r, raw) ==
  /\ r \in DOMAIN flight
  /\ LET f == flight[r]
         attempt == Boundaries(raw, f.run.input, f.run.context)
         hop == f.primary = <<>>
                /\ ShouldFallback(ClassifyProviderOutcome(raw), f.run.input, f.run.context,
                                  OnRefusal)
         swap == IF f.primary = <<>> THEN NoSwap
                 ELSE Swap(f.primary[1], ClassifyProviderOutcome(f.primary[1].raw), attempt)
     IN /\ f.primary # <<>> => raw = f.primary[1].raw
        /\ flight' = IF hop THEN [flight EXCEPT ![r].primary = <<attempt>>]
                     ELSE Without(flight, r)
        /\ sessions' = IF hop THEN sessions
                       ELSE [sessions EXCEPT ![f.session] = Finished(@, f.run, attempt, swap)]

(* A fixture that cannot be selected, read or validated.                   *)
FixtureFails(r) ==
  /\ r \in DOMAIN flight
  /\ sessions' = [sessions EXCEPT ![flight[r].session] = Refused(@)]
  /\ flight' = Without(flight, r)

-----------------------------------------------------------------------------
(* flagged: the export scan would find a marker, a secret's shape or an    *)
(* echo of the run's contexts in the text that comes back.                 *)
Runs == [mode : Modes, input : Inputs, context : Guarded, flagged : BOOLEAN]

(* Only the live provider times out.  A failed call has no text.           *)
Answers(mode) ==
  {raw \in Raws : /\ raw.error # "none" =>
                        raw.text = "clean" /\ raw.tool = "none" /\ ~raw.refused
                  /\ raw.tool # "none" => raw.text = "clean" /\ ~raw.refused
                  /\ raw.error # "timeout"
                  /\ mode = "mock" => /\ raw.tool # "mock"
                                      /\ raw.refused => raw.text = "clean"}

GatewayNext ==
  \/ \E s \in GatewayIds : CreateSession(s) \/ RejectConfig(s)
  \/ \E s \in GatewayIds, run \in Runs : Skip(s, run)
  \/ \E s \in GatewayIds, run \in Runs : \E raw \in Answers("mock") : RunMock(s, run, raw)
  \/ \E r \in Requests, s \in GatewayIds, run \in Runs : Begin(r, s, run)
  \/ \E r \in DOMAIN flight : \E raw \in Answers("recorded_fixture") : Answer(r, raw)
  \/ \E r \in DOMAIN flight : FixtureFails(r)

-----------------------------------------------------------------------------
(* A swap of models hides nothing: the risk a run records is no better     *)
(* than that of the attempt it replaced, nor than a warning                *)
(* (fallbackOrchestrator.js 68-70, gatewayRouter.js 326-327).              *)
SwapHidesNothing ==
  \A s \in DOMAIN sessions : \A i \in DOMAIN sessions[s].trail :
    LET run == sessions[s].trail[i]
    IN run.swapped => /\ VerdictRank(run.risk) >= VerdictRank(run.prior)
                      /\ VerdictRank(run.risk) >= VerdictRank("warning")

(* No run of a session loses the risk of another, in whichever order they  *)
(* end: the scores of the receipts never fall and the last one is the      *)
(* session's (gatewayRouter.js 316-321).                                   *)
ScoreNeverFalls ==
  \A s \in DOMAIN sessions :
    LET trail == sessions[s].trail
    IN /\ \A i, j \in DOMAIN trail : i < j => trail[i].score <= trail[j].score
       /\ trail # <<>> => trail[Len(trail)].score = sessions[s].risk

(* A session's risk only grows, by its own runs and by their swaps.        *)
RiskOnlyGrows == SwapHidesNothing /\ ScoreNeverFalls

(* "the verdict can only hold or worsen, and a swap floors to >= warning"  *)
(* (LLM_SHIELD_STAGE_3R_TRUST_PRESERVING_PROVIDER_FALLBACK.md 40-41).  The *)
(* router forgets it for a cumulative risk that is blocked; with the guard *)
(* of the mount (server.js 590-649) it holds of what leaves the process:   *)
(* nothing is exported better than its risk, no run that swapped models is *)
(* exported as accepted, and once a session's score is beyond the limit    *)
(* nothing of its later runs is exported, in whichever order they end.     *)
NeverLaundered ==
  ExportGuard =>
    \A s \in DOMAIN sessions :
      LET trail == sessions[s].trail
      IN \A i \in DOMAIN trail :
           /\ VerdictRank(trail[i].exported) >= VerdictRank(trail[i].risk)
           /\ trail[i].swapped => trail[i].exported # "accepted"
           /\ \A j \in DOMAIN trail :
                j < i /\ RiskVerdict(trail[j].score) = "blocked" =>
                  trail[i].exported = "blocked"
=============================================================================
