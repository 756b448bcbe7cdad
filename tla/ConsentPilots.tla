---------------------------- MODULE ConsentPilots ----------------------------
(***************************************************************************)
(* The two consent pilots of the node server: synthetic banking sessions   *)
(* (src/bankingPilot) and voting sessions (src/votingPilot).  Each keeps a *)
(* Map of records that is never emptied, a record owning a chained audit   *)
(* log, and tokens that name the session.  Handlers are synchronous.       *)
(***************************************************************************)
EXTENDS AuditChain, FiniteSets, FiniteSetsExt

CONSTANTS Records,       \* sessions that consent may open
          MaxActive,     \* SIMURGH_*_PILOT_MAX_SESSIONS
          Closed,        \* SIMURGH_*_PILOT_COLLECTION_CLOSED
          Explains,      \* SIMURGH_BANKING_PILOT_AI_EXPLAIN
          Scenarios      \* valid scenario payloads of the banking pilot

ASSUME PilotsAssumption ==
  MaxActive \in Nat /\ Closed \in BOOLEAN /\ Explains \in BOOLEAN

VARIABLES
  pilot,      \* the pilot whose behaviour this is
  store       \* session -> record, of the sessions opened

pilotVars == <<pilot, store>>

Key == "pilot"

Log(record, type) == [record EXCEPT !.chain = AppendEntry(@, Key, type)]

NoRisk == [score |-> 0, verdict |-> "none", attempted |-> FALSE]

(* forbidden is capped: the code only asks whether it is zero.             *)
NewRecord ==
  Log(Log([withdrawn |-> FALSE, submitted |-> FALSE, forbidden |-> 0, risk |-> NoRisk,
           expired |-> FALSE, chain |-> NewChain], "consent"), "started")

PilotInit == pilot \in {"banking", "voting"} /\ store = <<>>

-----------------------------------------------------------------------------
(* scoreBankingRisk: points of a scenario and of an attempt to send a      *)
(* forbidden field.                                                        *)
BasePoints(s) ==
  CASE s.type = "cdr_consent" -> 10
    [] s.type = "confirmation_of_payee" ->
         20 + (CASE s.detail = "close_match" -> 15 [] s.detail = "no_match" -> 30 [] OTHER -> 0)
    [] s.type = "remote_access" -> 35 + (IF s.detail = "caller_requested" THEN 20 ELSE 0)
    [] s.type = "payment_pause" -> 30
    [] OTHER -> 20

ScoreBankingRisk(s, attempted) ==
  LET sum == BasePoints(s) + (IF s.prompted THEN 5 ELSE 0) + (IF attempted THEN 35 ELSE 0)
      score == IF sum > 100 THEN 100 ELSE sum
  IN [score |-> score, attempted |-> attempted,
      verdict |-> IF score >= 70 THEN "critical" ELSE IF score >= 30 THEN "warning" ELSE "safe"]

-----------------------------------------------------------------------------
Active == {r \in DOMAIN store : ~store[r].withdrawn}

(* POST /consent/accept.                                                   *)
Accept(r) ==
  /\ ~Closed /\ r \notin DOMAIN store
  /\ Cardinality(Active) < MaxActive
  /\ Cardinality(DOMAIN store) < 2 * MaxActive
  /\ store' = [x \in DOMAIN store \cup {r} |-> IF x = r THEN NewRecord ELSE store[x]]
  /\ UNCHANGED pilot

(* A token names its session and lives for a day; the records outlive it.  *)
Kept(r) == r \in DOMAIN store /\ ~store[r].expired

Rewrite(r, record) == store' = [store EXCEPT ![r] = record] /\ UNCHANGED pilot

(* POST /submit of the banking pilot: closed records are refused before    *)
(* the body is read; every refusal of a body is logged, a forbidden field  *)
(* is counted.                                                             *)
BankingReject(r, reason) ==
  /\ pilot = "banking" /\ ~Closed /\ Kept(r)
  /\ ~store[r].withdrawn /\ ~store[r].submitted
  /\ Rewrite(r, Log([store[r] EXCEPT !.forbidden = IF reason = "forbidden" THEN 1 ELSE @],
                "rejected"))

BankingSubmit(r, scenario) ==
  /\ pilot = "banking" /\ ~Closed /\ Kept(r)
  /\ ~store[r].withdrawn /\ ~store[r].submitted
  /\ Rewrite(r, Log([store[r] EXCEPT !.submitted = TRUE,
                                 !.risk = ScoreBankingRisk(scenario, store[r].forbidden > 0)],
                "submitted"))

(* POST /submit of the voting pilot: a ballot field is logged and counted  *)
(* even when the session has been submitted.                               *)
VotingReject(r) ==
  /\ pilot = "voting" /\ ~Closed /\ Kept(r) /\ ~store[r].withdrawn
  /\ Rewrite(r, Log([store[r] EXCEPT !.forbidden = 1], "rejected"))

VotingSubmit(r) ==
  /\ pilot = "voting" /\ ~Closed /\ Kept(r)
  /\ ~store[r].withdrawn /\ ~store[r].submitted
  /\ Rewrite(r, Log([store[r] EXCEPT !.submitted = TRUE], "submitted"))

(* POST /withdraw: the entry is appended before the record is marked.      *)
Withdraw(r) ==
  /\ ~Closed /\ Kept(r) /\ ~store[r].withdrawn
  /\ Rewrite(r, [Log(store[r], "withdrawn") EXCEPT !.withdrawn = TRUE])

(* Mutant: a withdrawn session still gets its report.                      *)
ReportAnyway(r) == Kept(r) /\ Rewrite(r, Log(store[r], "report"))

(* GET /:id/report; /audit and /verify of the banking pilot, which a       *)
(* withdrawn session still answers; and its explanation of a submission.   *)
Report(r) ==
  /\ Kept(r) /\ ~store[r].withdrawn
  /\ Rewrite(r, Log(store[r], "report"))

Export(r) ==
  /\ pilot = "banking" /\ Kept(r)
  /\ Rewrite(r, Log(store[r], "exported"))

Explain(r) ==
  /\ pilot = "banking" /\ Explains /\ Kept(r) /\ ~store[r].withdrawn /\ store[r].submitted
  /\ Rewrite(r, Log(store[r], "explained"))

(* The token's day ends.                                                   *)
Expire(r) == Kept(r) /\ Rewrite(r, [store[r] EXCEPT !.expired = TRUE])

PilotNext ==
  \/ \E r \in Records : Accept(r) \/ VotingReject(r) \/ VotingSubmit(r)
  \/ \E r \in Records : Withdraw(r) \/ Report(r) \/ Explain(r) \/ Export(r) \/ Expire(r)
  \/ \E r \in Records, reason \in {"forbidden", "other"} : BankingReject(r, reason)
  \/ \E r \in Records, s \in Scenarios : BankingSubmit(r, s)

-----------------------------------------------------------------------------
At(record, type) == {i \in DOMAIN record.chain.entries : record.chain.entries[i].type = type}

Before(record, a, b) == \A i \in At(record, a), j \in At(record, b) : i < j

(* The log tells what the record says, as long as it takes entries: a      *)
(* submission and a withdrawal appear once each and in that order, and     *)
(* nothing is reported or explained after a withdrawal (both index.js).    *)
TrailTellsRecord ==
  \A r \in DOMAIN store :
    LET record == store[r]
    IN /\ Cardinality(At(record, "submitted")) <= 1 /\ Cardinality(At(record, "withdrawn")) <= 1
       /\ At(record, "submitted") # {} => record.submitted
       /\ At(record, "withdrawn") # {} => record.withdrawn
       /\ ~record.chain.truncated =>
            /\ record.submitted => At(record, "submitted") # {}
            /\ record.withdrawn => At(record, "withdrawn") # {}
       /\ \A type \in {"submitted", "report", "explained", "rejected"} : Before(record, type, "withdrawn")

(* The banking verdict counts every forbidden field the session ever sent: *)
(* whoever sent one is not "safe", and no later request changes what the   *)
(* report then shows side by side (bankingPilot/index.js 217-258).         *)
RiskCountsRejections ==
  \A r \in DOMAIN store :
    pilot = "banking" /\ store[r].submitted =>
      /\ store[r].risk.attempted <=> store[r].forbidden > 0
      /\ store[r].forbidden > 0 => store[r].risk.verdict # "safe"

(* A pilot's report, chain and verdict tell what happened to the record    *)
(* (bankingPilot/index.js, votingPilot/index.js).                          *)
PilotsTellAll == TrailTellsRecord /\ RiskCountsRejections
=============================================================================
