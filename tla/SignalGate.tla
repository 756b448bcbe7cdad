----------------------------- MODULE SignalGate -----------------------------
(***************************************************************************)
(* The signal gate of tools/assurance-signals/signals.py, in front of an   *)
(* enforced host, and its subclass in                                      *)
(* tools/assurance-composed-successor/successor.py.  Processes share the   *)
(* gate's database; every transaction is BEGIN IMMEDIATE.  Calls to the    *)
(* alert lookup and to the host are made between transactions.             *)
(***************************************************************************)
EXTENDS Naturals, FiniteSets

CONSTANTS
    Successor,    \* TRUE for SuccessorSignalGate, FALSE for the frozen gate
    Processes,    \* processes that open the gate
    Alerts,       \* authenticated webhook events
    Concern,      \* what a lookup can find out about each of them
    Nonces,       \* nonces of operator decisions
    Lease,        \* duration of a heartbeat's lease
    DecisionLife, \* how far ahead a decision may expire
    SignedLives,  \* how far ahead the operator lets decisions expire
    HostMayFail,  \* whether the host's revoke can raise
    MaxTime,      \* bound: the clock of a boot stops here
    MaxBoots,     \* bound: number of boots of the machine
    MaxSigned,    \* bound: number of decisions the operator signs
    MaxCrashes    \* bound: number of process crashes

Times == 0 .. MaxTime

\* The conversation an alert is about is this gate's, another, or one whose
\* identifiers match in part.  A verified event may also have a shape that the
\* gate does not accept, or a body that its strict JSON decoder rejects.
Concerns == {"this", "other", "mixed", "misshapen", "undecodable"}

ASSUME SignalAssumption ==
    /\ Successor \in BOOLEAN
    /\ HostMayFail \in BOOLEAN
    /\ Concern \in [Alerts -> Concerns]
    /\ Lease \in Nat \ {0}
    /\ DecisionLife \in Nat \ {0}
    /\ {MaxTime, MaxSigned, MaxCrashes} \subseteq Nat
    /\ MaxBoots \in Nat \ {0}
    /\ Alerts # {}
    /\ SignedLives \subseteq Nat

VARIABLES
    now, boot,    \* the monotonic clock and the identity of its boot
    revision, terminal, paused, leaseUntil, lastSeen, leaseBoot, \* table state
    inbox,        \* table inbox: the status of each alert
    decisions,    \* table decisions: the nonces used
    hostRevoked,  \* table events holds a host_revoked event
    hostLive,     \* the host still accepts work
    signed,       \* decisions the operator has signed; anyone may replay one
    delivered,    \* alerts whose signature the gate has verified
    procs,        \* what each process is doing
    crashes       \* number of crashes so far

clockVars == <<now, boot>>
leaseVars == <<leaseUntil, lastSeen, leaseBoot>>
hostVars == <<hostRevoked, hostLive>>
worldVars == <<signed, delivered, crashes>>
signalVars == <<now, boot, revision, terminal, paused, leaseUntil, lastSeen,
                leaseBoot, inbox, decisions, hostRevoked, hostLive, signed,
                delivered, procs, crashes>>

-----------------------------------------------------------------------------
Decisions ==
    [revision : Nat, boot : 1 .. MaxBoots, expires : Nat, nonce : Nonces]

\* "looking": between the transactions of resolve; "latched": about to call
\* the host's revoke; "revoked" and "unknown": about to record how that went;
\* "ensuring": in the successor's _ensure_revoked; "admitted": in the host.
Steps == {"closed", "idle", "looking", "latched", "revoked", "unknown",
          "ensuring", "admitted"}

\* receiving: the process is in receive, which in the successor goes on to
\* _ensure_revoked when the alert turns out to be a stop.
ProcStates == [step : Steps, alert : Alerts, receiving : BOOLEAN]
At(step) == [step |-> step, alert |-> CHOOSE e \in Alerts : TRUE,
             receiving |-> FALSE]

\* Types of the gate's rows, of the world around it and of the processes.
SignalTypeOK ==
    /\ now \in Times /\ boot \in 1 .. MaxBoots
    /\ revision \in Nat /\ terminal \in BOOLEAN /\ paused \in BOOLEAN
    /\ leaseUntil \in Nat /\ lastSeen \in Times /\ leaseBoot \in 0 .. MaxBoots
    /\ inbox \in [Alerts -> {"absent", "pending", "stopped", "unrelated"}]
    /\ decisions \subseteq Nonces
    /\ hostRevoked \in BOOLEAN /\ hostLive \in BOOLEAN
    /\ signed \subseteq Decisions
    /\ delivered \subseteq Alerts
    /\ procs \in [Processes -> ProcStates]
    /\ crashes \in 0 .. MaxCrashes

-----------------------------------------------------------------------------
Idle(p) == procs[p].step = "idle"
GoTo(p, step) == procs' = [procs EXCEPT ![p] = At(step)]
Pending == {e \in Alerts : inbox[e] = "pending"}
Readable(e) == Concern[e] \in {"this", "other", "mixed"}

\* The lease is this boot's, the clock has not gone back, and it is not over.
Healthy == leaseBoot = boot /\ lastSeen <= now /\ now < leaseUntil

\* _health: the first transaction that meets an expired lease latches a pause.
LatchLapse ==
    /\ paused' = (paused \/ ~Healthy)
    /\ revision' = IF ~Healthy /\ ~paused THEN revision + 1 ELSE revision

\* Mutant: a heartbeat renews the lease without looking at the old one.
HeartbeatRenews(p) ==
    /\ Idle(p)
    /\ leaseUntil' = now + Lease
    /\ lastSeen' = now
    /\ leaseBoot' = boot
    /\ UNCHANGED <<clockVars, revision, paused, terminal, inbox, decisions,
                   hostVars, worldVars, procs>>

Heartbeat(p) ==
    /\ Idle(p)
    /\ LatchLapse
    /\ leaseUntil' = now + Lease
    /\ lastSeen' = now
    /\ leaseBoot' = boot
    /\ UNCHANGED <<clockVars, terminal, inbox, decisions, hostVars, worldVars, procs>>

-----------------------------------------------------------------------------
\* restart.

\* Mutant: the revision a decision was made for is not compared.
RestartableAnyRevision(d) ==
    /\ d.boot = boot
    /\ now < d.expires /\ d.expires <= now + DecisionLife
    /\ ~terminal /\ paused
    /\ Pending = {}
    /\ Healthy
    /\ d.nonce \notin decisions

Restartable(d) ==
    /\ d.boot = boot
    /\ d.revision = revision
    /\ now < d.expires /\ d.expires <= now + DecisionLife
    /\ ~terminal /\ paused
    /\ Pending = {}
    /\ Healthy
    /\ d.nonce \notin decisions

Restart(p, d) ==
    /\ Idle(p)
    /\ Restartable(d)
    /\ decisions' = decisions \cup {d.nonce}
    /\ paused' = FALSE
    /\ revision' = revision + 1
    /\ UNCHANGED <<clockVars, terminal, leaseVars, inbox, hostVars, worldVars, procs>>

DenyRestart(p, d) ==
    /\ Idle(p)
    /\ ~Restartable(d)
    /\ LatchLapse
    /\ UNCHANGED <<clockVars, terminal, leaseVars, inbox, decisions, hostVars,
                   worldVars, procs>>

\* The operator signs a decision for the revision that state() reports.
Sign(life, nonce) ==
    /\ Cardinality(signed) < MaxSigned
    /\ signed' = signed \cup {[revision |-> revision, boot |-> boot,
                               expires |-> now + life, nonce |-> nonce]}
    /\ UNCHANGED <<clockVars, revision, terminal, paused, leaseVars, inbox,
                   decisions, hostVars, delivered, procs, crashes>>

-----------------------------------------------------------------------------
\* _stop and _revoke.

\* Mutant: a stop during a monitor pause leaves the revision as it is.
LatchStopQuietly ==
    /\ terminal' = TRUE
    /\ paused' = paused
    /\ revision' = revision

LatchStop ==
    /\ terminal' = TRUE
    /\ paused' = (paused \/ ~terminal)
    /\ revision' = IF terminal THEN revision ELSE revision + 1

\* Mutant: the host is revoked before the stop is latched.
ProviderErrorUnlatched(p) ==
    /\ Idle(p)
    /\ GoTo(p, "latched")
    /\ UNCHANGED <<clockVars, revision, terminal, paused, leaseVars, inbox,
                   decisions, hostVars, worldVars>>

\* A correlated misalignment_policy_violation of the transport.
ProviderError(p) ==
    /\ Idle(p)
    /\ LatchStop
    /\ GoTo(p, "latched")
    /\ UNCHANGED <<clockVars, leaseVars, inbox, decisions, hostVars, worldVars>>

\* The host's revoke returns or raises; either way it may have taken effect.
HostRevokes(p) ==
    /\ procs[p].step = "latched"
    /\ hostLive' = FALSE
    /\ procs' = [procs EXCEPT ![p].step = "revoked"]
    /\ UNCHANGED <<clockVars, revision, terminal, paused, leaseVars, inbox,
                   decisions, hostRevoked, worldVars>>

HostFails(p) ==
    /\ HostMayFail
    /\ procs[p].step = "latched"
    /\ hostLive' \in {hostLive, FALSE}
    /\ procs' = [procs EXCEPT ![p].step = "unknown"]
    /\ UNCHANGED <<clockVars, revision, terminal, paused, leaseVars, inbox,
                   decisions, hostRevoked, worldVars>>

RecordHost(p) ==
    /\ procs[p].step \in {"revoked", "unknown"}
    /\ hostRevoked' = (hostRevoked \/ procs[p].step = "revoked")
    /\ GoTo(p, IF procs[p].receiving /\ Successor THEN "ensuring" ELSE "idle")
    /\ UNCHANGED <<clockVars, revision, terminal, paused, leaseVars, inbox,
                   decisions, hostLive, worldVars>>

\* Its two reads, of the state and of the events, only ever turn true.
EnsureRevoked(p) ==
    /\ procs[p].step = "ensuring"
    /\ GoTo(p, IF terminal /\ ~hostRevoked THEN "latched" ELSE "idle")
    /\ UNCHANGED <<clockVars, revision, terminal, paused, leaseVars, inbox,
                   decisions, hostVars, worldVars>>

-----------------------------------------------------------------------------
\* receive and resolve.

Look(p, e, receiving) ==
    procs' = [procs EXCEPT ![p] =
        [step |-> "looking", alert |-> e, receiving |-> receiving]]

\* An event that is new to the inbox, its signature verified.  The frozen gate
\* raises on one it cannot read; the successor holds one of a wrong shape, not
\* to be looked up, and lets the error of the decoder pass.
ReceiveNew(p, e) ==
    /\ Idle(p)
    /\ inbox[e] = "absent"
    /\ delivered' = delivered \cup {e}
    /\ IF Readable(e)
       THEN inbox' = [inbox EXCEPT ![e] = "pending"] /\ Look(p, e, TRUE)
       ELSE /\ inbox' = IF Successor /\ Concern[e] = "misshapen"
                        THEN [inbox EXCEPT ![e] = "pending"] ELSE inbox
            /\ UNCHANGED procs
    /\ UNCHANGED <<clockVars, revision, terminal, paused, leaseVars, decisions,
                   hostVars, signed, crashes>>

\* A redelivery is answered from the inbox.
ReceiveAgain(p, e) ==
    /\ Idle(p)
    /\ inbox[e] = "stopped"
    /\ Successor
    /\ GoTo(p, "ensuring")
    /\ UNCHANGED <<clockVars, revision, terminal, paused, leaseVars, inbox,
                   decisions, hostVars, worldVars>>

\* resolve is called for an alert that is still pending.
Resolve(p, e) ==
    /\ Idle(p)
    /\ inbox[e] = "pending"
    /\ Readable(e)
    /\ Look(p, e, FALSE)
    /\ UNCHANGED <<clockVars, revision, terminal, paused, leaseVars, inbox,
                   decisions, hostVars, worldVars>>

\* The lookup fails or its detail does not settle the matter.
LookupFails(p) ==
    /\ procs[p].step = "looking"
    /\ GoTo(p, "idle")
    /\ UNCHANGED <<clockVars, revision, terminal, paused, leaseVars, inbox,
                   decisions, hostVars, worldVars>>

\* Another process has settled the alert meanwhile; its status is returned.
SettledAlready(p) ==
    LET e == procs[p].alert
    IN  /\ procs[p].step = "looking"
        /\ inbox[e] # "pending"
        /\ GoTo(p, IF inbox[e] = "stopped" /\ procs[p].receiving /\ Successor
                   THEN "ensuring" ELSE "idle")
        /\ UNCHANGED <<clockVars, revision, terminal, paused, leaseVars, inbox,
                       decisions, hostVars, worldVars>>

SettleUnrelated(p) ==
    LET e == procs[p].alert
    IN  /\ procs[p].step = "looking"
        /\ inbox[e] = "pending"
        /\ Concern[e] = "other"
        /\ inbox' = [inbox EXCEPT ![e] = "unrelated"]
        /\ GoTo(p, "idle")
        /\ UNCHANGED <<clockVars, revision, terminal, paused, leaseVars,
                       decisions, hostVars, worldVars>>

\* The alert's status and the stop are one transaction; the host comes later.
SettleStopped(p) ==
    LET e == procs[p].alert
    IN  /\ procs[p].step = "looking"
        /\ inbox[e] = "pending"
        /\ Concern[e] = "this"
        /\ inbox' = [inbox EXCEPT ![e] = "stopped"]
        /\ LatchStop
        /\ procs' = [procs EXCEPT ![p].step = "latched"]
        /\ UNCHANGED <<clockVars, leaseVars, decisions, hostVars, worldVars>>

-----------------------------------------------------------------------------
\* dispatch.

\* Mutant: an alert that is not resolved yet does not hold dispatch.
AdmissibleWhilePending == ~terminal /\ ~paused /\ Healthy

Admissible == ~terminal /\ ~paused /\ Pending = {} /\ Healthy

Admit(p) ==
    /\ Idle(p)
    /\ Admissible
    /\ lastSeen' = now
    /\ GoTo(p, "admitted")
    /\ UNCHANGED <<clockVars, revision, terminal, paused, leaseUntil, leaseBoot,
                   inbox, decisions, hostVars, worldVars>>

Block(p) ==
    /\ Idle(p)
    /\ ~Admissible
    /\ LatchLapse
    /\ UNCHANGED <<clockVars, terminal, leaseVars, inbox, decisions, hostVars,
                   worldVars, procs>>

\* The host answers; what it did is its own business.
Finish(p) ==
    /\ procs[p].step = "admitted"
    /\ GoTo(p, "idle")
    /\ UNCHANGED <<clockVars, revision, terminal, paused, leaseVars, inbox,
                   decisions, hostVars, worldVars>>

-----------------------------------------------------------------------------
\* The constructor, and the world.

\* Mutant: reopening does not drive the revocation again.
OpenQuietly(p) ==
    /\ procs[p].step = "closed"
    /\ GoTo(p, "idle")
    /\ UNCHANGED <<clockVars, revision, terminal, paused, leaseVars, inbox,
                   decisions, hostVars, worldVars>>

Open(p) ==
    /\ procs[p].step = "closed"
    /\ GoTo(p, IF Successor THEN "ensuring" ELSE "idle")
    /\ UNCHANGED <<clockVars, revision, terminal, paused, leaseVars, inbox,
                   decisions, hostVars, worldVars>>

Crash(p) ==
    /\ procs[p].step # "closed"
    /\ crashes < MaxCrashes
    /\ crashes' = crashes + 1
    /\ GoTo(p, "closed")
    /\ UNCHANGED <<clockVars, revision, terminal, paused, leaseVars, inbox,
                   decisions, hostVars, signed, delivered>>

Tick ==
    /\ now < MaxTime
    /\ now' = now + 1
    /\ UNCHANGED <<boot, revision, terminal, paused, leaseVars, inbox, decisions,
                   hostVars, worldVars, procs>>

\* A reboot ends every process and starts the monotonic clock again.
Reboot ==
    /\ boot < MaxBoots
    /\ boot' = boot + 1
    /\ now' = 0
    /\ procs' = [p \in Processes |-> At("closed")]
    /\ UNCHANGED <<revision, terminal, paused, leaseVars, inbox, decisions,
                   hostVars, worldVars>>

-----------------------------------------------------------------------------
Init ==
    /\ now = 0 /\ boot = 1
    /\ revision = 0 /\ terminal = FALSE /\ paused = TRUE
    /\ leaseUntil = 0 /\ lastSeen = 0 /\ leaseBoot = 0
    /\ inbox = [e \in Alerts |-> "absent"]
    /\ decisions = {}
    /\ hostRevoked = FALSE /\ hostLive = TRUE
    /\ signed = {}
    /\ delivered = {}
    /\ procs = [p \in Processes |-> At("idle")]
    /\ crashes = 0

\* What a process goes on to do once it has begun.
Continue(p) ==
    \/ HostRevokes(p)
    \/ HostFails(p)
    \/ RecordHost(p)
    \/ EnsureRevoked(p)
    \/ LookupFails(p)
    \/ SettledAlready(p)
    \/ SettleUnrelated(p)
    \/ SettleStopped(p)
    \/ Finish(p)
    \/ Open(p)

Begin(p) ==
    \/ Heartbeat(p)
    \/ \E d \in signed : Restart(p, d) \/ DenyRestart(p, d)
    \/ ProviderError(p)
    \/ \E e \in Alerts : ReceiveNew(p, e) \/ ReceiveAgain(p, e) \/ Resolve(p, e)
    \/ Admit(p)
    \/ Block(p)

Next ==
    \/ \E p \in Processes : Begin(p) \/ Continue(p) \/ Crash(p)
    \/ \E life \in SignedLives, n \in Nonces : Sign(life, n)
    \/ Tick
    \/ Reboot

Spec == Init /\ [][Next]_signalVars

-----------------------------------------------------------------------------
\* Properties.

\* A stop is one fact in several places: an alert settled as "stopped" has
\* latched the gate, a latched gate is paused as well (the pause is what a
\* restart clears), and the host is asked to revoke behind the latch only and
\* recorded as revoked once it is, whoever crashes between the transactions.
StopIsConsistent ==
    /\ \A e \in Alerts : inbox[e] = "stopped" => terminal
    /\ terminal => paused
    /\ ~hostLive => terminal
    /\ hostRevoked => ~hostLive
    /\ \A p \in Processes :
        procs[p].step \in {"latched", "revoked", "unknown"} => terminal

\* Work resumes only by an operator decision that names the revision the gate
\* is in, and no decision and no nonce resumes it twice: any number of signed
\* decisions, replayed in any order by any process.
ResumptionIsAuthorised ==
    [][paused /\ ~paused' =>
        \E d \in signed :
            /\ d.revision = revision
            /\ d.boot = boot
            /\ d.nonce \in decisions' \ decisions
       ]_signalVars

\* A revision names one pause: from the step that pauses or stops the gate, no
\* decision signed earlier can resume it.
PauseInvalidatesDecisions ==
    [][(~paused /\ paused') \/ (~terminal /\ terminal') =>
        \A d \in signed : d.revision < revision']_signalVars

\* Every alert whose signature was verified holds dispatch until its lookup
\* has settled it as some other conversation's.
AuthenticAlertsHold ==
    [][\A p \in Processes : procs[p].step # "admitted" /\ procs'[p].step = "admitted"
        => \A e \in delivered : inbox[e] = "unrelated"]_signalVars

LatchMode == IF terminal THEN "stopped"
             ELSE IF paused \/ ~Healthy THEN "paused" ELSE "open"
Working == {p \in Processes : procs[p].step = "admitted"}

Latch == INSTANCE AdmissionLatch WITH
    mode <- LatchMode, holds <- Pending, spent <- decisions, working <- Working

\* The gate implements the latch: expired and stale leases, heartbeats, boots
\* and crashes never open it, only a fresh decision does.
ImplementsLatch == Latch!Spec

=============================================================================
