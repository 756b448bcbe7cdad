-------------------------- MODULE SignalGateProofs --------------------------
(***************************************************************************)
(* Safety of the signal gate for any number of processes, alerts, boots    *)
(* and signed decisions, and for either version of the gate.               *)
(***************************************************************************)
EXTENDS SignalGate, TLAPS

-----------------------------------------------------------------------------
\* The inductive invariant.

\* The operator signs what state() reports, so no decision is ahead of it.
SignedPast == \A d \in signed : d.revision <= revision

\* A lease is of this boot or an earlier one; of this one, it was last seen
\* in the past.  A lease that is not healthy therefore never becomes so.
LeaseBehindClock ==
    /\ leaseBoot <= boot
    /\ leaseBoot = boot => lastSeen <= now

\* The host's revoke returned: the host is dead.
RevokedIsDead == \A p \in Processes : procs[p].step = "revoked" => ~hostLive

IInv ==
    /\ SignalTypeOK
    /\ StopIsConsistent
    /\ SignedPast
    /\ LeaseBehindClock
    /\ RevokedIsDead

\* All that a step of a process can leave alone but for the process itself.
restVars == <<clockVars, revision, terminal, paused, leaseVars, inbox,
              decisions, hostVars, worldVars>>

-----------------------------------------------------------------------------
\* Processes.

LEMMA AtIsTyped ==
    ASSUME NEW step \in Steps
    PROVE  At(step) \in ProcStates /\ At(step).step = step
PROOF
<1>1. (CHOOSE e \in Alerts : TRUE) \in Alerts
    BY SignalAssumption
<1> QED
    BY <1>1 DEF At, ProcStates

\* A step that only moves one process keeps the invariant, if it comes to
\* call the host behind the latch and to note a revocation that took place.
LEMMA ProcessMoves ==
    ASSUME IInv, NEW p \in Processes, NEW s \in ProcStates,
           procs' = [procs EXCEPT ![p] = s],
           UNCHANGED restVars,
           s.step \in {"latched", "revoked", "unknown"} => terminal,
           s.step = "revoked" => ~hostLive
    PROVE  IInv'
PROOF
<1>1. procs \in [Processes -> ProcStates]
    BY DEF IInv, SignalTypeOK
<1>2. /\ procs' \in [Processes -> ProcStates]
      /\ \A q \in Processes : procs'[q] = IF q = p THEN s ELSE procs[q]
    BY <1>1
<1>3. SignalTypeOK'
    BY <1>2 DEF IInv, SignalTypeOK, restVars, clockVars, leaseVars, hostVars, worldVars
<1>4. StopIsConsistent'
    BY <1>2 DEF IInv, StopIsConsistent, restVars, hostVars
<1>5. SignedPast' /\ LeaseBehindClock'
    BY DEF IInv, SignedPast, LeaseBehindClock, restVars, worldVars, clockVars, leaseVars
<1>6. RevokedIsDead'
    BY <1>2 DEF IInv, RevokedIsDead, restVars, hostVars
<1> QED
    BY <1>3, <1>4, <1>5, <1>6 DEF IInv

LEMMA ProcessGoes ==
    ASSUME IInv, NEW p \in Processes, NEW step \in Steps, GoTo(p, step),
           UNCHANGED restVars,
           step \in {"latched", "revoked", "unknown"} => terminal,
           step = "revoked" => ~hostLive
    PROVE  IInv'
PROOF
<1>1. At(step) \in ProcStates /\ At(step).step = step
    BY AtIsTyped
<1> QED
    BY <1>1, ProcessMoves DEF GoTo

-----------------------------------------------------------------------------
\* Initial states.

LEMMA Initially == Init => IInv
PROOF
<1> SUFFICES ASSUME Init PROVE IInv
    OBVIOUS
<1>1. At("idle") \in ProcStates /\ At("idle").step = "idle"
    BY AtIsTyped DEF Steps
<1>2. SignalTypeOK
  <2>1. MaxTime \in Nat /\ MaxCrashes \in Nat /\ MaxBoots \in Nat /\ MaxBoots >= 1
    BY SignalAssumption
  <2>2. now \in Times /\ lastSeen \in Times /\ crashes \in 0 .. MaxCrashes
    BY <2>1 DEF Init, Times
  <2>3. boot \in 1 .. MaxBoots /\ leaseBoot \in 0 .. MaxBoots
    BY <2>1 DEF Init
  <2>4. procs \in [Processes -> ProcStates]
    BY <1>1 DEF Init
  <2> QED
    BY <2>2, <2>3, <2>4 DEF Init, SignalTypeOK
<1>3. \A p \in Processes : procs[p].step = "idle"
    BY <1>1 DEF Init
<1>4. StopIsConsistent /\ RevokedIsDead
    BY <1>3 DEF Init, StopIsConsistent, RevokedIsDead
<1>5. SignedPast /\ LeaseBehindClock
    BY DEF Init, SignedPast, LeaseBehindClock
<1> QED
    BY <1>2, <1>4, <1>5 DEF IInv

-----------------------------------------------------------------------------
\* Steps that latch or move the lease.

\* A first look at an expired lease raises the revision at most.
LEMMA LapseKeepsTypes ==
    ASSUME IInv, LatchLapse
    PROVE  paused' \in BOOLEAN /\ revision' \in Nat /\ revision <= revision'
                /\ (paused => paused')
PROOF
    BY DEF IInv, SignalTypeOK, LatchLapse

LEMMA StopKeepsTypes ==
    ASSUME IInv, LatchStop
    PROVE  /\ terminal' \in BOOLEAN /\ paused' \in BOOLEAN /\ revision' \in Nat
           /\ revision <= revision' /\ terminal' /\ paused'
PROOF
    BY DEF IInv, SignalTypeOK, StopIsConsistent, LatchStop

LEMMA SignedStayPast ==
    ASSUME IInv, signed' = signed, revision' \in Nat, revision <= revision'
    PROVE  SignedPast'
PROOF
<1>1. SignedPast /\ revision \in Nat /\ signed \subseteq Decisions
    BY DEF IInv, SignalTypeOK
<1>2. \A d \in signed : d.revision \in Nat
    BY <1>1 DEF Decisions
<1> QED
    BY <1>1, <1>2 DEF SignedPast

LEMMA HeartbeatKeeps ==
    ASSUME IInv, NEW p \in Processes, Heartbeat(p)
    PROVE  IInv'
PROOF
<1>1. paused' \in BOOLEAN /\ revision' \in Nat /\ revision <= revision' /\ (paused => paused')
    BY LapseKeepsTypes DEF Heartbeat
<1>2. SignalTypeOK'
  <2>1. now \in Nat /\ now \in Times /\ boot \in 1 .. MaxBoots /\ Lease \in Nat
      BY SignalAssumption DEF IInv, SignalTypeOK, Times
  <2>2. leaseUntil' \in Nat /\ lastSeen' \in Times /\ leaseBoot' \in 0 .. MaxBoots
      BY <2>1, SignalAssumption DEF Heartbeat
  <2> QED
      BY <1>1, <2>2 DEF IInv, SignalTypeOK, Heartbeat, clockVars, hostVars, worldVars
<1>3. StopIsConsistent' /\ RevokedIsDead'
    BY <1>1 DEF IInv, StopIsConsistent, RevokedIsDead, Heartbeat, hostVars
<1>4. SignedPast'
    BY <1>1, SignedStayPast DEF Heartbeat, worldVars
<1>5. LeaseBehindClock'
    BY SignalAssumption DEF IInv, SignalTypeOK, LeaseBehindClock, Heartbeat, clockVars, Times
<1> QED
    BY <1>2, <1>3, <1>4, <1>5 DEF IInv

\* DenyRestart and Block change nothing but what the lapse of a lease does.
LEMMA LapseKeeps ==
    ASSUME IInv, LatchLapse,
           UNCHANGED <<clockVars, terminal, leaseVars, inbox, decisions,
                       hostVars, worldVars, procs>>
    PROVE  IInv'
PROOF
<1>1. paused' \in BOOLEAN /\ revision' \in Nat /\ revision <= revision' /\ (paused => paused')
    BY LapseKeepsTypes
<1>2. SignalTypeOK'
    BY <1>1 DEF IInv, SignalTypeOK, clockVars, leaseVars, hostVars, worldVars
<1>3. StopIsConsistent' /\ RevokedIsDead'
    BY <1>1 DEF IInv, StopIsConsistent, RevokedIsDead, hostVars
<1>4. SignedPast'
    BY <1>1, SignedStayPast DEF worldVars
<1>5. LeaseBehindClock'
    BY DEF IInv, LeaseBehindClock, clockVars, leaseVars
<1> QED
    BY <1>2, <1>3, <1>4, <1>5 DEF IInv

LEMMA RestartKeeps ==
    ASSUME IInv, NEW p \in Processes, NEW d \in signed, Restart(p, d)
    PROVE  IInv'
PROOF
<1>1. ~terminal /\ d \in Decisions /\ d.nonce \in Nonces
    BY DEF Restart, Restartable, IInv, SignalTypeOK, Decisions
<1>2. revision \in Nat /\ revision' = revision + 1
    BY DEF Restart, IInv, SignalTypeOK
<1>3. SignalTypeOK'
  <2>1. decisions' \subseteq Nonces
    BY <1>1 DEF Restart, IInv, SignalTypeOK
  <2>2. revision' \in Nat
    BY <1>2
  <2>3. paused' \in BOOLEAN
    BY DEF Restart
  <2> QED
    BY <2>1, <2>2, <2>3 DEF IInv, SignalTypeOK, Restart, clockVars, leaseVars, hostVars, worldVars
<1>4. StopIsConsistent' /\ RevokedIsDead'
    BY <1>1 DEF IInv, StopIsConsistent, RevokedIsDead, Restart, hostVars
<1>5. SignedPast'
    BY <1>2, SignedStayPast DEF Restart, worldVars
<1>6. LeaseBehindClock'
    BY DEF IInv, LeaseBehindClock, Restart, clockVars, leaseVars
<1> QED
    BY <1>3, <1>4, <1>5, <1>6 DEF IInv

\* A stop with or without an alert: the latch, one process on its way to the
\* host, and at most one row of the inbox.
LEMMA StopKeeps ==
    ASSUME IInv, LatchStop, NEW p \in Processes, NEW s \in ProcStates,
           procs' = [procs EXCEPT ![p] = s], s.step = "latched",
           inbox' \in [Alerts -> {"absent", "pending", "stopped", "unrelated"}],
           UNCHANGED <<clockVars, leaseVars, decisions, hostVars, worldVars>>
    PROVE  IInv'
PROOF
<1>1. /\ terminal' \in BOOLEAN /\ paused' \in BOOLEAN /\ revision' \in Nat
      /\ revision <= revision' /\ terminal' /\ paused'
    BY StopKeepsTypes
<1>2. procs \in [Processes -> ProcStates]
    BY DEF IInv, SignalTypeOK
<1>3. /\ procs' \in [Processes -> ProcStates]
      /\ \A q \in Processes : procs'[q] = IF q = p THEN s ELSE procs[q]
    BY <1>2
<1>4. SignalTypeOK'
    BY <1>1, <1>3 DEF IInv, SignalTypeOK, clockVars, leaseVars, hostVars, worldVars
<1>5. StopIsConsistent'
    BY <1>1 DEF IInv, StopIsConsistent, hostVars
<1>6. RevokedIsDead'
    BY <1>3 DEF IInv, RevokedIsDead, hostVars
<1>7. SignedPast'
    BY <1>1, SignedStayPast DEF worldVars
<1>8. LeaseBehindClock'
    BY DEF IInv, LeaseBehindClock, clockVars, leaseVars
<1> QED
    BY <1>4, <1>5, <1>6, <1>7, <1>8 DEF IInv

\* Admission is the second place that moves the lease.
LEMMA AdmitKeeps ==
    ASSUME IInv, NEW p \in Processes, Admit(p)
    PROVE  IInv'
PROOF
<1>1. At("admitted") \in ProcStates /\ At("admitted").step = "admitted"
    BY AtIsTyped DEF Steps
<1>2. procs \in [Processes -> ProcStates]
    BY DEF IInv, SignalTypeOK
<1>3. /\ procs' \in [Processes -> ProcStates]
      /\ \A q \in Processes :
            procs'[q] = IF q = p THEN At("admitted") ELSE procs[q]
    BY <1>1, <1>2 DEF Admit, GoTo
<1>4. SignalTypeOK'
    BY <1>3 DEF IInv, SignalTypeOK, Admit, clockVars, hostVars, worldVars
<1>5. StopIsConsistent' /\ RevokedIsDead'
    BY <1>1, <1>3 DEF IInv, StopIsConsistent, RevokedIsDead, Admit, hostVars
<1>6. SignedPast'
    BY DEF IInv, SignedPast, Admit, worldVars
<1>7. LeaseBehindClock'
    BY DEF IInv, SignalTypeOK, LeaseBehindClock, Admit, clockVars, Times
<1> QED
    BY <1>4, <1>5, <1>6, <1>7 DEF IInv

-----------------------------------------------------------------------------
\* The host.

LEMMA HostRevokesKeeps ==
    ASSUME IInv, NEW p \in Processes, HostRevokes(p)
    PROVE  IInv'
PROOF
<1>1. procs \in [Processes -> ProcStates] /\ procs[p] \in ProcStates
    BY DEF IInv, SignalTypeOK
<1>2. terminal
    BY DEF HostRevokes, IInv, StopIsConsistent
<1>3. /\ procs' \in [Processes -> ProcStates]
      /\ procs'[p].step = "revoked"
      /\ \A q \in Processes : q # p => procs'[q] = procs[q]
    BY <1>1 DEF HostRevokes, ProcStates, Steps
<1>4. SignalTypeOK'
    BY <1>3 DEF IInv, SignalTypeOK, HostRevokes, clockVars, leaseVars, worldVars
<1>5. StopIsConsistent' /\ RevokedIsDead'
    BY <1>2, <1>3 DEF IInv, StopIsConsistent, RevokedIsDead, HostRevokes
<1>6. SignedPast' /\ LeaseBehindClock'
    BY DEF IInv, SignedPast, LeaseBehindClock, HostRevokes, clockVars, leaseVars, worldVars
<1> QED
    BY <1>4, <1>5, <1>6 DEF IInv

LEMMA HostFailsKeeps ==
    ASSUME IInv, NEW p \in Processes, HostFails(p)
    PROVE  IInv'
PROOF
<1>1. procs \in [Processes -> ProcStates] /\ procs[p] \in ProcStates
    BY DEF IInv, SignalTypeOK
<1>2. terminal
    BY DEF HostFails, IInv, StopIsConsistent
<1>3. /\ procs' \in [Processes -> ProcStates]
      /\ procs'[p].step = "unknown"
      /\ \A q \in Processes : q # p => procs'[q] = procs[q]
    BY <1>1 DEF HostFails, ProcStates, Steps
<1>4. hostLive' \in BOOLEAN /\ (~hostLive => ~hostLive')
  <2>1. CASE hostLive' = hostLive
    BY <2>1 DEF IInv, SignalTypeOK
  <2>2. CASE hostLive' = FALSE
    BY <2>2
  <2> QED
    BY <2>1, <2>2 DEF HostFails
<1>5. SignalTypeOK'
    BY <1>3, <1>4 DEF IInv, SignalTypeOK, HostFails, clockVars, leaseVars, worldVars
<1>6. StopIsConsistent' /\ RevokedIsDead'
    BY <1>2, <1>3, <1>4 DEF IInv, StopIsConsistent, RevokedIsDead, HostFails
<1>7. SignedPast' /\ LeaseBehindClock'
    BY DEF IInv, SignedPast, LeaseBehindClock, HostFails, clockVars, leaseVars, worldVars
<1> QED
    BY <1>5, <1>6, <1>7 DEF IInv

\* The event host_revoked is written behind a revocation that took place.
LEMMA RecordHostKeeps ==
    ASSUME IInv, NEW p \in Processes, RecordHost(p)
    PROVE  IInv'
PROOF
<1>1. PICK step \in {"ensuring", "idle"} : GoTo(p, step)
    BY DEF RecordHost
<1>2. At(step) \in ProcStates /\ At(step).step = step
    BY <1>1, AtIsTyped DEF Steps
<1>3. procs \in [Processes -> ProcStates]
    BY DEF IInv, SignalTypeOK
<1>4. /\ procs' \in [Processes -> ProcStates]
      /\ \A q \in Processes : procs'[q] = IF q = p THEN At(step) ELSE procs[q]
    BY <1>1, <1>2, <1>3 DEF GoTo
<1>5. terminal /\ (procs[p].step = "revoked" => ~hostLive)
    BY DEF RecordHost, IInv, StopIsConsistent, RevokedIsDead
<1>6. SignalTypeOK'
    BY <1>4 DEF IInv, SignalTypeOK, RecordHost, clockVars, leaseVars, worldVars
<1>7. StopIsConsistent' /\ RevokedIsDead'
    BY <1>1, <1>2, <1>4, <1>5
    DEF IInv, SignalTypeOK, StopIsConsistent, RevokedIsDead, RecordHost
<1>8. SignedPast' /\ LeaseBehindClock'
    BY DEF IInv, SignedPast, LeaseBehindClock, RecordHost, clockVars, leaseVars, worldVars
<1> QED
    BY <1>6, <1>7, <1>8 DEF IInv

-----------------------------------------------------------------------------
\* Alerts.

LEMMA LookTyped ==
    ASSUME NEW e \in Alerts, NEW receiving \in BOOLEAN
    PROVE  /\ [step |-> "looking", alert |-> e, receiving |-> receiving] \in ProcStates
           /\ [step |-> "looking", alert |-> e, receiving |-> receiving].step = "looking"
PROOF
    BY DEF ProcStates, Steps

LEMMA ReceiveNewKeeps ==
    ASSUME IInv, NEW p \in Processes, NEW e \in Alerts, ReceiveNew(p, e)
    PROVE  IInv'
PROOF
<1>1. procs \in [Processes -> ProcStates]
    BY DEF IInv, SignalTypeOK
<1>2. /\ procs' \in [Processes -> ProcStates]
      /\ \A q \in Processes : procs'[q].step \in {procs[q].step, "looking"}
  <2>1. CASE Readable(e)
    BY <1>1, <2>1, LookTyped DEF ReceiveNew, Look
  <2>2. CASE ~Readable(e)
    BY <1>1, <2>2 DEF ReceiveNew
  <2> QED
    BY <2>1, <2>2
<1>3. inbox \in [Alerts -> {"absent", "pending", "stopped", "unrelated"}]
    BY DEF IInv, SignalTypeOK
<1>4. inbox' \in {inbox, [inbox EXCEPT ![e] = "pending"]}
    BY DEF ReceiveNew
<1>5. /\ inbox' \in [Alerts -> {"absent", "pending", "stopped", "unrelated"}]
      /\ \A a \in Alerts : inbox'[a] = "stopped" => inbox[a] = "stopped"
    BY <1>3, <1>4
<1>6. SignalTypeOK'
    BY <1>2, <1>5 DEF IInv, SignalTypeOK, ReceiveNew, clockVars, leaseVars, hostVars
<1>7. StopIsConsistent' /\ RevokedIsDead'
    BY <1>2, <1>5 DEF IInv, StopIsConsistent, RevokedIsDead, ReceiveNew, hostVars
<1>8. SignedPast' /\ LeaseBehindClock'
    BY DEF IInv, SignedPast, LeaseBehindClock, ReceiveNew, clockVars, leaseVars
<1> QED
    BY <1>6, <1>7, <1>8 DEF IInv

LEMMA SettleUnrelatedKeeps ==
    ASSUME IInv, NEW p \in Processes, SettleUnrelated(p)
    PROVE  IInv'
PROOF
<1>1. At("idle") \in ProcStates /\ At("idle").step = "idle"
    BY AtIsTyped DEF Steps
<1>2. procs \in [Processes -> ProcStates]
    BY DEF IInv, SignalTypeOK
<1>3. /\ procs' \in [Processes -> ProcStates]
      /\ \A q \in Processes : procs'[q] = IF q = p THEN At("idle") ELSE procs[q]
    BY <1>1, <1>2 DEF SettleUnrelated, GoTo
<1>4. /\ inbox' \in [Alerts -> {"absent", "pending", "stopped", "unrelated"}]
      /\ \A a \in Alerts : inbox'[a] = "stopped" => inbox[a] = "stopped"
    BY DEF SettleUnrelated, IInv, SignalTypeOK
<1>5. SignalTypeOK'
    BY <1>3, <1>4 DEF IInv, SignalTypeOK, SettleUnrelated, clockVars, leaseVars, hostVars, worldVars
<1>6. StopIsConsistent' /\ RevokedIsDead'
    BY <1>1, <1>3, <1>4 DEF IInv, StopIsConsistent, RevokedIsDead, SettleUnrelated, hostVars
<1>7. SignedPast' /\ LeaseBehindClock'
    BY DEF IInv, SignedPast, LeaseBehindClock, SettleUnrelated, clockVars, leaseVars, worldVars
<1> QED
    BY <1>5, <1>6, <1>7 DEF IInv

LEMMA SettleStoppedKeeps ==
    ASSUME IInv, NEW p \in Processes, SettleStopped(p)
    PROVE  IInv'
PROOF
<1> DEFINE s == [procs[p] EXCEPT !.step = "latched"]
<1>1. procs \in [Processes -> ProcStates] /\ procs[p] \in ProcStates
    BY DEF IInv, SignalTypeOK
<1>2. s \in ProcStates /\ s.step = "latched" /\ procs' = [procs EXCEPT ![p] = s]
    BY <1>1 DEF SettleStopped, ProcStates, Steps
<1>3. inbox' \in [Alerts -> {"absent", "pending", "stopped", "unrelated"}]
    BY DEF SettleStopped, IInv, SignalTypeOK
<1> QED
    BY <1>2, <1>3, StopKeeps DEF SettleStopped

-----------------------------------------------------------------------------
\* The operator, the clock and the machine.

LEMMA SignKeeps ==
    ASSUME IInv, NEW life \in SignedLives, NEW n \in Nonces, Sign(life, n)
    PROVE  IInv'
PROOF
<1> DEFINE d == [revision |-> revision, boot |-> boot,
                 expires |-> now + life, nonce |-> n]
<1>1. d \in Decisions /\ d.revision <= revision
    BY SignalAssumption DEF IInv, SignalTypeOK, Decisions, Times
<1>2. SignalTypeOK'
    BY <1>1 DEF IInv, SignalTypeOK, Sign, clockVars, leaseVars, hostVars
<1>3. StopIsConsistent' /\ RevokedIsDead'
    BY DEF IInv, StopIsConsistent, RevokedIsDead, Sign, hostVars
<1>4. SignedPast'
    BY <1>1 DEF IInv, SignedPast, Sign
<1>5. LeaseBehindClock'
    BY DEF IInv, LeaseBehindClock, Sign, clockVars, leaseVars
<1> QED
    BY <1>2, <1>3, <1>4, <1>5 DEF IInv

LEMMA TickKeeps ==
    ASSUME IInv, Tick
    PROVE  IInv'
PROOF
<1>1. SignalTypeOK'
    BY SignalAssumption DEF IInv, SignalTypeOK, Tick, Times, leaseVars, hostVars, worldVars
<1>2. StopIsConsistent' /\ RevokedIsDead' /\ SignedPast'
    BY DEF IInv, StopIsConsistent, RevokedIsDead, SignedPast, Tick, hostVars, worldVars
<1>3. LeaseBehindClock'
    BY DEF IInv, SignalTypeOK, LeaseBehindClock, Tick, Times, leaseVars
<1> QED
    BY <1>1, <1>2, <1>3 DEF IInv

LEMMA RebootKeeps ==
    ASSUME IInv, Reboot
    PROVE  IInv'
PROOF
<1>1. At("closed") \in ProcStates /\ At("closed").step = "closed"
    BY AtIsTyped DEF Steps
<1>2. /\ procs' \in [Processes -> ProcStates]
      /\ \A q \in Processes : procs'[q].step = "closed"
    BY <1>1 DEF Reboot
<1>3. boot' \in 1 .. MaxBoots /\ now' \in Times
    BY SignalAssumption DEF Reboot, IInv, SignalTypeOK, Times
<1>4. SignalTypeOK'
    BY <1>2, <1>3 DEF IInv, SignalTypeOK, Reboot, leaseVars, hostVars, worldVars
<1>5. StopIsConsistent' /\ RevokedIsDead' /\ SignedPast'
    BY <1>2 DEF IInv, StopIsConsistent, RevokedIsDead, SignedPast, Reboot, hostVars, worldVars
<1>6. LeaseBehindClock'
    BY DEF IInv, SignalTypeOK, LeaseBehindClock, Reboot, leaseVars
<1> QED
    BY <1>4, <1>5, <1>6 DEF IInv

LEMMA CrashKeeps ==
    ASSUME IInv, NEW p \in Processes, Crash(p)
    PROVE  IInv'
PROOF
<1>1. At("closed") \in ProcStates /\ At("closed").step = "closed"
    BY AtIsTyped DEF Steps
<1>2. procs \in [Processes -> ProcStates]
    BY DEF IInv, SignalTypeOK
<1>3. /\ procs' \in [Processes -> ProcStates]
      /\ \A q \in Processes : procs'[q] = IF q = p THEN At("closed") ELSE procs[q]
    BY <1>1, <1>2 DEF Crash, GoTo
<1>4. crashes' \in 0 .. MaxCrashes
    BY SignalAssumption DEF Crash, IInv, SignalTypeOK
<1>5. SignalTypeOK'
    BY <1>3, <1>4 DEF IInv, SignalTypeOK, Crash, clockVars, leaseVars, hostVars
<1>6. StopIsConsistent' /\ RevokedIsDead' /\ SignedPast'
    BY <1>1, <1>3 DEF IInv, StopIsConsistent, RevokedIsDead, SignedPast, Crash, hostVars
<1>7. LeaseBehindClock'
    BY DEF IInv, LeaseBehindClock, Crash, clockVars, leaseVars
<1> QED
    BY <1>5, <1>6, <1>7 DEF IInv

-----------------------------------------------------------------------------
\* Steps that only move a process.

LEMMA QuietKeeps ==
    ASSUME IInv, NEW p \in Processes,
           \/ EnsureRevoked(p) \/ LookupFails(p) \/ SettledAlready(p)
           \/ Finish(p) \/ Open(p)
           \/ \E e \in Alerts : ReceiveAgain(p, e)
    PROVE  IInv'
PROOF
<1>1. UNCHANGED restVars
    BY DEF restVars, EnsureRevoked, LookupFails, SettledAlready, Finish, Open,
           ReceiveAgain, clockVars, leaseVars, hostVars, worldVars
<1>2. CASE EnsureRevoked(p)
  <2>1. PICK step \in {"latched", "idle"} :
            GoTo(p, step) /\ (step = "latched" => terminal)
    BY <1>2 DEF EnsureRevoked
  <2> QED
    BY <1>1, <2>1, ProcessGoes DEF Steps
<1>3. CASE \/ LookupFails(p) \/ SettledAlready(p) \/ Finish(p) \/ Open(p)
           \/ \E e \in Alerts : ReceiveAgain(p, e)
  <2>1. PICK step \in {"ensuring", "idle"} : GoTo(p, step)
    BY <1>3 DEF LookupFails, SettledAlready, Finish, Open, ReceiveAgain
  <2> QED
    BY <1>1, <2>1, ProcessGoes DEF Steps
<1> QED
    BY <1>2, <1>3

LEMMA ResolveKeeps ==
    ASSUME IInv, NEW p \in Processes, NEW e \in Alerts, Resolve(p, e)
    PROVE  IInv'
PROOF
<1>1. UNCHANGED restVars
    BY DEF restVars, Resolve, clockVars, leaseVars, hostVars, worldVars
<1>2. Look(p, e, FALSE)
    BY DEF Resolve
<1> QED
    BY <1>1, <1>2, LookTyped, ProcessMoves DEF Look

LEMMA ProviderErrorKeeps ==
    ASSUME IInv, NEW p \in Processes, ProviderError(p)
    PROVE  IInv'
PROOF
<1>1. At("latched") \in ProcStates /\ At("latched").step = "latched"
    BY AtIsTyped DEF Steps
<1>2. inbox' \in [Alerts -> {"absent", "pending", "stopped", "unrelated"}]
    BY DEF ProviderError, IInv, SignalTypeOK
<1> QED
    BY <1>1, <1>2, StopKeeps DEF ProviderError, GoTo

-----------------------------------------------------------------------------
\* Every step.

LEMMA BeginKeeps ==
    ASSUME IInv, NEW p \in Processes, Begin(p)
    PROVE  IInv'
PROOF
<1>1. CASE Heartbeat(p)
    BY <1>1, HeartbeatKeeps
<1>2. CASE \E d \in signed : Restart(p, d)
    BY <1>2, RestartKeeps
<1>3. CASE \E d \in signed : DenyRestart(p, d)
    BY <1>3, LapseKeeps DEF DenyRestart
<1>4. CASE ProviderError(p)
    BY <1>4, ProviderErrorKeeps
<1>5. CASE \E e \in Alerts : ReceiveNew(p, e)
    BY <1>5, ReceiveNewKeeps
<1>6. CASE \E e \in Alerts : ReceiveAgain(p, e)
    BY <1>6, QuietKeeps
<1>7. CASE \E e \in Alerts : Resolve(p, e)
    BY <1>7, ResolveKeeps
<1>8. CASE Admit(p)
    BY <1>8, AdmitKeeps
<1>9. CASE Block(p)
    BY <1>9, LapseKeeps DEF Block
<1> QED
    BY <1>1, <1>2, <1>3, <1>4, <1>5, <1>6, <1>7, <1>8, <1>9 DEF Begin

LEMMA ContinueKeeps ==
    ASSUME IInv, NEW p \in Processes, Continue(p)
    PROVE  IInv'
PROOF
<1>1. CASE HostRevokes(p)
    BY <1>1, HostRevokesKeeps
<1>2. CASE HostFails(p)
    BY <1>2, HostFailsKeeps
<1>3. CASE RecordHost(p)
    BY <1>3, RecordHostKeeps
<1>4. CASE EnsureRevoked(p) \/ LookupFails(p) \/ SettledAlready(p) \/ Finish(p) \/ Open(p)
    BY <1>4, QuietKeeps
<1>5. CASE SettleUnrelated(p)
    BY <1>5, SettleUnrelatedKeeps
<1>6. CASE SettleStopped(p)
    BY <1>6, SettleStoppedKeeps
<1> QED
    BY <1>1, <1>2, <1>3, <1>4, <1>5, <1>6 DEF Continue

LEMMA StutterKeeps ==
    ASSUME IInv, UNCHANGED signalVars
    PROVE  IInv'
PROOF
    BY DEF IInv, SignalTypeOK, StopIsConsistent, SignedPast, LeaseBehindClock,
           RevokedIsDead, signalVars

LEMMA NextKeeps == IInv /\ [Next]_signalVars => IInv'
PROOF
<1> SUFFICES ASSUME IInv, [Next]_signalVars PROVE IInv'
    OBVIOUS
<1>1. CASE \E p \in Processes : Begin(p)
    BY <1>1, BeginKeeps
<1>2. CASE \E p \in Processes : Continue(p)
    BY <1>2, ContinueKeeps
<1>3. CASE \E p \in Processes : Crash(p)
    BY <1>3, CrashKeeps
<1>4. CASE \E life \in SignedLives, n \in Nonces : Sign(life, n)
    BY <1>4, SignKeeps
<1>5. CASE Tick
    BY <1>5, TickKeeps
<1>6. CASE Reboot
    BY <1>6, RebootKeeps
<1>7. CASE UNCHANGED signalVars
    BY <1>7, StutterKeeps
<1> QED
    BY <1>1, <1>2, <1>3, <1>4, <1>5, <1>6, <1>7 DEF Next

\* The inductive invariant holds in every reachable state: the gate's rows, the
\* decisions in circulation and the lease are related as the code relies on.
THEOREM Invariance == Spec => []IInv
PROOF
<1>1. Init => IInv
    BY Initially
<1>2. IInv /\ [Next]_signalVars => IInv'
    BY NextKeeps
<1> QED
    BY <1>1, <1>2, PTL DEF Spec

\* Every reachable state is well typed.
THEOREM TypeCorrect == Spec => []SignalTypeOK
PROOF
<1>1. IInv => SignalTypeOK
    BY DEF IInv
<1> QED
    BY <1>1, Invariance, PTL

\* The inbox, the latch and the host agree about a stop in every state, for
\* any number of processes that crash between the transactions.
THEOREM StopConsistency == Spec => []StopIsConsistent
PROOF
<1>1. IInv => StopIsConsistent
    BY DEF IInv
<1> QED
    BY <1>1, Invariance, PTL

-----------------------------------------------------------------------------
\* Who moves the latch.

\* A step leaves the latch alone, notices a lapse, stops, or restarts; only
\* the operator's signature adds to the decisions.
LEMMA LatchSteps ==
    ASSUME [Next]_signalVars
    PROVE  \/ UNCHANGED <<revision, terminal, paused>>
           \/ LatchLapse /\ UNCHANGED <<terminal, signed>>
           \/ LatchStop /\ UNCHANGED signed
           \/ \E p \in Processes, d \in signed : Restart(p, d)
PROOF
<1>1. CASE UNCHANGED signalVars
    BY <1>1 DEF signalVars
<1>2. CASE Tick \/ Reboot \/ \E life \in SignedLives, n \in Nonces : Sign(life, n)
    BY <1>2 DEF Tick, Reboot, Sign
<1>3. ASSUME NEW p \in Processes, Begin(p)
      PROVE  \/ UNCHANGED <<revision, terminal, paused>>
             \/ LatchLapse /\ UNCHANGED <<terminal, signed>>
             \/ LatchStop /\ UNCHANGED signed
             \/ \E d \in signed : Restart(p, d)
  <2>1. CASE Heartbeat(p) \/ Block(p) \/ \E d \in signed : DenyRestart(p, d)
    BY <2>1 DEF Heartbeat, Block, DenyRestart, worldVars
  <2>2. CASE ProviderError(p)
    BY <2>2 DEF ProviderError, worldVars
  <2>3. CASE Admit(p) \/ \E e \in Alerts : ReceiveNew(p, e) \/ ReceiveAgain(p, e) \/ Resolve(p, e)
    BY <2>3 DEF Admit, ReceiveNew, ReceiveAgain, Resolve
  <2> QED
    BY <1>3, <2>1, <2>2, <2>3 DEF Begin
<1>4. ASSUME NEW p \in Processes, Continue(p)
      PROVE  \/ UNCHANGED <<revision, terminal, paused>>
             \/ LatchStop /\ UNCHANGED signed
  <2>1. CASE SettleStopped(p)
    BY <2>1 DEF SettleStopped, worldVars
  <2>2. CASE ~SettleStopped(p)
    BY <1>4, <2>2 DEF Continue, HostRevokes, HostFails, RecordHost, EnsureRevoked,
        LookupFails, SettledAlready, SettleUnrelated, Finish, Open
  <2> QED
    BY <2>1, <2>2
<1>5. ASSUME NEW p \in Processes, Crash(p)
      PROVE  UNCHANGED <<revision, terminal, paused>>
    BY <1>5 DEF Crash
<1> QED
    BY <1>1, <1>2, <1>3, <1>4, <1>5 DEF Next

\* No lapse, alert, crash, reboot or replay resumes work: only a decision the
\* operator signed for the revision the gate is in, whose nonce is then spent.
THEOREM ResumptionAuthorised == Spec => ResumptionIsAuthorised
PROOF
<1> DEFINE Authorised ==
        paused /\ ~paused' =>
            \E d \in signed : /\ d.revision = revision
                              /\ d.boot = boot
                              /\ d.nonce \in decisions' \ decisions
<1>1. IInv /\ [Next]_signalVars => [Authorised]_signalVars
  <2> SUFFICES ASSUME IInv, [Next]_signalVars PROVE Authorised
      OBVIOUS
  <2>1. CASE UNCHANGED <<revision, terminal, paused>>
      BY <2>1
  <2>2. CASE LatchLapse \/ LatchStop
      BY <2>2 DEF LatchLapse, LatchStop
  <2>3. CASE \E p \in Processes, d \in signed : Restart(p, d)
      BY <2>3 DEF Restart, Restartable
  <2> QED
      BY <2>1, <2>2, <2>3, LatchSteps
<1> QED
    BY <1>1, Invariance, PTL DEF Spec, ResumptionIsAuthorised

\* From the step that pauses or stops the gate, every decision signed before is
\* of a revision that has passed.
THEOREM PauseInvalidates == Spec => PauseInvalidatesDecisions
PROOF
<1> DEFINE Invalidates ==
        (~paused /\ paused') \/ (~terminal /\ terminal') =>
            \A d \in signed : d.revision < revision'
<1>1. IInv /\ [Next]_signalVars => [Invalidates]_signalVars
  <2> SUFFICES ASSUME IInv, [Next]_signalVars,
                      (~paused /\ paused') \/ (~terminal /\ terminal'),
                      NEW d \in signed
               PROVE  d.revision < revision'
      OBVIOUS
  <2>1. d.revision \in Nat /\ revision \in Nat /\ d.revision <= revision
      BY DEF IInv, SignalTypeOK, SignedPast, Decisions
  <2>2. terminal => paused
      BY DEF IInv, StopIsConsistent
  <2>3. revision' = revision + 1
    <3>1. CASE UNCHANGED <<revision, terminal, paused>>
        BY <3>1
    <3>2. CASE LatchLapse /\ UNCHANGED <<terminal, signed>>
        BY <3>2 DEF LatchLapse
    <3>3. CASE LatchStop /\ UNCHANGED signed
        BY <2>2, <3>3 DEF LatchStop
    <3>4. CASE \E q \in Processes, e \in signed : Restart(q, e)
        BY <3>4 DEF Restart
    <3> QED
        BY <3>1, <3>2, <3>3, <3>4, LatchSteps
  <2> QED
      BY <2>1, <2>3
<1> QED
    BY <1>1, Invariance, PTL DEF Spec, PauseInvalidatesDecisions

-----------------------------------------------------------------------------
\* The gate implements AdmissionLatch.

LEMMA LatchInitially == Init => Latch!Init
PROOF
<1> SUFFICES ASSUME Init PROVE Latch!Init
    OBVIOUS
<1>1. At("idle").step = "idle"
    BY AtIsTyped DEF Steps
<1>2. LatchMode = "paused" /\ Pending = {} /\ decisions = {} /\ Working = {}
    BY <1>1 DEF Init, LatchMode, Pending, Working
<1> QED
    BY <1>2 DEF Latch!Init

LEMMA HealthKept ==
    ASSUME UNCHANGED <<clockVars, leaseVars>>
    PROVE  Healthy' = Healthy
PROOF
    BY DEF Healthy, clockVars, leaseVars

LEMMA ModeKept ==
    ASSUME UNCHANGED <<terminal, paused, clockVars, leaseVars>>
    PROVE  LatchMode' = LatchMode
PROOF
    BY HealthKept DEF LatchMode

LEMMA PendingKept ==
    ASSUME UNCHANGED inbox
    PROVE  Pending' = Pending
PROOF
    BY DEF Pending

\* A step that moves one process, and does not admit it, admits nobody.
LEMMA WorkingShrinks ==
    ASSUME IInv, NEW p \in Processes, NEW s \in ProcStates,
           procs' = [procs EXCEPT ![p] = s], s.step # "admitted"
    PROVE  Working' = Working \ {p}
PROOF
<1>1. procs \in [Processes -> ProcStates]
    BY DEF IInv, SignalTypeOK
<1> QED
    BY <1>1 DEF Working

LEMMA WorkingKept ==
    ASSUME IInv, NEW p \in Processes, NEW s \in ProcStates,
           procs' = [procs EXCEPT ![p] = s], s.step # "admitted",
           procs[p].step # "admitted"
    PROVE  Working' = Working
PROOF
    BY WorkingShrinks DEF Working

\* The lapse that a transaction notices had closed the latch already.
LEMMA LapseIsInvisible ==
    ASSUME IInv, LatchLapse,
           UNCHANGED <<clockVars, terminal, leaseVars, inbox, decisions, procs>>
    PROVE  UNCHANGED Latch!latchVars
PROOF
<1>1. Healthy' = Healthy
    BY HealthKept
<1>2. LatchMode' = LatchMode
    BY <1>1 DEF LatchMode, LatchLapse
<1>3. Pending' = Pending /\ Working' = Working
    BY PendingKept DEF Working
<1> QED
    BY <1>2, <1>3 DEF Latch!latchVars

LEMMA HeartbeatIsInvisible ==
    ASSUME IInv, NEW p \in Processes, Heartbeat(p)
    PROVE  UNCHANGED Latch!latchVars
PROOF
<1>1. Healthy'
    BY SignalAssumption DEF IInv, SignalTypeOK, Times, Heartbeat, Healthy, clockVars
<1>2. LatchMode' = LatchMode
    BY <1>1 DEF LatchMode, LatchLapse, Heartbeat
<1>3. Pending' = Pending /\ Working' = Working /\ decisions' = decisions
    BY PendingKept DEF Working, Heartbeat
<1> QED
    BY <1>2, <1>3 DEF Latch!latchVars

LEMMA RestartReopens ==
    ASSUME IInv, NEW p \in Processes, NEW d \in signed, Restart(p, d)
    PROVE  Latch!Next
PROOF
<1>1. d.nonce \in Nonces
    BY DEF IInv, SignalTypeOK, Decisions
<1>2. Healthy /\ Healthy'
    BY HealthKept DEF Restart, Restartable
<1>3. LatchMode = "paused" /\ LatchMode' = "open"
    BY <1>2 DEF LatchMode, Restart, Restartable
<1>4. Pending = {} /\ Pending' = Pending /\ Working' = Working
    BY PendingKept DEF Restart, Restartable, Working
<1>5. d.nonce \notin decisions /\ decisions' = decisions \cup {d.nonce}
    BY DEF Restart, Restartable
<1>6. Latch!Reopen(d.nonce)
    BY <1>3, <1>4, <1>5 DEF Latch!Reopen
<1> QED
    BY <1>1, <1>6 DEF Latch!Next

LEMMA AdmitAdmits ==
    ASSUME IInv, NEW p \in Processes, Admit(p)
    PROVE  Latch!Next
PROOF
<1>1. At("admitted").step = "admitted"
    BY AtIsTyped DEF Steps
<1>2. procs \in [Processes -> ProcStates]
    BY DEF IInv, SignalTypeOK
<1>3. Working' = Working \cup {p}
    BY <1>1, <1>2 DEF Working, Admit, GoTo
<1>4. Healthy /\ Healthy'
    BY DEF IInv, SignalTypeOK, Times, Admit, Admissible, Healthy, clockVars
<1>5. LatchMode = "open" /\ LatchMode' = "open"
    BY <1>4 DEF LatchMode, Admit, Admissible
<1>6. Pending = {} /\ Pending' = Pending /\ decisions' = decisions
    BY PendingKept DEF Admit, Admissible
<1>7. Latch!Admit(p)
    BY <1>3, <1>5, <1>6 DEF Latch!Admit
<1> QED
    BY <1>7 DEF Latch!Next

\* Processes leave, all at once or none, and the lease may be over with it.
LEMMA Leaves ==
    ASSUME Working' \subseteq Working, UNCHANGED <<inbox, decisions>>,
           LatchMode' \in {LatchMode, IF LatchMode = "open" THEN "paused" ELSE LatchMode}
    PROVE  Latch!Next
PROOF
    BY PendingKept DEF Latch!Leave, Latch!Next

LEMMA ProcessLeaves ==
    ASSUME IInv, NEW p \in Processes, NEW step \in Steps, GoTo(p, step),
           step # "admitted",
           UNCHANGED <<clockVars, terminal, paused, leaseVars, inbox, decisions>>
    PROVE  Latch!Next
PROOF
<1>1. At(step) \in ProcStates /\ At(step).step = step
    BY AtIsTyped
<1>2. Working' \subseteq Working
    BY <1>1, WorkingShrinks DEF GoTo
<1> QED
    BY <1>2, ModeKept, Leaves

\* A lease never becomes healthy by the passing of time or a reboot.
LEMMA TimePasses ==
    ASSUME IInv, Tick \/ Reboot
    PROVE  Latch!Next
PROOF
<1>1. At("closed").step = "closed"
    BY AtIsTyped DEF Steps
<1>2. Working' \subseteq Working
    BY <1>1 DEF Tick, Reboot, Working
<1>3. Healthy' => Healthy
  <2>1. /\ now \in Nat /\ boot \in Nat /\ lastSeen \in Nat
        /\ leaseUntil \in Nat /\ leaseBoot \in Nat
      BY SignalAssumption DEF IInv, SignalTypeOK, Times
  <2>2. CASE Tick
      BY <2>1, <2>2 DEF IInv, LeaseBehindClock, Tick, Healthy, leaseVars
  <2>3. CASE Reboot
      BY <2>1, <2>3 DEF IInv, LeaseBehindClock, Reboot, Healthy, leaseVars
  <2> QED
      BY <2>2, <2>3
<1>4. UNCHANGED <<terminal, paused, inbox, decisions>>
    BY DEF Tick, Reboot
<1>5. LatchMode' \in {LatchMode, IF LatchMode = "open" THEN "paused" ELSE LatchMode}
    BY <1>3, <1>4 DEF LatchMode
<1> QED
    BY <1>2, <1>4, <1>5, Leaves

LEMMA ErrorStops ==
    ASSUME IInv, NEW p \in Processes, ProviderError(p)
    PROVE  Latch!Next
PROOF
<1>1. At("latched") \in ProcStates /\ At("latched").step = "latched"
    BY AtIsTyped DEF Steps
<1>2. Working' = Working
    BY <1>1, WorkingKept DEF ProviderError, GoTo, Idle
<1>3. LatchMode' = "stopped"
    BY StopKeepsTypes DEF ProviderError, LatchMode
<1>4. Pending' = Pending /\ decisions' = decisions
    BY PendingKept DEF ProviderError
<1>5. Latch!Stop
    BY <1>2, <1>3, <1>4, SignalAssumption DEF Latch!Stop
<1> QED
    BY <1>5 DEF Latch!Next

LEMMA AlertStops ==
    ASSUME IInv, NEW p \in Processes, SettleStopped(p)
    PROVE  Latch!Next
PROOF
<1> DEFINE e == procs[p].alert
           s == [procs[p] EXCEPT !.step = "latched"]
<1>1. procs[p] \in ProcStates /\ e \in Alerts
    BY DEF IInv, SignalTypeOK, ProcStates
<1>2. s \in ProcStates /\ s.step = "latched" /\ procs' = [procs EXCEPT ![p] = s]
    BY <1>1 DEF SettleStopped, ProcStates, Steps
<1>3. Working' = Working
    BY <1>2, WorkingKept DEF SettleStopped
<1>4. LatchMode' = "stopped"
    BY StopKeepsTypes DEF SettleStopped, LatchMode
<1>5. Pending' = Pending \ {e}
    BY DEF IInv, SignalTypeOK, SettleStopped, Pending
<1>6. decisions' = decisions
    BY DEF SettleStopped
<1>7. Latch!Stop
    BY <1>1, <1>3, <1>4, <1>5, <1>6 DEF Latch!Stop
<1> QED
    BY <1>7 DEF Latch!Next

LEMMA AlertReleases ==
    ASSUME IInv, NEW p \in Processes, SettleUnrelated(p)
    PROVE  Latch!Next
PROOF
<1> DEFINE e == procs[p].alert
<1>1. e \in Alerts
    BY DEF IInv, SignalTypeOK, ProcStates
<1>2. At("idle") \in ProcStates /\ At("idle").step = "idle"
    BY AtIsTyped DEF Steps
<1>3. Working' = Working
    BY <1>2, WorkingKept DEF SettleUnrelated, GoTo
<1>4. Pending' = Pending \ {e}
    BY DEF IInv, SignalTypeOK, SettleUnrelated, Pending
<1>5. LatchMode' = LatchMode /\ decisions' = decisions
    BY ModeKept DEF SettleUnrelated
<1>6. Latch!Release(e)
    BY <1>3, <1>4, <1>5 DEF Latch!Release
<1> QED
    BY <1>1, <1>6 DEF Latch!Next

\* An alert that is stored holds; one that raises leaves the latch as it is.
LEMMA AlertHolds ==
    ASSUME IInv, NEW p \in Processes, NEW e \in Alerts, ReceiveNew(p, e)
    PROVE  [Latch!Next]_Latch!latchVars
PROOF
<1>1. LatchMode' = LatchMode /\ decisions' = decisions
    BY ModeKept DEF ReceiveNew
<1>2. Working' = Working
  <2>1. CASE Readable(e)
    BY <2>1, LookTyped, WorkingKept DEF ReceiveNew, Look, Idle
  <2>2. CASE ~Readable(e)
    BY <2>2 DEF ReceiveNew, Working
  <2> QED
    BY <2>1, <2>2
<1>3. CASE inbox' = [inbox EXCEPT ![e] = "pending"]
  <2>1. Pending' = Pending \cup {e}
      BY <1>3 DEF IInv, SignalTypeOK, Pending
  <2>2. Latch!Hold(e)
      BY <1>1, <1>2, <2>1 DEF Latch!Hold
  <2> QED
      BY <2>2 DEF Latch!Next
<1>4. CASE inbox' = inbox
    BY <1>1, <1>2, <1>4, PendingKept DEF Latch!latchVars
<1> QED
    BY <1>3, <1>4 DEF ReceiveNew

\* Everything else a process does is out of the latch's sight.
LEMMA QuietIsInvisible ==
    ASSUME IInv, NEW p \in Processes,
           \/ HostRevokes(p) \/ HostFails(p) \/ RecordHost(p) \/ EnsureRevoked(p)
           \/ LookupFails(p) \/ SettledAlready(p) \/ Open(p)
           \/ \E e \in Alerts : ReceiveAgain(p, e) \/ Resolve(p, e)
    PROVE  UNCHANGED Latch!latchVars
PROOF
<1>1. procs[p] \in ProcStates
    BY DEF IInv, SignalTypeOK
<1>2. \A step \in Steps : At(step) \in ProcStates /\ At(step).step = step
    BY AtIsTyped
<1>3. procs[p].step # "admitted"
    BY DEF HostRevokes, HostFails, RecordHost, EnsureRevoked, LookupFails,
           SettledAlready, Open, ReceiveAgain, Resolve, Idle
<1>4. \E s \in ProcStates : procs' = [procs EXCEPT ![p] = s] /\ s.step # "admitted"
  <2>1. CASE HostRevokes(p) \/ HostFails(p)
    <3>1. PICK step \in {"revoked", "unknown"} :
              procs' = [procs EXCEPT ![p] = [procs[p] EXCEPT !.step = step]]
        BY <2>1 DEF HostRevokes, HostFails
    <3>2. [procs[p] EXCEPT !.step = step] \in ProcStates
        BY <1>1, <3>1 DEF ProcStates, Steps
    <3>3. [procs[p] EXCEPT !.step = step].step = step
        BY <1>1 DEF ProcStates
    <3> QED
        BY <3>1, <3>2, <3>3
  <2>2. CASE \E e \in Alerts : Resolve(p, e)
    BY <2>2, LookTyped DEF Resolve, Look
  <2>3. CASE \/ RecordHost(p) \/ EnsureRevoked(p) \/ LookupFails(p)
             \/ SettledAlready(p) \/ Open(p) \/ \E e \in Alerts : ReceiveAgain(p, e)
    <3>1. PICK step \in {"ensuring", "idle", "latched"} : GoTo(p, step)
        BY <2>3 DEF RecordHost, EnsureRevoked, LookupFails, SettledAlready, Open,
                    ReceiveAgain
    <3> QED
        BY <1>2, <3>1 DEF GoTo, Steps
  <2> QED
    BY <2>1, <2>2, <2>3
<1>5. Working' = Working
    BY <1>3, <1>4, WorkingKept
<1>6. UNCHANGED <<terminal, paused, clockVars, leaseVars, inbox, decisions>>
    BY DEF HostRevokes, HostFails, RecordHost, EnsureRevoked, LookupFails,
           SettledAlready, Open, ReceiveAgain, Resolve
<1> QED
    BY <1>5, <1>6, ModeKept, PendingKept DEF Latch!latchVars

LEMMA BeginLatches ==
    ASSUME IInv, NEW p \in Processes, Begin(p)
    PROVE  [Latch!Next]_Latch!latchVars
PROOF
<1>1. CASE Heartbeat(p)
    BY <1>1, HeartbeatIsInvisible
<1>2. CASE \E d \in signed : Restart(p, d)
    BY <1>2, RestartReopens
<1>3. CASE Block(p) \/ \E d \in signed : DenyRestart(p, d)
    BY <1>3, LapseIsInvisible DEF Block, DenyRestart
<1>4. CASE ProviderError(p)
    BY <1>4, ErrorStops
<1>5. CASE \E e \in Alerts : ReceiveNew(p, e)
    BY <1>5, AlertHolds
<1>6. CASE \E e \in Alerts : ReceiveAgain(p, e) \/ Resolve(p, e)
    BY <1>6, QuietIsInvisible
<1>7. CASE Admit(p)
    BY <1>7, AdmitAdmits
<1> QED
    BY <1>1, <1>2, <1>3, <1>4, <1>5, <1>6, <1>7 DEF Begin

LEMMA ContinueLatches ==
    ASSUME IInv, NEW p \in Processes, Continue(p)
    PROVE  [Latch!Next]_Latch!latchVars
PROOF
<1>1. CASE \/ HostRevokes(p) \/ HostFails(p) \/ RecordHost(p) \/ EnsureRevoked(p)
           \/ LookupFails(p) \/ SettledAlready(p) \/ Open(p)
    BY <1>1, QuietIsInvisible
<1>2. CASE SettleUnrelated(p)
    BY <1>2, AlertReleases
<1>3. CASE SettleStopped(p)
    BY <1>3, AlertStops
<1>4. CASE Finish(p)
    BY <1>4, ProcessLeaves DEF Finish, Steps
<1> QED
    BY <1>1, <1>2, <1>3, <1>4 DEF Continue

LEMMA StepLatches == IInv /\ [Next]_signalVars => [Latch!Next]_Latch!latchVars
PROOF
<1> SUFFICES ASSUME IInv, [Next]_signalVars PROVE [Latch!Next]_Latch!latchVars
    OBVIOUS
<1>1. CASE \E p \in Processes : Begin(p)
    BY <1>1, BeginLatches
<1>2. CASE \E p \in Processes : Continue(p)
    BY <1>2, ContinueLatches
<1>3. CASE \E p \in Processes : Crash(p)
    BY <1>3, ProcessLeaves DEF Crash, Steps
<1>4. CASE Tick \/ Reboot
    BY <1>4, TimePasses
<1>5. CASE \E life \in SignedLives, n \in Nonces : Sign(life, n)
  <2>1. UNCHANGED <<terminal, paused, clockVars, leaseVars, inbox, decisions, procs>>
      BY <1>5 DEF Sign
  <2> QED
      BY <2>1, ModeKept, PendingKept DEF Working, Latch!latchVars
<1>6. CASE UNCHANGED signalVars
  <2>1. UNCHANGED <<terminal, paused, clockVars, leaseVars, inbox, decisions, procs>>
      BY <1>6 DEF signalVars, clockVars, leaseVars
  <2> QED
      BY <2>1, ModeKept, PendingKept DEF Working, Latch!latchVars
<1> QED
    BY <1>1, <1>2, <1>3, <1>4, <1>5, <1>6 DEF Next

\* The gate, with its lease, its boots, its crashes and its two stores, is an
\* admission latch: every step is a step of AdmissionLatch or none at all.
THEOREM LatchImplemented == Spec => ImplementsLatch
PROOF
<1>1. Init => Latch!Init
    BY LatchInitially
<1>2. IInv /\ [Next]_signalVars => [Latch!Next]_Latch!latchVars
    BY StepLatches
<1> QED
    BY <1>1, <1>2, Invariance, PTL DEF Spec, ImplementsLatch, Latch!Spec

-----------------------------------------------------------------------------
\* Alerts that the gate keeps.

\* The gate stores what it can read, and the successor what has another shape.
Storable(e) == Readable(e) \/ (Successor /\ Concern[e] = "misshapen")

DeliveredIsStored == \A e \in delivered : inbox[e] # "absent"

LEMMA DeliveredStaysStored ==
    ASSUME \A e \in Alerts : Storable(e),
           IInv, DeliveredIsStored, [Next]_signalVars
    PROVE  DeliveredIsStored'
PROOF
<1>1. inbox \in [Alerts -> {"absent", "pending", "stopped", "unrelated"}]
          /\ delivered \subseteq Alerts
    BY DEF IInv, SignalTypeOK
<1>2. ASSUME NEW p \in Processes, NEW e \in Alerts, ReceiveNew(p, e)
      PROVE  DeliveredIsStored'
    BY <1>1, <1>2 DEF Storable, ReceiveNew, DeliveredIsStored
<1>3. ASSUME NEW p \in Processes, SettleUnrelated(p) \/ SettleStopped(p)
      PROVE  DeliveredIsStored'
    BY <1>1, <1>3 DEF SettleUnrelated, SettleStopped, DeliveredIsStored, worldVars
<1>4. ASSUME UNCHANGED <<inbox, delivered>>
      PROVE  DeliveredIsStored'
    BY <1>4 DEF DeliveredIsStored
<1>5. ASSUME NEW p \in Processes, Begin(p), ~ \E e \in Alerts : ReceiveNew(p, e)
      PROVE  UNCHANGED <<inbox, delivered>>
    BY <1>5 DEF Begin, Heartbeat, Restart, DenyRestart, ProviderError, ReceiveAgain,
                Resolve, Admit, Block, worldVars
<1>6. ASSUME NEW p \in Processes, Continue(p), ~SettleUnrelated(p), ~SettleStopped(p)
      PROVE  UNCHANGED <<inbox, delivered>>
    BY <1>6 DEF Continue, HostRevokes, HostFails, RecordHost, EnsureRevoked,
                LookupFails, SettledAlready, Finish, Open, worldVars
<1>7. ASSUME \/ \E p \in Processes : Crash(p)
             \/ \E life \in SignedLives, n \in Nonces : Sign(life, n)
             \/ Tick \/ Reboot \/ UNCHANGED signalVars
      PROVE  UNCHANGED <<inbox, delivered>>
    BY <1>7 DEF Crash, Sign, Tick, Reboot, signalVars, worldVars
<1> QED
    BY <1>2, <1>3, <1>4, <1>5, <1>6, <1>7 DEF Next

\* When every alert is one the gate stores, an authentic alert holds dispatch
\* until it is settled as another conversation's.  The run signal_garbled shows that
\* the assumption is needed.
THEOREM StoredAlertsHold ==
    ASSUME \A e \in Alerts : Storable(e)
    PROVE  Spec => AuthenticAlertsHold
PROOF
<1> DEFINE Holds ==
        \A p \in Processes : procs[p].step # "admitted" /\ procs'[p].step = "admitted"
            => \A e \in delivered : inbox[e] = "unrelated"
<1>1. Init => DeliveredIsStored
    BY DEF Init, DeliveredIsStored
<1>2. IInv /\ DeliveredIsStored /\ [Next]_signalVars => DeliveredIsStored'
    BY DeliveredStaysStored
<1>3. IInv /\ DeliveredIsStored /\ [Next]_signalVars => [Holds]_signalVars
  <2> SUFFICES ASSUME IInv, DeliveredIsStored, [Next]_signalVars,
                      NEW p \in Processes,
                      procs[p].step # "admitted", procs'[p].step = "admitted",
                      NEW e \in delivered
               PROVE  inbox[e] = "unrelated"
      OBVIOUS
  <2>1. p \in Working' /\ p \notin Working
      BY DEF Working
  <2>2. \E q \in Processes : Latch!Admit(q)
      BY <2>1, StepLatches DEF Latch!Next, Latch!latchVars, Latch!Reopen, Latch!Hold,
                               Latch!Release, Latch!Leave, Latch!Stop
  <2>3. ~terminal /\ Pending = {}
      BY <2>2 DEF Latch!Admit, LatchMode
  <2>4. inbox[e] \in {"absent", "pending", "stopped", "unrelated"} /\ e \in Alerts
      BY DEF IInv, SignalTypeOK
  <2>5. inbox[e] # "absent" /\ inbox[e] # "pending" /\ inbox[e] # "stopped"
      BY <2>3, <2>4 DEF DeliveredIsStored, Pending, IInv, StopIsConsistent
  <2> QED
      BY <2>4, <2>5
<1> QED
    BY <1>1, <1>2, <1>3, Invariance, PTL DEF Spec, AuthenticAlertsHold

=============================================================================
