---------------------- MODULE CredentialReceiverProofs ----------------------
(***************************************************************************)
(* Safety of the credential receiver for every number of credentials,      *)
(* sessions, connections and actions, under both policies.                 *)
(***************************************************************************)
EXTENDS CredentialReceiver, TLAPS

-----------------------------------------------------------------------------
\* The inductive invariant.

\* What the log says was revoked stays revoked in the table.
LoggedIsRevoked ==
    \A i \in DOMAIN log : log[i].kind = "revoked" =>
        credentials[log[i].credential].status = "revoked"

\* A login of session s stands at position k, before any revocation of c.
LoggedInAt(k, c, s) ==
    /\ log[k] = Event("session", c, s)
    /\ \A i \in DOMAIN log :
            log[i].kind = "revoked" /\ log[i].credential = c => k < i

\* Every row of the sessions table has its login in the log.
SessionsAreLogged ==
    \A s \in DOMAIN sessions :
        \E k \in DOMAIN log : LoggedInAt(k, sessions[s].credential, s)

\* What the log says was cancelled stays cancelled in the table.
LoggedIsCancelled ==
    \A i \in DOMAIN log : log[i].kind = "cancelled" =>
        log[i].session \in DOMAIN sessions /\ sessions[log[i].session].cancelled

ReceiverInv ==
    /\ ReceiverTypeOK
    /\ OneEffectPerKey
    /\ ObservedIsRecorded
    /\ LoggedIsRevoked
    /\ RevocationFinal
    /\ SessionsAreLogged
    /\ LoginPrecedesRevocation
    /\ LoggedIsCancelled
    /\ CancelFinal

-----------------------------------------------------------------------------
\* Types.

LEMMA ReceiverRows == AbsentRow \in CredentialRows /\ FreeRequest \in Requests
PROOF
<1>1. Scopes # {}
    BY ReceiverAssumption
<1>2. AbsentRow \in CredentialRows
    BY <1>1, ReceiverAssumption DEF AbsentRow, CredentialRows, Times
<1>3. FreeRequest \in Requests
    BY ReceiverAssumption DEF FreeRequest, Requests, Stages, NoSession
<1> QED
    BY <1>2, <1>3

LEMMA ReceiverInitTypes == ReceiverInit => ReceiverTypeOK
PROOF
<1> SUFFICES ASSUME ReceiverInit PROVE ReceiverTypeOK
    OBVIOUS
<1>1. now \in Times
    BY ReceiverAssumption DEF ReceiverInit, Times
<1>2. /\ credentials \in [Credentials -> CredentialRows]
      /\ requests \in [Clients -> Requests]
    BY ReceiverRows DEF ReceiverInit
<1>3. sessions \in Seq(SessionRows) /\ effects \subseteq EffectRows /\ log \in Seq(Events)
    BY DEF ReceiverInit
<1>4. dropNext \in BOOLEAN
    BY DEF ReceiverInit
<1> QED
    BY <1>1, <1>2, <1>3, <1>4 DEF ReceiverTypeOK

LEMMA AppendEvent ==
    ASSUME NEW s \in Seq(Events), NEW e \in Events
    PROVE  Append(s, e) \in Seq(Events)
PROOF
    OBVIOUS

LEMMA AppendFacts ==
    ASSUME NEW s \in Seq(Events), NEW e \in Events
    PROVE  LET t == Append(s, e)
           IN  /\ DOMAIN s = 1 .. Len(s) /\ Len(s) \in Nat
               /\ DOMAIN t = 1 .. Len(s) + 1
               /\ \A i \in DOMAIN s : t[i] = s[i]
               /\ t[Len(s) + 1] = e
PROOF
    OBVIOUS

LEMMA SessionType ==
    ASSUME ReceiverTypeOK, NEW s \in DOMAIN sessions
    PROVE  sessions[s].credential \in Credentials /\ s \in Nat
PROOF
<1>1. sessions \in Seq(SessionRows)
    BY DEF ReceiverTypeOK
<1>2. sessions[s] \in SessionRows /\ s \in Nat
    BY <1>1
<1> QED
    BY <1>2 DEF SessionRows

LEMMA RevokeTypes ==
    ASSUME ReceiverTypeOK, NEW c \in Credentials, Revoke(c)
    PROVE  credentials' \in [Credentials -> CredentialRows] /\ log' \in Seq(Events)
PROOF
<1>1. credentials' \in [Credentials -> CredentialRows]
    BY DEF Revoke, ReceiverTypeOK, CredentialRows
<1>2. Event("revoked", c, NoSession) \in Events
    BY DEF Event, Events, NoSession
<1>3. log' \in Seq(Events)
    BY <1>2, AppendEvent DEF Revoke, ReceiverTypeOK
<1> QED
    BY <1>1, <1>3

LEMMA CancelTypes ==
    ASSUME ReceiverTypeOK, NEW s \in DOMAIN sessions, Cancel(s)
    PROVE  /\ sessions' \in Seq(SessionRows) /\ log' \in Seq(Events)
           /\ DOMAIN sessions' = DOMAIN sessions
           /\ Len(sessions') = Len(sessions)
           /\ sessions'[s] = [sessions[s] EXCEPT !.cancelled = TRUE]
           /\ \A u \in DOMAIN sessions : u # s => sessions'[u] = sessions[u]
PROOF
<1>0. sessions \in Seq(SessionRows)
    BY DEF ReceiverTypeOK
<1>1. sessions[s] \in SessionRows /\ s \in Nat
    BY <1>0
<1>2. [sessions[s] EXCEPT !.cancelled = TRUE] \in SessionRows
    BY <1>1 DEF SessionRows
<1>3. sessions' = [sessions EXCEPT ![s] = [sessions[s] EXCEPT !.cancelled = TRUE]]
    BY DEF Cancel
<1>4. Event("cancelled", sessions[s].credential, s) \in Events
    BY <1>1 DEF Event, Events, SessionRows
<1>5. log' \in Seq(Events)
    BY <1>4, AppendEvent DEF Cancel, ReceiverTypeOK
<1> QED
    BY <1>0, <1>2, <1>3, <1>5

\* The administrator's operations keep the types of the tables, and leave the
\* sessions and what they are sessions of.
LEMMA AdminTypes ==
    ASSUME ReceiverTypeOK, AdminNext
    PROVE  ReceiverTypeOK' /\ Len(sessions') = Len(sessions)
PROOF
<1> USE DEF ReceiverTypeOK
<1>1. ASSUME NEW c \in Credentials, NEW scope \in Scopes, NEW t \in Times,
             Issue(c, scope, t)
      PROVE  ReceiverTypeOK' /\ Len(sessions') = Len(sessions)
  <2>1. credentials' \in [Credentials -> CredentialRows]
    BY <1>1 DEF Issue, CredentialRows
  <2> QED
    BY <1>1, <2>1 DEF Issue
<1>2. ASSUME NEW c \in Credentials, AdminRevoke(c)
      PROVE  ReceiverTypeOK' /\ Len(sessions') = Len(sessions)
    BY <1>2, RevokeTypes DEF AdminRevoke
<1>3. ASSUME NEW s \in DOMAIN sessions, Cancel(s)
      PROVE  ReceiverTypeOK' /\ Len(sessions') = Len(sessions)
    BY <1>3, CancelTypes DEF Cancel
<1>4. ASSUME NEW t \in Times, Advance(t)
      PROVE  ReceiverTypeOK' /\ Len(sessions') = Len(sessions)
    BY <1>4 DEF Advance
<1>5. ASSUME DropNext
      PROVE  ReceiverTypeOK' /\ Len(sessions') = Len(sessions)
    BY <1>5 DEF DropNext
<1> QED
    BY <1>1, <1>2, <1>3, <1>4, <1>5 DEF AdminNext

LEMMA VerdictObserved ==
    ASSUME NEW s, NEW a
    PROVE  /\ Verdict(s, a) \in {"observed", "denied"}
           /\ Verdict(s, a) = "observed" => Authorized(s, a) /\ ~Conflicts(a)
PROOF
    BY DEF Verdict

LEMMA RecordEffectTypes ==
    ASSUME ReceiverTypeOK, NEW s, NEW a \in Actions, RecordEffect(s, a)
    PROVE  effects' \subseteq EffectRows /\ log' \in Seq(Events)
PROOF
<1> USE DEF ReceiverTypeOK
<1>1. CASE UNCHANGED <<effects, log>>
    BY <1>1
<1>2. CASE ~UNCHANGED <<effects, log>>
  <2>1. /\ Authorized(s, a)
        /\ effects' = effects \cup {EffectRow(s, a)}
        /\ log' = Append(log, Event("effect", sessions[s].credential, s))
    BY <1>2, VerdictObserved DEF RecordEffect
  <2>2. sessions[s] \in SessionRows /\ s \in Nat
    BY <2>1 DEF Authorized, SessionActive
  <2>3. EffectRow(s, a) \in EffectRows
    BY <2>2 DEF EffectRow, EffectRows, SessionRows
  <2>4. Event("effect", sessions[s].credential, s) \in Events
    BY <2>2 DEF Event, Events, SessionRows
  <2> QED
    BY <2>1, <2>3, <2>4, AppendEvent
<1> QED
    BY <1>1, <1>2

LEMMA HandlerTypes ==
    ASSUME ReceiverTypeOK, HandlerNext
    PROVE  ReceiverTypeOK' /\ UNCHANGED sessions
PROOF
<1> USE DEF ReceiverTypeOK
<1> PICK r \in Clients : Commit(r) \/ Answer(r) \/ Lose(r)
    BY DEF HandlerNext
<1>0. requests[r] \in Requests
    OBVIOUS
<1>1. CASE Commit(r)
  <2> DEFINE s == requests[r].session
             a == requests[r].action
  <2>1. a \in Actions
    BY <1>0 DEF Requests
  <2>2. RecordEffect(s, a)
    BY <1>1 DEF Commit
  <2>3. effects' \subseteq EffectRows /\ log' \in Seq(Events)
    BY <2>1, <2>2, RecordEffectTypes
  <2>4. requests' \in [Clients -> Requests]
    <3>1. requests' = [requests EXCEPT ![r].stage = "committed",
                                       ![r].reply = Verdict(s, a)]
      BY <1>1 DEF Commit
    <3>2. Verdict(s, a) \in {"observed", "denied"}
      BY VerdictObserved
    <3> HIDE DEF s, a
    <3> QED
      BY <3>1, <3>2, <1>0 DEF Requests, Stages
  <2> QED
    BY <1>1, <2>3, <2>4 DEF Commit
<1>2. CASE Answer(r)
  <2>1. requests' \in [Clients -> Requests]
    BY <1>2, <1>0 DEF Answer, Requests, Stages
  <2>2. dropNext' \in BOOLEAN
    BY <1>2 DEF Answer
  <2> QED
    BY <1>2, <2>1, <2>2 DEF Answer
<1>3. CASE Lose(r)
  <2>1. requests' \in [Clients -> Requests]
    BY <1>3, <1>0 DEF Lose, Requests, Stages
  <2> QED
    BY <1>3, <2>1 DEF Lose, storeVars
<1> QED
    BY <1>1, <1>2, <1>3

LEMMA LoginTypes ==
    ASSUME ReceiverTypeOK, NEW c \in Credentials, NEW ttl \in 1 .. MaxTime,
           Login(c, ttl)
    PROVE  /\ ReceiverTypeOK'
           /\ DOMAIN sessions' = DOMAIN sessions \cup {Len(sessions) + 1}
           /\ \A s \in DOMAIN sessions : sessions'[s] = sessions[s]
           /\ sessions'[Len(sessions) + 1].credential = c
           /\ Len(sessions) + 1 \notin DOMAIN sessions
           /\ Event("session", c, Len(sessions) + 1) \in Events
PROOF
<1> USE DEF ReceiverTypeOK
<1> DEFINE row == [credential |-> c, scope |-> credentials[c].scope,
                   expires |-> now + ttl, cancelled |-> FALSE]
<1>1. row \in SessionRows
    BY ReceiverAssumption DEF SessionRows, CredentialRows, Times
<1>2. sessions' = Append(sessions, row) /\ row.credential = c
    BY DEF Login
<1> HIDE DEF row
<1>3. /\ sessions' \in Seq(SessionRows)
      /\ DOMAIN sessions' = DOMAIN sessions \cup {Len(sessions) + 1}
      /\ \A s \in DOMAIN sessions : sessions'[s] = sessions[s]
      /\ sessions'[Len(sessions) + 1] = row
      /\ Len(sessions) + 1 \notin DOMAIN sessions
      /\ Len(sessions) + 1 \in Nat
    BY <1>1, <1>2
<1>4. Event("session", c, Len(sessions) + 1) \in Events
    BY <1>3 DEF Event, Events
<1>5. log' \in Seq(Events)
    BY <1>4, AppendEvent DEF Login
<1> QED
    BY <1>2, <1>3, <1>4, <1>5 DEF Login

\* Every way the receiver's state moves: its own handlers, with the bound on
\* the log left out, and the wire of its clients.
ReceiverMove ==
    \/ AdminNext
    \/ \E c \in Credentials :
            Revoke(c) /\ UNCHANGED <<now, dropNext, sessions, effects, requests>>
    \/ \E c \in Credentials, ttl \in 1 .. MaxTime : Login(c, ttl)
    \/ \E r \in Clients, s \in Nat, a \in Actions : Submit(r, s, a)
    \/ HandlerNext
    \/ \E r \in Clients : Close(r)
    \/ UNCHANGED receiverVars

LEMMA ReceiverMoves ==
    ASSUME ReceiverTypeOK, [ReceiverNext]_receiverVars
    PROVE  ReceiverMove
PROOF
<1>1. ASSUME NEW r \in Clients, NEW s \in DOMAIN sessions \cup {NoSession},
             NEW a \in Actions, Submit(r, s, a)
      PROVE  ReceiverMove
  <2>1. s \in Nat
    BY SessionType DEF NoSession
  <2> QED
    BY <1>1, <2>1 DEF ReceiverMove
<1> QED
    BY <1>1 DEF ReceiverNext, ReceiverMove

LEMMA MoveTypes ==
    ASSUME ReceiverTypeOK, ReceiverMove
    PROVE  ReceiverTypeOK'
PROOF
<1> USE DEF ReceiverTypeOK
<1>1. CASE AdminNext
    BY <1>1, AdminTypes
<1>2. ASSUME NEW c \in Credentials, Revoke(c),
             UNCHANGED <<now, dropNext, sessions, effects, requests>>
      PROVE  ReceiverTypeOK'
    BY <1>2, RevokeTypes
<1>3. ASSUME NEW c \in Credentials, NEW ttl \in 1 .. MaxTime, Login(c, ttl)
      PROVE  ReceiverTypeOK'
    BY <1>3, LoginTypes
<1>4. ASSUME NEW r \in Clients, NEW s \in Nat, NEW a \in Actions, Submit(r, s, a)
      PROVE  ReceiverTypeOK'
  <2>1. requests' \in [Clients -> Requests]
    BY <1>4 DEF Submit, Requests, Stages
  <2> QED
    BY <1>4, <2>1 DEF Submit, storeVars
<1>5. CASE HandlerNext
    BY <1>5, HandlerTypes
<1>6. ASSUME NEW r \in Clients, Close(r) PROVE ReceiverTypeOK'
  <2>1. requests' \in [Clients -> Requests]
    BY <1>6, ReceiverRows DEF Close
  <2> QED
    BY <1>6, <2>1 DEF Close, storeVars
<1>7. CASE UNCHANGED receiverVars
    BY <1>7 DEF receiverVars
<1> QED
    BY <1>1, <1>2, <1>3, <1>4, <1>5, <1>6, <1>7 DEF ReceiverMove

-----------------------------------------------------------------------------
\* What a move does to the tables the log is about.

SessionsGrow ==
    /\ DOMAIN sessions \subseteq DOMAIN sessions'
    /\ \A s \in DOMAIN sessions :
            /\ sessions'[s].credential = sessions[s].credential
            /\ sessions[s].cancelled => sessions'[s].cancelled

Unlogged ==
    /\ UNCHANGED <<log, sessions>>
    /\ \A c \in Credentials : credentials[c].status = "revoked" =>
            credentials'[c].status = "revoked"
LogsRevoke(c) == Revoke(c) /\ UNCHANGED sessions
LogsCancel(s) ==
    /\ log' = Append(log, Event("cancelled", sessions[s].credential, s))
    /\ DOMAIN sessions' = DOMAIN sessions
    /\ sessions'[s].cancelled
    /\ UNCHANGED credentials
LogsEffect(s, a) ==
    /\ Authorized(s, a)
    /\ log' = Append(log, Event("effect", sessions[s].credential, s))
    /\ UNCHANGED <<credentials, sessions>>
LogsLogin(c) ==
    /\ CredentialActive(c)
    /\ log' = Append(log, Event("session", c, Len(sessions) + 1))
    /\ Event("session", c, Len(sessions) + 1) \in Events
    /\ DOMAIN sessions' = DOMAIN sessions \cup {Len(sessions) + 1}
    /\ sessions'[Len(sessions) + 1].credential = c
    /\ UNCHANGED credentials

StoreMoves ==
    /\ SessionsGrow
    /\ \/ Unlogged
       \/ \E c \in Credentials : LogsRevoke(c)
       \/ \E s \in DOMAIN sessions : LogsCancel(s)
       \/ \E s \in DOMAIN sessions : \E a \in Actions : LogsEffect(s, a)
       \/ \E c \in Credentials : LogsLogin(c)

LEMMA QuietMove ==
    ASSUME UNCHANGED <<credentials, sessions, log>>
    PROVE  StoreMoves
PROOF
    BY DEF StoreMoves, SessionsGrow, Unlogged

LEMMA AdminMoves ==
    ASSUME ReceiverTypeOK, AdminNext
    PROVE  StoreMoves
PROOF
<1>1. ASSUME NEW c \in Credentials, NEW scope \in Scopes, NEW t \in Times,
             Issue(c, scope, t)
      PROVE  StoreMoves
    BY <1>1 DEF Issue, StoreMoves, SessionsGrow, Unlogged, ReceiverTypeOK
<1>2. ASSUME NEW c \in Credentials, AdminRevoke(c)
      PROVE  StoreMoves
    BY <1>2 DEF AdminRevoke, LogsRevoke, StoreMoves, SessionsGrow
<1>3. ASSUME NEW s \in DOMAIN sessions, Cancel(s)
      PROVE  StoreMoves
  <2>1. sessions[s] \in SessionRows
    BY DEF ReceiverTypeOK
  <2>2. SessionsGrow /\ LogsCancel(s)
    BY <1>3, <2>1, CancelTypes DEF Cancel, SessionsGrow, LogsCancel, SessionRows
  <2> QED
    BY <2>2 DEF StoreMoves
<1>4. ASSUME NEW t \in Times, Advance(t)
      PROVE  StoreMoves
    BY <1>4, QuietMove DEF Advance
<1>5. CASE DropNext
    BY <1>5, QuietMove DEF DropNext
<1> QED
    BY <1>1, <1>2, <1>3, <1>4, <1>5 DEF AdminNext

LEMMA HandlerMoves ==
    ASSUME ReceiverTypeOK, HandlerNext
    PROVE  StoreMoves
PROOF
<1> PICK r \in Clients : Commit(r) \/ Answer(r) \/ Lose(r)
    BY DEF HandlerNext
<1>1. CASE Commit(r)
  <2> DEFINE s == requests[r].session
             a == requests[r].action
  <2>1. a \in Actions
    BY DEF ReceiverTypeOK, Requests
  <2>2. RecordEffect(s, a) /\ UNCHANGED <<credentials, sessions>>
    BY <1>1 DEF Commit
  <2> HIDE DEF s, a
  <2>3. CASE UNCHANGED log
    BY <2>2, <2>3, QuietMove
  <2>4. CASE ~UNCHANGED log
    <3>1. LogsEffect(s, a)
      BY <2>2, <2>4, VerdictObserved DEF RecordEffect, LogsEffect
    <3>2. s \in DOMAIN sessions
      BY <3>1 DEF LogsEffect, Authorized, SessionActive
    <3> QED
      BY <3>1, <3>2, <2>1, <2>2 DEF StoreMoves, SessionsGrow
  <2> QED
    BY <2>3, <2>4
<1>2. CASE Answer(r)
    BY <1>2, QuietMove DEF Answer
<1>3. CASE Lose(r)
    BY <1>3, QuietMove DEF Lose, storeVars
<1> QED
    BY <1>1, <1>2, <1>3

LEMMA MovesAreLogged ==
    ASSUME ReceiverTypeOK, ReceiverMove
    PROVE  StoreMoves
PROOF
<1>1. ASSUME NEW c \in Credentials, Revoke(c), UNCHANGED sessions
      PROVE  StoreMoves
    BY <1>1 DEF LogsRevoke, StoreMoves, SessionsGrow
<1>2. ASSUME NEW c \in Credentials, NEW ttl \in 1 .. MaxTime, Login(c, ttl)
      PROVE  StoreMoves
  <2>1. SessionsGrow
    BY <1>2, LoginTypes DEF SessionsGrow
  <2>2. LogsLogin(c)
    BY <1>2, LoginTypes DEF LogsLogin, Login
  <2> QED
    BY <2>1, <2>2 DEF StoreMoves
<1>3. ASSUME NEW r \in Clients, NEW s \in Nat, NEW a \in Actions, Submit(r, s, a)
      PROVE  StoreMoves
    BY <1>3, QuietMove DEF Submit, storeVars
<1>4. ASSUME NEW r \in Clients, Close(r) PROVE StoreMoves
    BY <1>4, QuietMove DEF Close, storeVars
<1>5. CASE UNCHANGED receiverVars
    BY <1>5, QuietMove DEF receiverVars
<1> QED
    BY <1>1, <1>2, <1>3, <1>4, <1>5, AdminMoves, HandlerMoves DEF ReceiverMove

-----------------------------------------------------------------------------
\* The log.

LogInv ==
    /\ LoggedIsRevoked
    /\ RevocationFinal
    /\ SessionsAreLogged
    /\ LoginPrecedesRevocation
    /\ LoggedIsCancelled
    /\ CancelFinal

LogGrows ==
    /\ DOMAIN log \subseteq DOMAIN log'
    /\ \A i \in DOMAIN log : log'[i] = log[i]

LoggedInAtNext(k, c, s) ==
    /\ log'[k] = Event("session", c, s)
    /\ \A i \in DOMAIN log' :
            log'[i].kind = "revoked" /\ log'[i].credential = c => k < i

LEMMA LogUnlogged ==
    ASSUME ReceiverTypeOK, LogInv, Unlogged
    PROVE  LogGrows /\ LogInv'
PROOF
<1>0. \A i \in DOMAIN log : log[i] \in Events
    BY DEF ReceiverTypeOK
<1>1. UNCHANGED <<log, sessions>>
    BY DEF Unlogged
<1>2. LoggedIsRevoked'
    BY <1>0 DEF Unlogged, LogInv, LoggedIsRevoked, Events
<1>3. UNCHANGED <<RevocationFinal, SessionsAreLogged, LoginPrecedesRevocation,
                  LoggedIsCancelled, CancelFinal>>
    BY <1>1 DEF RevocationFinal, SessionsAreLogged, LoggedInAt,
        LoginPrecedesRevocation, LoggedIsCancelled, CancelFinal
<1> QED
    BY <1>1, <1>2, <1>3 DEF LogGrows, LogInv

LEMMA LogRevoke ==
    ASSUME ReceiverTypeOK, LogInv, NEW c \in Credentials, LogsRevoke(c)
    PROVE  LogGrows /\ LogInv'
PROOF
<1> DEFINE e == Event("revoked", c, NoSession)
<1>0. log \in Seq(Events) /\ \A i \in DOMAIN log : log[i] \in Events
    BY DEF ReceiverTypeOK
<1>1. e \in Events /\ e.kind = "revoked" /\ e.credential = c
    BY DEF Event, Events, NoSession
<1>2. log' = Append(log, e) /\ UNCHANGED sessions
    BY DEF LogsRevoke, Revoke
<1>3. /\ credentials'[c].status = "revoked"
      /\ \A d \in Credentials : d # c => credentials'[d] = credentials[d]
    BY DEF LogsRevoke, Revoke, ReceiverTypeOK, CredentialRows
<1> HIDE DEF e
<1>4. /\ LogGrows
      /\ Len(log) \in Nat
      /\ DOMAIN log = 1 .. Len(log)
      /\ DOMAIN log' = 1 .. Len(log) + 1
      /\ \A i \in DOMAIN log : log'[i] = log[i]
      /\ log'[Len(log) + 1] = e
    BY <1>0, <1>1, <1>2, AppendFacts DEF LogGrows
<1>5. LoggedIsRevoked'
    BY <1>0, <1>1, <1>3, <1>4 DEF LogInv, LoggedIsRevoked, Events
<1>6. RevocationFinal'
    BY <1>1, <1>4 DEF LogInv, RevocationFinal
<1>7. ASSUME NEW k \in DOMAIN log, NEW d, NEW s, LoggedInAt(k, d, s)
      PROVE  LoggedInAtNext(k, d, s)
    BY <1>4, <1>7 DEF LoggedInAt, LoggedInAtNext
<1>8. SessionsAreLogged'
    BY <1>2, <1>4, <1>7 DEF LogInv, SessionsAreLogged, LoggedInAt, LoggedInAtNext
<1>9. LoginPrecedesRevocation'
    BY <1>1, <1>4 DEF LogInv, LoginPrecedesRevocation
<1>10. LoggedIsCancelled' /\ CancelFinal'
    BY <1>0, <1>1, <1>2, <1>4 DEF LogInv, LoggedIsCancelled, CancelFinal, Events
<1> QED
    BY <1>4, <1>5, <1>6, <1>8, <1>9, <1>10 DEF LogInv

LEMMA LogCancel ==
    ASSUME ReceiverTypeOK, LogInv, SessionsGrow,
           NEW s \in DOMAIN sessions, LogsCancel(s)
    PROVE  LogGrows /\ LogInv'
PROOF
<1> DEFINE e == Event("cancelled", sessions[s].credential, s)
<1>0. log \in Seq(Events) /\ \A i \in DOMAIN log : log[i] \in Events
    BY DEF ReceiverTypeOK
<1>1. e \in Events /\ e.kind = "cancelled" /\ e.session = s
    BY SessionType DEF Event, Events
<1>2. log' = Append(log, e) /\ UNCHANGED credentials
    BY DEF LogsCancel
<1> HIDE DEF e
<1>4. /\ LogGrows
      /\ Len(log) \in Nat
      /\ DOMAIN log = 1 .. Len(log)
      /\ DOMAIN log' = 1 .. Len(log) + 1
      /\ \A i \in DOMAIN log : log'[i] = log[i]
      /\ log'[Len(log) + 1] = e
    BY <1>0, <1>1, <1>2, AppendFacts DEF LogGrows
<1>5. LoggedIsRevoked' /\ RevocationFinal'
    BY <1>1, <1>2, <1>4 DEF LogInv, LoggedIsRevoked, RevocationFinal
<1>7. ASSUME NEW k \in DOMAIN log, NEW d, NEW u, LoggedInAt(k, d, u)
      PROVE  LoggedInAtNext(k, d, u)
    BY <1>1, <1>4, <1>7 DEF LoggedInAt, LoggedInAtNext
<1>8. SessionsAreLogged'
    BY <1>4, <1>7
    DEF LogInv, SessionsAreLogged, LoggedInAt, LoggedInAtNext, SessionsGrow,
        LogsCancel
<1>9. LoginPrecedesRevocation'
    BY <1>1, <1>4 DEF LogInv, LoginPrecedesRevocation
<1>10. LoggedIsCancelled'
    BY <1>1, <1>4 DEF LogInv, LoggedIsCancelled, LogsCancel, SessionsGrow
<1>11. CancelFinal'
    BY <1>0, <1>1, <1>4 DEF LogInv, CancelFinal, Events
<1> QED
    BY <1>4, <1>5, <1>8, <1>9, <1>10, <1>11 DEF LogInv

LEMMA LogEffect ==
    ASSUME ReceiverTypeOK, LogInv,
           NEW s \in DOMAIN sessions, NEW a \in Actions, LogsEffect(s, a)
    PROVE  LogGrows /\ LogInv'
PROOF
<1> DEFINE c == sessions[s].credential
           e == Event("effect", c, s)
<1>0. log \in Seq(Events) /\ \A i \in DOMAIN log : log[i] \in Events
    BY DEF ReceiverTypeOK
<1>1. /\ e \in Events
      /\ e.kind = "effect" /\ e.credential = c /\ e.session = s
    BY SessionType DEF Event, Events
<1>2. /\ log' = Append(log, e)
      /\ UNCHANGED <<credentials, sessions>>
    BY DEF LogsEffect
<1>3. /\ Policy = "continuous" => credentials[c].status # "revoked"
      /\ ~sessions[s].cancelled
    BY DEF LogsEffect, Authorized, CredentialActive, SessionActive
<1> HIDE DEF c, e
<1>4. /\ LogGrows
      /\ Len(log) \in Nat
      /\ DOMAIN log = 1 .. Len(log)
      /\ DOMAIN log' = 1 .. Len(log) + 1
      /\ \A i \in DOMAIN log : log'[i] = log[i]
      /\ log'[Len(log) + 1] = e
    BY <1>0, <1>1, <1>2, AppendFacts DEF LogGrows
<1>5. LoggedIsRevoked'
    BY <1>1, <1>2, <1>4 DEF LogInv, LoggedIsRevoked
<1>6. RevocationFinal'
    BY <1>0, <1>1, <1>3, <1>4 DEF LogInv, LoggedIsRevoked, RevocationFinal
<1>7. ASSUME NEW k \in DOMAIN log, NEW d, NEW u, LoggedInAt(k, d, u)
      PROVE  LoggedInAtNext(k, d, u)
    BY <1>1, <1>4, <1>7 DEF LoggedInAt, LoggedInAtNext
<1>8. SessionsAreLogged'
    BY <1>2, <1>4, <1>7 DEF LogInv, SessionsAreLogged, LoggedInAt, LoggedInAtNext
<1>9. LoginPrecedesRevocation'
  <2>1. PICK k \in DOMAIN log : LoggedInAt(k, c, s)
    BY DEF LogInv, SessionsAreLogged, c
  <2>2. LoggedInAtNext(k, c, s) /\ k \in 1 .. (Len(log) + 1) - 1
    BY <1>4, <1>7, <2>1
  <2>3. ASSUME NEW j \in DOMAIN log, log'[j].kind = "effect"
        PROVE  \E n \in 1 .. j - 1 :
                  /\ log'[n] = Event("session", log'[j].credential, log'[j].session)
                  /\ \A i \in DOMAIN log' : log'[i].kind = "revoked"
                        /\ log'[i].credential = log'[j].credential => n < i
    BY <1>1, <1>4, <2>3 DEF LogInv, LoginPrecedesRevocation
  <2> QED
    BY <1>1, <1>4, <2>2, <2>3 DEF LoginPrecedesRevocation, LoggedInAtNext
<1>10. LoggedIsCancelled'
    BY <1>1, <1>2, <1>4 DEF LogInv, LoggedIsCancelled
<1>11. CancelFinal'
    BY <1>0, <1>1, <1>3, <1>4 DEF LogInv, LoggedIsCancelled, CancelFinal, Events
<1> QED
    BY <1>4, <1>5, <1>6, <1>8, <1>9, <1>10, <1>11 DEF LogInv

LEMMA LogLogin ==
    ASSUME ReceiverTypeOK, LogInv, SessionsGrow,
           NEW c \in Credentials, LogsLogin(c)
    PROVE  LogGrows /\ LogInv'
PROOF
<1> DEFINE n == Len(sessions) + 1
           e == Event("session", c, n)
<1>0. log \in Seq(Events) /\ \A i \in DOMAIN log : log[i] \in Events
    BY DEF ReceiverTypeOK
<1>1. e \in Events /\ e.kind = "session"
    BY DEF LogsLogin, Event
<1>2. log' = Append(log, e) /\ UNCHANGED credentials
    BY DEF LogsLogin
<1>3. /\ credentials[c].status # "revoked"
      /\ DOMAIN sessions' = DOMAIN sessions \cup {n}
      /\ sessions'[n].credential = c
    BY DEF LogsLogin, CredentialActive
<1>a. e = Event("session", c, n)
    OBVIOUS
<1> HIDE DEF e, n
<1>4. /\ LogGrows
      /\ Len(log) \in Nat
      /\ DOMAIN log = 1 .. Len(log)
      /\ DOMAIN log' = 1 .. Len(log) + 1
      /\ \A i \in DOMAIN log : log'[i] = log[i]
      /\ log'[Len(log) + 1] = e
    BY <1>0, <1>1, <1>2, AppendFacts DEF LogGrows
<1>5. LoggedIsRevoked' /\ RevocationFinal'
    BY <1>1, <1>2, <1>4 DEF LogInv, LoggedIsRevoked, RevocationFinal
<1>7. ASSUME NEW k \in DOMAIN log, NEW d, NEW u, LoggedInAt(k, d, u)
      PROVE  LoggedInAtNext(k, d, u)
    BY <1>1, <1>4, <1>7 DEF LoggedInAt, LoggedInAtNext
<1>8. SessionsAreLogged'
  <2>1. LoggedInAtNext(Len(log) + 1, c, n)
    BY <1>0, <1>1, <1>a, <1>3, <1>4 DEF LoggedInAtNext, LogInv, LoggedIsRevoked
  <2>2. Len(log) + 1 \in DOMAIN log'
    BY <1>4
  <2> QED
    BY <1>3, <1>4, <1>7, <2>1, <2>2
    DEF LogInv, SessionsAreLogged, LoggedInAt, LoggedInAtNext, SessionsGrow
<1>9. LoginPrecedesRevocation'
    BY <1>1, <1>4 DEF LogInv, LoginPrecedesRevocation
<1>10. LoggedIsCancelled'
    BY <1>1, <1>4 DEF LogInv, LoggedIsCancelled, SessionsGrow
<1>11. CancelFinal'
    BY <1>0, <1>1, <1>4 DEF LogInv, CancelFinal, Events
<1> QED
    BY <1>4, <1>5, <1>8, <1>9, <1>10, <1>11 DEF LogInv

LEMMA LogStep ==
    ASSUME ReceiverTypeOK, LogInv, StoreMoves
    PROVE  LogGrows /\ LogInv'
PROOF
    BY LogUnlogged, LogRevoke, LogCancel, LogEffect, LogLogin DEF StoreMoves

-----------------------------------------------------------------------------
\* One effect of a key, and what callers were told of it.

LEMMA CommitRecords ==
    ASSUME ReceiverTypeOK, OneEffectPerKey, ObservedIsRecorded,
           NEW r \in Clients, Commit(r)
    PROVE  OneEffectPerKey' /\ ObservedIsRecorded'
PROOF
<1> DEFINE s == requests[r].session
           a == requests[r].action
           verdict == Verdict(s, a)
<1>1. RecordEffect(s, a)
    BY DEF Commit
<1>2. requests' = [requests EXCEPT ![r].stage = "committed", ![r].reply = verdict]
    BY DEF Commit
<1>3. /\ requests \in [Clients -> Requests]
      /\ requests[r] \in Requests
    BY DEF ReceiverTypeOK
<1>4. requests'[r].action = a /\ requests'[r].reply = verdict
    BY <1>2, <1>3 DEF Requests
<1>5. verdict = "observed" => ~Conflicts(a)
    BY VerdictObserved
<1>6. EffectRow(s, a).action = a
    BY DEF EffectRow
<1>v. Verdict(s, a) = verdict
    OBVIOUS
<1> HIDE DEF s, a, verdict
<1>7. effects \subseteq effects'
    BY <1>1 DEF RecordEffect
<1>8. verdict = "observed" => \E e \in effects' : e.action = a
    BY <1>1, <1>5, <1>6, <1>v DEF RecordEffect, Delivered, Conflicts
<1>9. OneEffectPerKey'
    BY <1>1, <1>6 DEF RecordEffect, Delivered, OneEffectPerKey
<1>10. ASSUME NEW q \in Clients, requests'[q].reply = "observed"
       PROVE  \E e \in effects' : e.action = requests'[q].action
  <2>1. CASE q = r
    BY <2>1, <1>4, <1>8, <1>10
  <2>2. CASE q # r
    BY <2>2, <1>2, <1>3, <1>7, <1>10 DEF ObservedIsRecorded
  <2> QED
    BY <2>1, <2>2
<1> QED
    BY <1>9, <1>10 DEF ObservedIsRecorded

LEMMA EffectStep ==
    ASSUME ReceiverTypeOK, OneEffectPerKey, ObservedIsRecorded, ReceiverMove
    PROVE  OneEffectPerKey' /\ ObservedIsRecorded'
PROOF
<1> USE DEF ObservedIsRecorded
<1>0. requests \in [Clients -> Requests]
    BY DEF ReceiverTypeOK
<1>1. ASSUME UNCHANGED effects PROVE OneEffectPerKey'
    BY <1>1 DEF OneEffectPerKey
<1>2. ASSUME UNCHANGED <<effects, requests>> PROVE ObservedIsRecorded'
    BY <1>2
<1>3. CASE AdminNext
    BY <1>1, <1>2, <1>3 DEF AdminNext, Issue, AdminRevoke, Cancel, Advance, DropNext
<1>4. CASE HandlerNext
  <2> PICK r \in Clients : Commit(r) \/ Answer(r) \/ Lose(r)
    BY <1>4 DEF HandlerNext
  <2>1. CASE Answer(r)
    BY <2>1, <1>0, <1>1 DEF Answer, Requests
  <2>2. CASE Lose(r)
    BY <2>2, <1>0, <1>1 DEF Lose, storeVars, Requests
  <2> QED
    BY <2>1, <2>2, CommitRecords
<1>5. ASSUME NEW r \in Clients, NEW s \in Nat, NEW a \in Actions, Submit(r, s, a)
      PROVE  OneEffectPerKey' /\ ObservedIsRecorded'
    BY <1>5, <1>0, <1>1 DEF Submit, storeVars
<1>6. ASSUME NEW r \in Clients, Close(r)
      PROVE  OneEffectPerKey' /\ ObservedIsRecorded'
    BY <1>6, <1>0, <1>1 DEF Close, storeVars, FreeRequest
<1>7. ASSUME NEW c \in Credentials, NEW ttl \in 1 .. MaxTime, Login(c, ttl)
      PROVE  OneEffectPerKey' /\ ObservedIsRecorded'
    BY <1>1, <1>2, <1>7 DEF Login
<1> QED
    BY <1>1, <1>2, <1>3, <1>4, <1>5, <1>6, <1>7 DEF ReceiverMove, receiverVars

-----------------------------------------------------------------------------
\* The theorems.

LEMMA ReceiverInvUnfold ==
    ReceiverInv <=> ReceiverTypeOK /\ OneEffectPerKey /\ ObservedIsRecorded /\ LogInv
PROOF
    BY DEF ReceiverInv, LogInv

\* Whoever moves the receiver, its invariant is kept and its log only grows.
LEMMA MoveKeepsInv ==
    ASSUME ReceiverInv, ReceiverMove
    PROVE  ReceiverInv' /\ StoreMoves /\ LogGrows
PROOF
<1>1. ReceiverTypeOK /\ OneEffectPerKey /\ ObservedIsRecorded /\ LogInv
    BY ReceiverInvUnfold
<1>2. ReceiverTypeOK' /\ StoreMoves
    BY <1>1, MoveTypes, MovesAreLogged
<1>3. LogGrows /\ LogInv'
    BY <1>1, <1>2, LogStep
<1>4. OneEffectPerKey' /\ ObservedIsRecorded'
    BY <1>1, EffectStep
<1> QED
    BY <1>2, <1>3, <1>4 DEF ReceiverInv, LogInv

\* The inductive invariant of the receiver.
THEOREM ReceiverInvariance == ReceiverSpec => []ReceiverInv
PROOF
<1>1. ReceiverInit => ReceiverInv
  <2> SUFFICES ASSUME ReceiverInit PROVE ReceiverInv
    OBVIOUS
  <2>1. ReceiverTypeOK
    BY ReceiverInitTypes
  <2>2. DOMAIN log = {} /\ DOMAIN sessions = {} /\ effects = {}
    BY DEF ReceiverInit
  <2>3. \A r \in Clients : requests[r].reply = "none"
    BY DEF ReceiverInit, FreeRequest
  <2>4. OneEffectPerKey /\ ObservedIsRecorded
    BY <2>2, <2>3 DEF OneEffectPerKey, ObservedIsRecorded
  <2>5. LogInv
    BY <2>2 DEF LogInv, LoggedIsRevoked, RevocationFinal, SessionsAreLogged,
        LoginPrecedesRevocation, LoggedIsCancelled, CancelFinal
  <2> QED
    BY <2>1, <2>4, <2>5, ReceiverInvUnfold
<1>2. ReceiverInv /\ [ReceiverNext]_receiverVars => ReceiverInv'
    BY ReceiverMoves, MoveKeepsInv DEF ReceiverInv
<1> QED
    BY <1>1, <1>2, PTL DEF ReceiverSpec

\* Store.send records one effect of an action's key, whatever connections,
\* sessions and retries carry it, and tells no caller of an effect that is not
\* on record with the body it sent.
THEOREM EffectsRecorded == ReceiverSpec => []EffectsAreRecorded
PROOF
<1>1. ReceiverInv => EffectsAreRecorded
    BY DEF ReceiverInv, EffectsAreRecorded
<1> QED
    BY <1>1, ReceiverInvariance, PTL

\* Every effect is of a session that logged in before it and before each
\* revocation of its credential, under the snapshot policy too.
THEOREM LoginComesFirst == ReceiverSpec => []LoginPrecedesRevocation
PROOF
<1>1. ReceiverInv => LoginPrecedesRevocation
    BY DEF ReceiverInv
<1> QED
    BY <1>1, ReceiverInvariance, PTL

\* No effect of a session follows its cancellation in the log.
THEOREM CancellationIsFinal == ReceiverSpec => []CancelFinal
PROOF
<1>1. ReceiverInv => CancelFinal
    BY DEF ReceiverInv
<1> QED
    BY <1>1, ReceiverInvariance, PTL

=============================================================================
