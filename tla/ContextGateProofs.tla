-------------------------- MODULE ContextGateProofs --------------------------
(***************************************************************************)
(* Safety of the context gate for every set of actions, actors, source     *)
(* labels and sessions, every registry and every budget.                   *)
(***************************************************************************)
EXTENDS ContextGate, FiniteSetTheorems, TLAPS

-----------------------------------------------------------------------------
\* The inductive invariant.

\* A session that is inside dispatch, between its two transactions.
Busy(k) == handles[k].step \in {"admitted", "sent", "answered"}

\* A dispatch under way holds a reservation of its own, which only it hands
\* over, and what it is about to record is what the host made of it.
CallsAreReserved ==
    \A k \in Handles : Busy(k) =>
        LET a == handles[k].action
        IN  /\ attempts[a] = "unknown"
            /\ \A j \in Handles : Busy(j) /\ handles[j].action = a => j = k
            /\ handles[k].step = "admitted" => handed[a] = 0
            /\ handles[k].step = "answered" =>
                /\ handles[k].status = "observed" => a \in delivered
                /\ handles[k].status = "blocked" => a \in refused

\* The ledger is ahead of the hosts: nothing is handed over before it is
\* reserved, or carried out before it is handed over, and what the ledger has
\* settled is so.
LedgerIsAhead ==
    /\ \A a \in ActionIds :
        /\ handed[a] <= 1
        /\ attempts[a] = "none" => handed[a] = 0
        /\ attempts[a] = "observed" => a \in delivered
        /\ attempts[a] = "blocked" => a \in refused
    /\ refused \cap delivered = {}

ReservedWithin == IsFiniteSet(Reserved) /\ Cardinality(Reserved) <= Budget

IInv ==
    /\ ContextTypeOK
    /\ LineageNarrows
    /\ CallsAreReserved
    /\ LedgerIsAhead
    /\ ReservedWithin

-----------------------------------------------------------------------------
\* Types.

LEMMA DefaultRows ==
    NoHandle \in HandleStates /\ NoGrant \in Grants /\ RootGrant \in Grants
PROOF
<1>1. Root \in Actors /\ FirstSource \in Sources
    BY ContextAssumption DEF Actors
<1>2. (CHOOSE a \in ActionIds : TRUE) \in ActionIds
    BY ContextAssumption
<1>3. NoHandle \in HandleStates
    BY <1>1, <1>2 DEF NoHandle, HandleStates, HandleSteps, Outcomes
<1>4. NoGrant \in Grants
    BY <1>1 DEF NoGrant, Grants
<1>5. RootGrant \in Grants
    BY <1>1 DEF RootGrant, NoGrant, Grants
<1> QED
    BY <1>3, <1>4, <1>5

LEMMA AdminTypes == ContextTypeOK /\ AdminNext => ContextTypeOK'
PROOF
<1> SUFFICES ASSUME ContextTypeOK, AdminNext PROVE ContextTypeOK'
    OBVIOUS
<1> USE DEF ContextTypeOK
<1>1. /\ UNCHANGED <<attempts, handles, handed, delivered, refused>>
      /\ revision' = revision + 1
    BY DEF AdminNext, RecordFact, ChangeSource, Revoke, hostState
<1>2. source' \in Sources /\ blocking' \in BOOLEAN
    BY DEF AdminNext, RecordFact, ChangeSource, Revoke
<1>3. grants' \in [Actors -> Grants]
  <2>1. CASE \E b \in BOOLEAN : RecordFact(b)
    BY <2>1 DEF RecordFact
  <2>2. CASE \E t \in Sources : ChangeSource(t)
    <3>1. grants' = [x \in Actors |->
              [grants[x] EXCEPT !.revoked = @ \/ grants[x].granted]]
      BY <2>2 DEF ChangeSource
    <3>2. ASSUME NEW x \in Actors
          PROVE  [grants[x] EXCEPT !.revoked = @ \/ grants[x].granted] \in Grants
      BY DEF Grants
    <3> QED
      BY <3>1, <3>2
  <2>3. ASSUME NEW x \in Actors, Revoke(x) PROVE grants' \in [Actors -> Grants]
    BY <2>3 DEF Revoke, Grants
  <2> QED
    BY <2>1, <2>2, <2>3 DEF AdminNext
<1> QED
    BY <1>1, <1>2, <1>3

LEMMA SessionTypes ==
    ASSUME ContextTypeOK, NEW k \in Handles, SessionNext(k)
    PROVE  ContextTypeOK'
PROOF
<1> USE DEF ContextTypeOK
<1>1. handles[k] \in HandleStates
    OBVIOUS
<1>2. ASSUME NEW x \in Actors, NEW checkpoint \in 0 .. revision,
             Resume(k, x, checkpoint)
      PROVE  ContextTypeOK'
  <2>1. Active(x) \in BOOLEAN
    BY DEF Active
  <2>2. [NoHandle EXCEPT !.step = "ready", !.actor = x, !.source = source,
             !.allowed = (checkpoint = revision /\ Active(x))] \in HandleStates
    BY <2>1, DefaultRows DEF HandleStates, HandleSteps
  <2> QED
    BY <1>2, <2>2 DEF Resume, ledger, hostState
<1>3. ASSUME NEW child \in Children, NEW actions \in SUBSET ActionIds,
             Delegate(k, child, actions)
      PROVE  ContextTypeOK'
  <2> DEFINE x == handles[k].actor
             row == [granted |-> TRUE, parent |-> x, actions |-> actions,
                     depth |-> grants[x].depth + 1, source |-> handles[k].source,
                     revoked |-> FALSE]
  <2>1. x \in Actors /\ handles[k].source \in Sources
    BY DEF HandleStates
  <2>2. grants[x].depth + 1 \in Nat
    BY <2>1 DEF Grants
  <2>3. row \in Grants
    BY <2>1, <2>2 DEF Grants
  <2>4. /\ grants' = [grants EXCEPT ![child] = row]
        /\ revision' = revision + 1
        /\ UNCHANGED <<source, blocking, attempts, handles, handed, delivered, refused>>
    BY <1>3 DEF Delegate, hostState
  <2> HIDE DEF row
  <2>5. grants' \in [Actors -> Grants]
    BY <2>3, <2>4
  <2> QED
    BY <2>4, <2>5
<1>4. ASSUME NEW a \in ActionIds, Admit(k, a) PROVE ContextTypeOK'
  <2>1. /\ attempts' = [attempts EXCEPT ![a] = "unknown"]
        /\ handles' = [handles EXCEPT ![k] =
                [handles[k] EXCEPT !.step = "admitted", !.action = a]]
        /\ revision' = revision + 1
        /\ UNCHANGED <<source, grants, blocking, handed, delivered, refused>>
    BY <1>4 DEF Admit, hostState
  <2>2. [handles[k] EXCEPT !.step = "admitted", !.action = a] \in HandleStates
    BY <1>1 DEF HandleStates, HandleSteps
  <2>3. attempts' \in [ActionIds -> {"none"} \cup Outcomes]
    BY <2>1 DEF Outcomes
  <2>4. handles' \in [Handles -> HandleStates]
    BY <2>1, <2>2
  <2> QED
    BY <2>1, <2>3, <2>4
<1>5. CASE HandOver(k)
    BY <1>1, <1>5 DEF HandOver, HandleStates, HandleSteps, ledger
<1>6. CASE HostAnswers(k)
    BY <1>1, <1>6 DEF HostAnswers, Answer, HandleStates, HandleSteps, Outcomes, ledger
<1>7. CASE Record(k)
    BY <1>1, <1>7 DEF Record, HandleStates, HandleSteps, hostState
<1>8. CASE Crash(k)
    BY <1>8, DefaultRows DEF Crash, ledger, hostState
<1> QED
    BY <1>2, <1>3, <1>4, <1>5, <1>6, <1>7, <1>8 DEF SessionNext

LEMMA StepTypes == ContextTypeOK /\ [Next]_contextVars => ContextTypeOK'
PROOF
<1>1. ASSUME ContextTypeOK, NEW a \in ActionIds, Deliver(a) PROVE ContextTypeOK'
    BY <1>1 DEF ContextTypeOK, Deliver, ledger
<1>2. ASSUME ContextTypeOK, UNCHANGED contextVars PROVE ContextTypeOK'
    BY <1>2 DEF ContextTypeOK, contextVars
<1> QED
    BY <1>1, <1>2, AdminTypes, SessionTypes DEF Next

-----------------------------------------------------------------------------
\* Delegation.

\* A path to the root starts at a grant that is good itself.
LEMMA ActiveIsGood == \A x \in Actors : Active(x) => Good(x)
PROOF
    BY DEF Active

LEMMA DelegateNarrows ==
    ASSUME ContextTypeOK, LineageNarrows, NEW k \in Handles,
           NEW child \in Children, NEW actions \in SUBSET ActionIds,
           Delegate(k, child, actions)
    PROVE  LineageNarrows'
PROOF
<1> DEFINE x == handles[k].actor
<1>1. /\ x \in Actors
      /\ \A y \in Actors : grants[y].depth \in Nat
      /\ child \in Actors
    BY DEF ContextTypeOK, HandleStates, Grants, Actors
<1>2. /\ Registry[child] = [parent |-> x, ours |-> TRUE]
      /\ grants[x].depth < 2
      /\ actions \subseteq grants[x].actions
      /\ ~grants[child].granted
      /\ Active(x)
    BY DEF Delegate, Delegable, Authority
<1>3. grants[x].granted /\ x # child
    BY <1>1, <1>2, ActiveIsGood DEF Good
<1>4. /\ grants'[child].granted /\ grants'[child].parent = x
      /\ grants'[child].actions = actions
      /\ grants'[child].depth = grants[x].depth + 1
      /\ \A y \in Actors : y # child => grants'[y] = grants[y]
    BY <1>1 DEF Delegate, ContextTypeOK
<1> HIDE DEF x
<1> SUFFICES ASSUME NEW y \in Children, grants'[y].granted
             PROVE  /\ Registry[y] = [parent |-> grants'[y].parent, ours |-> TRUE]
                    /\ grants'[grants'[y].parent].granted
                    /\ grants'[y].actions \subseteq grants'[grants'[y].parent].actions
                    /\ grants'[y].depth = grants'[grants'[y].parent].depth + 1
                    /\ grants'[y].depth <= 2
    BY DEF LineageNarrows
<1>5. CASE y = child
  <2>1. grants'[x] = grants[x] /\ grants'[y].parent = x
    BY <1>1, <1>3, <1>4, <1>5
  <2>2. grants'[y].depth <= 2
    BY <1>1, <1>2, <1>4, <1>5
  <2> QED
    BY <1>2, <1>3, <1>4, <1>5, <2>1, <2>2
<1>6. CASE y # child
  <2>1. grants'[y] = grants[y] /\ y \in Actors /\ grants[y].parent \in Actors
    BY <1>4, <1>6 DEF ContextTypeOK, Grants, Actors
  <2>2. grants[grants[y].parent].granted
    BY <2>1 DEF LineageNarrows
  <2>3. grants'[grants[y].parent] = grants[grants[y].parent]
    BY <1>2, <1>4, <2>1, <2>2
  <2> QED
    BY <2>1, <2>3 DEF LineageNarrows
<1> QED
    BY <1>5, <1>6

LEMMA LineageStep ==
    ContextTypeOK /\ LineageNarrows /\ [Next]_contextVars => LineageNarrows'
PROOF
<1> SUFFICES ASSUME ContextTypeOK, LineageNarrows, [Next]_contextVars
             PROVE  LineageNarrows'
    OBVIOUS
<1>1. ASSUME \A x \in Actors : /\ grants'[x].granted = grants[x].granted
                               /\ grants'[x].parent = grants[x].parent
                               /\ grants'[x].actions = grants[x].actions
                               /\ grants'[x].depth = grants[x].depth
      PROVE  LineageNarrows'
    BY <1>1 DEF LineageNarrows, ContextTypeOK, Grants, Actors
<1>2. ASSUME UNCHANGED grants PROVE LineageNarrows'
    BY <1>1, <1>2
<1>3. ASSUME NEW t \in Sources, ChangeSource(t) PROVE LineageNarrows'
    BY <1>1, <1>3 DEF ChangeSource, ContextTypeOK, Grants
<1>4. ASSUME NEW x \in Actors, Revoke(x) PROVE LineageNarrows'
    BY <1>1, <1>4 DEF Revoke, ContextTypeOK, Grants
<1>5. ASSUME NEW k \in Handles, SessionNext(k) PROVE LineageNarrows'
    BY <1>2, <1>5, DelegateNarrows DEF SessionNext, Resume, Admit, HandOver,
        HostAnswers, Record, Crash, ledger
<1>6. CASE \/ \E b \in BOOLEAN : RecordFact(b)
           \/ \E a \in ActionIds : Deliver(a)
           \/ UNCHANGED contextVars
    BY <1>2, <1>6 DEF RecordFact, Deliver, ledger, contextVars
<1> QED
    BY <1>3, <1>4, <1>5, <1>6 DEF Next, AdminNext

-----------------------------------------------------------------------------
\* Dispatch.

LEMMA CallsQuiet ==
    ASSUME CallsAreReserved, LedgerIsAhead,
           UNCHANGED <<attempts, handles, handed, delivered, refused>>
    PROVE  CallsAreReserved' /\ LedgerIsAhead'
PROOF
    BY DEF CallsAreReserved, LedgerIsAhead, Busy

\* A session that is opened, or whose process dies, is in no call.
LEMMA CallLeaves ==
    ASSUME CallsAreReserved, LedgerIsAhead, NEW k \in Handles,
           UNCHANGED <<attempts, handed, delivered, refused>>,
           \A j \in Handles : j # k => handles'[j] = handles[j],
           handles'[k].step \in {"none", "ready"}
    PROVE  CallsAreReserved' /\ LedgerIsAhead'
PROOF
    BY DEF CallsAreReserved, LedgerIsAhead, Busy

LEMMA AdmitReservesCall ==
    ASSUME ContextTypeOK, CallsAreReserved, LedgerIsAhead,
           NEW k \in Handles, NEW a \in ActionIds, Admit(k, a)
    PROVE  CallsAreReserved' /\ LedgerIsAhead'
PROOF
<1>1. /\ handles'[k].step = "admitted" /\ handles'[k].action = a
      /\ \A j \in Handles : j # k => handles'[j] = handles[j]
    BY DEF Admit, ContextTypeOK, HandleStates
<1>2. /\ attempts[a] = "none" /\ attempts'[a] = "unknown"
      /\ \A b \in ActionIds : b # a => attempts'[b] = attempts[b]
      /\ UNCHANGED <<handed, delivered, refused>>
    BY DEF Admit, ContextTypeOK, hostState
<1>3. \A j \in Handles : handles[j].action \in ActionIds
    BY DEF ContextTypeOK, HandleStates
<1>4. handed[a] = 0
    BY <1>2 DEF LedgerIsAhead
<1>5. \A j \in Handles : Busy(j) => handles[j].action # a
    BY <1>2 DEF CallsAreReserved
<1>6. CallsAreReserved'
    BY <1>1, <1>2, <1>3, <1>4, <1>5 DEF CallsAreReserved, Busy
<1>7. LedgerIsAhead'
    BY <1>2 DEF LedgerIsAhead
<1> QED
    BY <1>6, <1>7

LEMMA HandOverOnce ==
    ASSUME ContextTypeOK, CallsAreReserved, LedgerIsAhead,
           NEW k \in Handles, HandOver(k)
    PROVE  CallsAreReserved' /\ LedgerIsAhead'
PROOF
<1> DEFINE a == handles[k].action
<1>1. /\ handles[k].step = "admitted" /\ handles'[k].step = "sent"
      /\ handles'[k].action = a
      /\ \A j \in Handles : j # k => handles'[j] = handles[j]
    BY DEF HandOver, ContextTypeOK, HandleStates
<1>2. /\ a \in ActionIds
      /\ handed'[a] = handed[a] + 1
      /\ \A b \in ActionIds : b # a => handed'[b] = handed[b]
      /\ UNCHANGED <<attempts, delivered, refused>>
    BY DEF HandOver, ContextTypeOK, HandleStates, ledger
<1>3. \A j \in Handles : handles[j].action \in ActionIds
    BY DEF ContextTypeOK, HandleStates
<1>4. /\ attempts[a] = "unknown" /\ handed[a] = 0
      /\ \A j \in Handles : Busy(j) /\ handles[j].action = a => j = k
    BY <1>1 DEF CallsAreReserved, Busy
<1> HIDE DEF a
<1>5. CallsAreReserved'
    BY <1>1, <1>2, <1>3, <1>4 DEF CallsAreReserved, Busy
<1>6. LedgerIsAhead'
    BY <1>2, <1>4 DEF LedgerIsAhead
<1> QED
    BY <1>5, <1>6

LEMMA AnswerIsTrue ==
    ASSUME ContextTypeOK, CallsAreReserved, LedgerIsAhead,
           NEW k \in Handles, HostAnswers(k)
    PROVE  CallsAreReserved' /\ LedgerIsAhead'
PROOF
<1> DEFINE a == handles[k].action
<1>1. /\ handles[k].step = "sent" /\ handles'[k].step = "answered"
      /\ handles'[k].action = a
      /\ \A j \in Handles : j # k => handles'[j] = handles[j]
    BY DEF HostAnswers, Answer, ContextTypeOK, HandleStates
<1>2. /\ handles'[k].status = "observed" => a \in delivered
      /\ handles'[k].status = "blocked" => a \in refused'
      /\ refused \subseteq refused' /\ refused' \cap delivered = {}
      /\ UNCHANGED <<attempts, handed, delivered>>
    BY DEF HostAnswers, Answer, ContextTypeOK, HandleStates, ledger, LedgerIsAhead
<1>3. /\ attempts[a] = "unknown"
      /\ \A j \in Handles : Busy(j) /\ handles[j].action = a => j = k
    BY <1>1 DEF CallsAreReserved, Busy
<1> HIDE DEF a
<1>4. CallsAreReserved'
    BY <1>1, <1>2, <1>3 DEF CallsAreReserved, Busy
<1>5. LedgerIsAhead'
    BY <1>2 DEF LedgerIsAhead
<1> QED
    BY <1>4, <1>5

LEMMA RecordIsTrue ==
    ASSUME ContextTypeOK, CallsAreReserved, LedgerIsAhead,
           NEW k \in Handles, Record(k)
    PROVE  /\ CallsAreReserved' /\ LedgerIsAhead'
           /\ UNCHANGED Reserved
PROOF
<1> DEFINE a == handles[k].action
<1>1. /\ handles[k].step = "answered" /\ handles'[k].step = "ready"
      /\ \A j \in Handles : j # k => handles'[j] = handles[j]
    BY DEF Record, ContextTypeOK, HandleStates
<1>2. /\ a \in ActionIds /\ handles[k].status \in Outcomes
      /\ attempts'[a] = handles[k].status
      /\ \A b \in ActionIds : b # a => attempts'[b] = attempts[b]
      /\ UNCHANGED <<handed, delivered, refused>>
    BY DEF Record, ContextTypeOK, HandleStates, hostState
<1>3. /\ attempts[a] = "unknown"
      /\ \A j \in Handles : Busy(j) /\ handles[j].action = a => j = k
      /\ handles[k].status = "observed" => a \in delivered
      /\ handles[k].status = "blocked" => a \in refused
    BY <1>1 DEF CallsAreReserved, Busy
<1>4. \A j \in Handles : handles[j].action \in ActionIds
    BY DEF ContextTypeOK, HandleStates
<1> HIDE DEF a
<1>5. CallsAreReserved'
    BY <1>1, <1>2, <1>3, <1>4 DEF CallsAreReserved, Busy
<1>6. LedgerIsAhead'
    BY <1>2, <1>3 DEF LedgerIsAhead, Outcomes
<1>7. UNCHANGED Reserved
    BY <1>2, <1>3 DEF Reserved, Outcomes
<1> QED
    BY <1>5, <1>6, <1>7

LEMMA DeliverIsHanded ==
    ASSUME CallsAreReserved, LedgerIsAhead, NEW a \in ActionIds, Deliver(a)
    PROVE  CallsAreReserved' /\ LedgerIsAhead'
PROOF
<1>1. /\ delivered' = delivered \cup {a} /\ a \notin refused
      /\ UNCHANGED <<attempts, handles, handed, refused>>
    BY DEF Deliver, ledger
<1>2. CallsAreReserved'
    BY <1>1 DEF CallsAreReserved, Busy
<1>3. LedgerIsAhead'
    BY <1>1 DEF LedgerIsAhead
<1> QED
    BY <1>2, <1>3

LEMMA CallsStep ==
    ContextTypeOK /\ CallsAreReserved /\ LedgerIsAhead /\ [Next]_contextVars
        => CallsAreReserved' /\ LedgerIsAhead'
PROOF
<1> SUFFICES ASSUME ContextTypeOK, CallsAreReserved, LedgerIsAhead,
                    [Next]_contextVars
             PROVE  CallsAreReserved' /\ LedgerIsAhead'
    OBVIOUS
<1>1. CASE AdminNext \/ UNCHANGED contextVars
    BY <1>1, CallsQuiet DEF AdminNext, RecordFact, ChangeSource, Revoke, hostState,
        contextVars
<1>2. ASSUME NEW k \in Handles, SessionNext(k)
      PROVE  CallsAreReserved' /\ LedgerIsAhead'
  <2>1. ASSUME NEW x \in Actors, NEW checkpoint \in 0 .. revision,
               Resume(k, x, checkpoint)
        PROVE  CallsAreReserved' /\ LedgerIsAhead'
    BY <2>1, CallLeaves DEF Resume, ContextTypeOK, NoHandle, ledger, hostState
  <2>2. ASSUME NEW child \in Children, NEW actions \in SUBSET ActionIds,
               Delegate(k, child, actions)
        PROVE  CallsAreReserved' /\ LedgerIsAhead'
    BY <2>2, CallsQuiet DEF Delegate, hostState
  <2>3. CASE Crash(k)
    BY <2>3, CallLeaves DEF Crash, ContextTypeOK, NoHandle, ledger, hostState
  <2> QED
    BY <1>2, <2>1, <2>2, <2>3, AdmitReservesCall, HandOverOnce, AnswerIsTrue,
        RecordIsTrue DEF SessionNext
<1> QED
    BY <1>1, <1>2, DeliverIsHanded DEF Next

\* Only an admission reserves, and it looks at the budget first.
LEMMA OnlyAdmitReserves ==
    ASSUME ContextTypeOK, CallsAreReserved, LedgerIsAhead, [Next]_contextVars,
           ~\E k \in Handles, a \in ActionIds : Admit(k, a)
    PROVE  UNCHANGED Reserved
PROOF
<1>1. ASSUME UNCHANGED attempts PROVE UNCHANGED Reserved
    BY <1>1 DEF Reserved
<1>2. CASE \E k \in Handles : Record(k)
    BY <1>2, RecordIsTrue
<1>3. CASE ~\E k \in Handles : Record(k)
    BY <1>1, <1>3 DEF Next, AdminNext, SessionNext, RecordFact, ChangeSource, Revoke,
        Resume, Delegate, HandOver, HostAnswers, Crash, Deliver, ledger, contextVars
<1> QED
    BY <1>2, <1>3

LEMMA BudgetStep ==
    ASSUME ContextTypeOK, CallsAreReserved, LedgerIsAhead, ReservedWithin,
           [Next]_contextVars
    PROVE  ReservedWithin'
PROOF
<1>1. ASSUME NEW k \in Handles, NEW a \in ActionIds, Admit(k, a)
      PROVE  ReservedWithin'
  <2>1. Reserved' = Reserved \cup {a}
    BY <1>1 DEF Admit, Reserved, ContextTypeOK
  <2>2. IsFiniteSet(Reserved) /\ Cardinality(Reserved) < Budget
    BY <1>1 DEF Admit, Affordable, ReservedWithin
  <2>3. Cardinality(Reserved) \in Nat
    BY <2>2, FS_CardinalityType
  <2>4. IsFiniteSet(Reserved') /\ Cardinality(Reserved') <= Cardinality(Reserved) + 1
    BY <2>1, <2>2, <2>3, FS_AddElement
  <2>5. Cardinality(Reserved') \in Nat
    BY <2>4, FS_CardinalityType
  <2> QED
    BY <2>2, <2>3, <2>4, <2>5, ContextAssumption DEF ReservedWithin
<1>2. ASSUME UNCHANGED Reserved PROVE ReservedWithin'
    BY <1>2 DEF ReservedWithin
<1> QED
    BY <1>1, <1>2, OnlyAdmitReserves

-----------------------------------------------------------------------------
\* The invariant holds.

LEMMA InitInv == Init => IInv
PROOF
<1> SUFFICES ASSUME Init PROVE IInv
    OBVIOUS
<1>1. ContextTypeOK
  <2>1. grants \in [Actors -> Grants] /\ handles \in [Handles -> HandleStates]
    BY DefaultRows DEF Init
  <2>2. source \in Sources /\ revision \in Nat /\ blocking \in BOOLEAN
    BY ContextAssumption DEF Init
  <2>3. /\ attempts \in [ActionIds -> {"none"} \cup Outcomes]
        /\ handed \in [ActionIds -> Nat]
        /\ delivered \subseteq ActionIds /\ refused \subseteq ActionIds
    BY DEF Init
  <2> QED
    BY <2>1, <2>2, <2>3 DEF ContextTypeOK
<1>2. LineageNarrows
    BY ContextAssumption DEF Init, LineageNarrows, Actors, NoGrant
<1>3. CallsAreReserved
    BY DEF Init, CallsAreReserved, Busy, NoHandle
<1>4. LedgerIsAhead
    BY DEF Init, LedgerIsAhead
<1>5. ReservedWithin
  <2>1. Reserved = {}
    BY DEF Init, Reserved
  <2> QED
    BY <2>1, FS_EmptySet, ContextAssumption DEF ReservedWithin
<1> QED
    BY <1>1, <1>2, <1>3, <1>4, <1>5 DEF IInv

LEMMA StepInv == IInv /\ [Next]_contextVars => IInv'
PROOF
    BY StepTypes, LineageStep, CallsStep, BudgetStep DEF IInv

\* The strengthening of the theorems below is an invariant.
THEOREM Invariance == Spec => []IInv
PROOF
    BY InitInv, StepInv, PTL DEF Spec

\* Whatever the registry, the sessions and the crashes, a delegated grant never
\* holds what its parent does not, and the hosts are handed at most Budget
\* distinct actions, each of them once and after its reservation.
THEOREM AuthorityBounded == Spec => []AuthorityIsBounded
PROOF
<1>1. IInv => AuthorityIsBounded
  <2> SUFFICES ASSUME IInv PROVE BudgetHolds
    BY DEF IInv, AuthorityIsBounded
  <2>1. ASSUME NEW a \in ActionIds
        PROVE  handed[a] <= 1 /\ (handed[a] > 0 => a \in Reserved)
    BY DEF IInv, ContextTypeOK, LedgerIsAhead, Reserved
  <2>2. Cardinality(Reserved) <= Budget
    BY DEF IInv, ReservedWithin
  <2> QED
    BY <2>1, <2>2 DEF BudgetHolds
<1> QED
    BY <1>1, Invariance, PTL

-----------------------------------------------------------------------------
\* What a step may never do.

\* The path that makes an actor active goes through its registered ancestors.
LEMMA ActiveAncestors ==
    ASSUME LineageNarrows, NEW x \in Actors, Active(x)
    PROVE  \A y \in Ancestors(x) : ~grants[y].revoked
PROOF
<1>1. PICK path \in SUBSET Actors :
          /\ x \in path
          /\ \A y \in path : Good(y) /\ (y # Root => grants[y].parent \in path)
    BY DEF Active
<1>2. ASSUME NEW y \in path \cap Children PROVE Registry[y].parent \in path
  <2>1. y # Root /\ grants[y].granted /\ grants[y].parent \in path
    BY <1>1, ContextAssumption DEF Good
  <2>2. Registry[y] = [parent |-> grants[y].parent, ours |-> TRUE]
    BY <2>1 DEF LineageNarrows
  <2> QED
    BY <2>1, <2>2
<1>3. Ancestors(x) \subseteq path
  <2> DEFINE up(S) == S \cup {Registry[y].parent : y \in S \cap Children}
  <2>1. ASSUME NEW S \in SUBSET path PROVE up(S) \subseteq path
    BY <1>2
  <2>2. {x} \subseteq path
    BY <1>1
  <2>3. Ancestors(x) = up(up({x}))
    BY DEF Ancestors
  <2> HIDE DEF up
  <2>4. up({x}) \subseteq path
    BY <2>1, <2>2
  <2> QED
    BY <2>1, <2>3, <2>4
<1> QED
    BY <1>1, <1>3 DEF Good

LEMMA OnlyAdmitAdmits ==
    ASSUME ContextTypeOK, NEW k \in Handles, [Next]_contextVars,
           handles[k].step = "ready", handles'[k].step = "admitted"
    PROVE  Authority(k)
PROOF
<1>1. CASE AdminNext \/ (\E a \in ActionIds : Deliver(a)) \/ UNCHANGED contextVars
    BY <1>1 DEF AdminNext, RecordFact, ChangeSource, Revoke, Deliver, contextVars
<1>2. ASSUME NEW j \in Handles, j # k, SessionNext(j) PROVE handles'[k] = handles[k]
    BY <1>2 DEF SessionNext, Resume, Delegate, Admit, HandOver, HostAnswers, Answer,
        Record, Crash, ContextTypeOK
<1>3. ASSUME SessionNext(k), ~\E a \in ActionIds : Admit(k, a)
      PROVE  handles'[k].step # "admitted"
  <2>1. ASSUME NEW x \in Actors, NEW checkpoint \in 0 .. revision,
               Resume(k, x, checkpoint)
        PROVE  handles'[k].step # "admitted"
    <3>1. handles' = [handles EXCEPT ![k] =
              [NoHandle EXCEPT !.step = "ready", !.actor = x, !.source = source,
               !.allowed = (checkpoint = revision /\ Active(x))]]
      BY <2>1 DEF Resume
    <3>2. [NoHandle EXCEPT !.step = "ready", !.actor = x, !.source = source,
               !.allowed = (checkpoint = revision /\ Active(x))].step = "ready"
      BY DEF NoHandle
    <3> QED
      BY <3>1, <3>2 DEF ContextTypeOK
  <2>2. CASE Crash(k)
    BY <2>2 DEF Crash, ContextTypeOK, NoHandle
  <2>3. CASE \E c \in Children, actions \in SUBSET ActionIds :
                Delegate(k, c, actions)
    BY <2>3 DEF Delegate
  <2>4. CASE HandOver(k) \/ HostAnswers(k) \/ Record(k)
    BY <2>4 DEF HandOver, HostAnswers, Record
  <2> QED
    BY <1>3, <2>1, <2>2, <2>3, <2>4 DEF SessionNext
<1>4. ASSUME NEW a \in ActionIds, Admit(k, a) PROVE Authority(k)
    BY <1>4 DEF Admit
<1> QED
    BY <1>1, <1>2, <1>3, <1>4 DEF Next

\* A session that was resumed before a revocation admits nothing after it, as
\* long as the revoked actor is its own or one the registry puts above it.
THEOREM RevocationReaches == Spec => RevocationReachesDescendants
PROOF
<1>1. IInv /\ [Next]_contextVars =>
          [\A k \in Handles : handles[k].step = "ready" /\ handles'[k].step = "admitted"
              => \A y \in Ancestors(handles[k].actor) : ~grants[y].revoked]_contextVars
  <2> SUFFICES ASSUME IInv, [Next]_contextVars, NEW k \in Handles,
                      handles[k].step = "ready", handles'[k].step = "admitted"
               PROVE  \A y \in Ancestors(handles[k].actor) : ~grants[y].revoked
    OBVIOUS
  <2>1. handles[k].actor \in Actors
    BY DEF IInv, ContextTypeOK, HandleStates
  <2>2. Active(handles[k].actor)
    BY OnlyAdmitAdmits DEF IInv, Authority
  <2> QED
    BY <2>1, <2>2, ActiveAncestors DEF IInv
<1> QED
    BY <1>1, Invariance, PTL DEF Spec, RevocationReachesDescendants

\* Authority is open only while the ledger is.
LEMMA AuthorityIsOpen ==
    ASSUME ContextTypeOK, NEW k \in Handles, Authority(k)
    PROVE  ~\A x \in Actors : grants[x].granted => grants[x].revoked
PROOF
<1>1. handles[k].actor \in Actors
    BY DEF ContextTypeOK, HandleStates
<1> QED
    BY <1>1, ActiveIsGood DEF Authority, Good

LEMMA SourceCloses ==
    ASSUME ContextTypeOK, NEW t \in Sources, ChangeSource(t)
    PROVE  Closed' /\ UNCHANGED Reserved
PROOF
<1>1. \A x \in Actors : grants'[x].granted => grants'[x].revoked
    BY DEF ChangeSource, ContextTypeOK, Grants
<1>2. UNCHANGED attempts
    BY DEF ChangeSource
<1> QED
    BY <1>1, <1>2 DEF Closed, Reserved

LEMMA ClosedStays ==
    ASSUME IInv, [Next]_contextVars, Closed
    PROVE  Closed' /\ UNCHANGED Reserved
PROOF
<1> USE DEF IInv
<1>1. ~\E k \in Handles, a \in ActionIds : Admit(k, a)
    BY AuthorityIsOpen DEF Admit, Closed
<1>2. UNCHANGED Reserved
    BY <1>1, OnlyAdmitReserves
<1>3. CASE blocking
  <2>1. blocking'
    BY <1>3 DEF Next, AdminNext, SessionNext, RecordFact, ChangeSource, Revoke,
        Resume, Delegate, Admit, HandOver, HostAnswers, Record, Crash, Deliver,
        ledger, contextVars
  <2> QED
    BY <1>2, <2>1 DEF Closed
<1>4. CASE \A x \in Actors : grants[x].granted => grants[x].revoked
  <2>1. ASSUME NEW t \in Sources, ChangeSource(t) PROVE Closed'
    BY <2>1, SourceCloses
  <2>2. ASSUME NEW x \in Actors, Revoke(x) PROVE Closed'
    BY <1>4, <2>2 DEF Revoke, Closed, ContextTypeOK, Grants
  <2>3. ASSUME UNCHANGED grants PROVE Closed'
    BY <1>4, <2>3 DEF Closed
  <2>4. ASSUME NEW k \in Handles, NEW c \in Children, NEW actions \in SUBSET ActionIds
        PROVE  ~Delegate(k, c, actions)
    BY <1>4, AuthorityIsOpen DEF Delegate, Delegable
  <2>5. CASE \E k \in Handles : SessionNext(k)
    BY <1>2, <2>3, <2>4, <2>5 DEF SessionNext, Resume, Admit, HandOver, HostAnswers,
        Record, Crash, ledger
  <2>6. CASE \/ \E b \in BOOLEAN : RecordFact(b)
             \/ \E a \in ActionIds : Deliver(a)
             \/ UNCHANGED contextVars
    BY <1>2, <2>3, <2>6 DEF RecordFact, Deliver, ledger, contextVars
  <2> QED
    BY <1>2, <2>1, <2>2, <2>5, <2>6 DEF Next, AdminNext
<1> QED
    BY <1>3, <1>4 DEF Closed

LEMMA RevisionCounts ==
    ASSUME ContextTypeOK, [Next]_contextVars, revision' = revision
    PROVE  UNCHANGED ledger
PROOF
<1>1. revision' # revision + 1
    BY DEF ContextTypeOK
<1> QED
    BY <1>1 DEF Next, AdminNext, SessionNext, RecordFact, ChangeSource, Revoke,
        Resume, Delegate, Admit, HandOver, HostAnswers, Record, Crash, Deliver,
        contextVars, ledger

\* A change of source or a blocking fact closes the ledger for good, and every
\* durable change has a revision of its own: a checkpoint that still matches
\* restores the very ledger it was taken from.
THEOREM LedgerMoves == Spec => LedgerMovesOn
PROOF
<1>1. IInv /\ [Next]_contextVars =>
          [Closed \/ source' # source => Closed' /\ UNCHANGED Reserved]_contextVars
  <2> SUFFICES ASSUME IInv, [Next]_contextVars, Closed \/ source' # source
               PROVE  Closed' /\ UNCHANGED Reserved
    OBVIOUS
  <2>1. ASSUME source' # source PROVE \E t \in Sources : ChangeSource(t)
    BY <2>1 DEF Next, AdminNext, SessionNext, RecordFact, Revoke, Resume, Delegate,
        Admit, HandOver, HostAnswers, Record, Crash, Deliver, ledger, contextVars
  <2> QED
    BY <2>1, ClosedStays, SourceCloses DEF IInv
<1>2. IInv /\ [Next]_contextVars =>
          [revision' = revision => UNCHANGED ledger]_contextVars
    BY RevisionCounts DEF IInv
<1>3. Spec => ClosedForGood
    BY <1>1, Invariance, PTL DEF Spec, ClosedForGood
<1>4. Spec => CheckpointIsExact
    BY <1>2, Invariance, PTL DEF Spec, CheckpointIsExact
<1> QED
    BY <1>3, <1>4 DEF LedgerMovesOn

-----------------------------------------------------------------------------
\* The ledger implements one-shot delivery, step by step.

\* What OneShotDelivery sees of the ledger.
LedgerLive == [a \in ActionIds |-> ~Closed]
LedgerOutcome ==
    [a \in ActionIds |-> IF attempts[a] = "blocked" THEN "denied" ELSE attempts[a]]

LEMMA OneShotInitially == Init => OneShot!Init
PROOF
<1> SUFFICES ASSUME Init PROVE OneShot!Init
    OBVIOUS
<1>1. ~Closed
  <2>1. Root \in Actors /\ grants[Root] = RootGrant /\ blocking = FALSE
    BY DEF Init, Actors
  <2>2. RootGrant.granted /\ ~RootGrant.revoked
    BY DEF RootGrant, NoGrant
  <2> QED
    BY <2>1, <2>2 DEF Closed
<1>2. LedgerLive = [a \in ActionIds |-> TRUE]
    BY <1>1 DEF LedgerLive
<1>3. LedgerOutcome = [a \in ActionIds |-> "none"] /\ delivered = {}
    BY DEF Init, LedgerOutcome
<1> QED
    BY <1>2, <1>3 DEF OneShot!Init, LedgerLive, LedgerOutcome

\* A step that settles and delivers nothing closes the ledger or is not seen.
LEMMA ClosingIsStop ==
    ASSUME IInv, [Next]_contextVars, UNCHANGED <<attempts, delivered>>
    PROVE  [OneShot!Next]_OneShot!deliveryVars
PROOF
<1>1. LedgerOutcome' = LedgerOutcome
    BY DEF LedgerOutcome
<1>2. CASE Closed' = Closed
  <2>1. LedgerLive' = LedgerLive
    BY <1>2 DEF LedgerLive
  <2> QED
    BY <1>1, <2>1 DEF OneShot!deliveryVars, LedgerLive, LedgerOutcome
<1>3. CASE Closed' /\ ~Closed
  <2>1. \A a \in ActionIds : LedgerLive'[a] <=> LedgerLive[a] /\ a \notin ActionIds
    BY <1>3 DEF LedgerLive
  <2>2. LedgerLive' = [a \in ActionIds |-> LedgerLive[a] /\ a \notin ActionIds]
    BY <1>3, <2>1 DEF LedgerLive
  <2>3. ActionIds \in SUBSET ActionIds
    OBVIOUS
  <2> QED
    BY <1>1, <2>2, <2>3
    DEF OneShot!Stop, OneShot!Next, LedgerLive, LedgerOutcome
<1> QED
    BY <1>2, <1>3, ClosedStays DEF Closed

LEMMA AdmitReserves ==
    ASSUME IInv, NEW k \in Handles, NEW a \in ActionIds, Admit(k, a)
    PROVE  OneShot!Next
PROOF
<1>1. /\ attempts \in [ActionIds -> {"none"} \cup Outcomes]
      /\ attempts[a] = "none"
      /\ attempts' = [attempts EXCEPT ![a] = "unknown"]
      /\ UNCHANGED <<grants, blocking, delivered>>
    BY DEF IInv, ContextTypeOK, Admit, hostState
<1>2. ~Closed
    BY AuthorityIsOpen DEF IInv, Admit, Closed
<1>3. LedgerLive[a] /\ LedgerLive' = LedgerLive
    BY <1>1, <1>2 DEF LedgerLive, Closed
<1>4. LedgerOutcome[a] = "none"
    BY <1>1 DEF LedgerOutcome
<1>5. LedgerOutcome' = [LedgerOutcome EXCEPT ![a] = "unknown"]
    BY <1>1 DEF LedgerOutcome
<1>6. OneShot!Reserve(a)
    BY <1>1, <1>3, <1>4, <1>5 DEF OneShot!Reserve, LedgerLive, LedgerOutcome
<1> QED
    BY <1>6 DEF OneShot!Next

LEMMA RecordSettles ==
    ASSUME IInv, NEW k \in Handles, Record(k)
    PROVE  [OneShot!Next]_OneShot!deliveryVars
PROOF
<1>0. PICK a \in ActionIds, status \in Outcomes :
          a = handles[k].action /\ status = handles[k].status
    BY DEF IInv, ContextTypeOK, HandleStates
<1>1. /\ attempts \in [ActionIds -> {"none"} \cup Outcomes]
      /\ attempts' = [attempts EXCEPT ![a] = status]
      /\ UNCHANGED <<grants, blocking, delivered>>
    BY <1>0 DEF IInv, ContextTypeOK, Record, hostState
<1>2. attempts[a] = "unknown" /\ (status = "observed" => a \in delivered)
    BY <1>0 DEF IInv, CallsAreReserved, Busy, Record
<1>3. LedgerLive' = LedgerLive
    BY <1>1 DEF LedgerLive, Closed
<1>4. LedgerOutcome[a] = "unknown"
    BY <1>1, <1>2 DEF LedgerOutcome
<1>5. CASE status = "unknown"
  <2>1. LedgerOutcome' = LedgerOutcome
    BY <1>1, <1>2, <1>5 DEF LedgerOutcome
  <2> QED
    BY <1>1, <1>3, <2>1 DEF OneShot!deliveryVars, LedgerLive, LedgerOutcome
<1>6. CASE status = "observed"
  <2>1. LedgerOutcome' = [LedgerOutcome EXCEPT ![a] = "observed"]
    BY <1>1, <1>6 DEF LedgerOutcome
  <2>2. [b \in ActionIds |-> b][a] \in delivered
    BY <1>1, <1>2, <1>6
  <2>3. OneShot!SettleObserved(a)
    BY <1>1, <1>3, <1>4, <2>1, <2>2
    DEF OneShot!SettleObserved, LedgerLive, LedgerOutcome
  <2> QED
    BY <2>3 DEF OneShot!Next
<1>7. CASE status = "blocked"
  <2>1. LedgerOutcome' = [LedgerOutcome EXCEPT ![a] = "denied"]
    BY <1>1, <1>7 DEF LedgerOutcome
  <2>2. OneShot!SettleDenied(a)
    BY <1>1, <1>3, <1>4, <2>1 DEF OneShot!SettleDenied, LedgerLive, LedgerOutcome
  <2> QED
    BY <2>2 DEF OneShot!Next
<1> QED
    BY <1>5, <1>6, <1>7 DEF Outcomes

\* A host carries out what it was handed, now or much later, only while the
\* ledger has not settled it otherwise.
LEMMA DeliverDelivers ==
    ASSUME IInv, NEW a \in ActionIds, Deliver(a)
    PROVE  [OneShot!Next]_OneShot!deliveryVars
PROOF
<1>1. /\ attempts \in [ActionIds -> {"none"} \cup Outcomes]
      /\ handed[a] > 0 /\ a \notin refused
      /\ delivered' = delivered \cup {a}
      /\ UNCHANGED <<attempts, grants, blocking>>
    BY DEF IInv, ContextTypeOK, Deliver, ledger
<1>2. LedgerOutcome' = LedgerOutcome /\ LedgerLive' = LedgerLive
    BY <1>1 DEF LedgerOutcome, LedgerLive, Closed
<1>3. CASE a \in delivered
  <2>1. delivered' = delivered
    BY <1>1, <1>3
  <2> QED
    BY <1>2, <2>1 DEF OneShot!deliveryVars, LedgerLive, LedgerOutcome
<1>4. CASE a \notin delivered
  <2>1. handed[a] # 0
    BY <1>1
  <2>2. attempts[a] = "unknown"
    BY <1>1, <1>4, <2>1 DEF IInv, LedgerIsAhead, Outcomes
  <2>3. LedgerOutcome[a] = "unknown"
    BY <2>2 DEF LedgerOutcome
  <2>4. delivered' = delivered \cup {[b \in ActionIds |-> b][a]}
    BY <1>1
  <2>5. OneShot!Deliver(a)
    BY <1>2, <2>3, <2>4 DEF OneShot!Deliver, LedgerLive, LedgerOutcome
  <2> QED
    BY <2>5 DEF OneShot!Next
<1> QED
    BY <1>3, <1>4

\* Sessions, delegations, crashes and hosts that answer late or not at all make
\* of each action one delivery that is never refunded and never misreported:
\* every step is one of OneShotDelivery or none at all.
THEOREM OneShotImplemented == Spec => ImplementsOneShot
PROOF
<1>1. IInv /\ [Next]_contextVars => [OneShot!Next]_OneShot!deliveryVars
  <2> SUFFICES ASSUME IInv, [Next]_contextVars
               PROVE  [OneShot!Next]_OneShot!deliveryVars
    OBVIOUS
  <2>1. \/ UNCHANGED <<attempts, delivered>>
        \/ \E k \in Handles : Record(k) \/ \E a \in ActionIds : Admit(k, a)
        \/ \E a \in ActionIds : Deliver(a)
    BY DEF Next, AdminNext, SessionNext, RecordFact, ChangeSource, Revoke, Resume,
        Delegate, HandOver, HostAnswers, Crash, ledger, hostState, contextVars
  <2> QED
    BY <2>1, ClosingIsStop, AdmitReserves, RecordSettles, DeliverDelivers
<1> QED
    BY <1>1, OneShotInitially, Invariance, PTL
    DEF Spec, ImplementsOneShot, OneShot!Spec

=============================================================================
