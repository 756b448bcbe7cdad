----------------------------- MODULE ContextGate -----------------------------
(***************************************************************************)
(* The context and lineage ledger of tools/assurance-context/              *)
(* context_gate.py: a durable record of the task's source version, of the  *)
(* grants delegated from the root actor, of facts and of admitted          *)
(* attempts, and the sessions that dispatch through it to one exact-action *)
(* host per action.  Every operation is a BEGIN IMMEDIATE transaction; the *)
(* host is called between two of them.                                     *)
(*                                                                         *)
(* A call that is blocked, or answered from an earlier attempt, only adds  *)
(* to the event log, which nothing reads back, and is no step here.        *)
(***************************************************************************)
EXTENDS Naturals, FiniteSets

CONSTANTS
    Sources,      \* labels of source versions
    FirstSource,  \* the source version the task was created for
    ActionIds,    \* the actions of the task, one host for each
    Children,     \* actors other than the root that may be granted something
    Root,         \* the actor the task is created for
    Registry,     \* the parent each child must have, and whether for this task
    Budget,       \* number of distinct actions the task may attempt
    Handles,      \* sessions held by the orchestrator at one time
    MaxRevision   \* bound: administration and delegation stop here

Actors == Children \cup {Root}

ASSUME ContextAssumption ==
    /\ FirstSource \in Sources
    /\ Root \notin Children
    /\ Registry \in [Children -> [parent : Actors, ours : BOOLEAN]]
    /\ Budget \in Nat \ {0}
    /\ MaxRevision \in Nat
    /\ ActionIds # {}

VARIABLES
    source, revision,  \* table state
    grants,            \* table grants; depth is 0 for the root only
    blocking,          \* table facts holds a blocking fact
    attempts,          \* table attempts, "none" where there is no row
    handles,           \* the Session objects and the call each is in
    handed,            \* how often each action was handed to its host
    delivered,         \* actions a host has carried out
    refused            \* actions a host has turned down for good

ledger == <<source, grants, blocking, attempts>>
hostState == <<handed, delivered, refused>>
contextVars == <<source, revision, grants, blocking, attempts, handles,
                 handed, delivered, refused>>

-----------------------------------------------------------------------------
Grants == [granted : BOOLEAN, parent : Actors, actions : SUBSET ActionIds,
           depth : Nat, source : Sources, revoked : BOOLEAN]
Outcomes == {"unknown", "observed", "blocked"}
HandleSteps == {"none", "ready", "admitted", "sent", "answered"}
HandleStates == [step : HandleSteps, actor : Actors, source : Sources,
                 allowed : BOOLEAN, action : ActionIds, status : Outcomes]

NoGrant == [granted |-> FALSE, parent |-> Root, actions |-> {}, depth |-> 0,
            source |-> FirstSource, revoked |-> FALSE]
RootGrant == [NoGrant EXCEPT !.granted = TRUE, !.actions = ActionIds]
NoHandle == [step |-> "none", actor |-> Root, source |-> FirstSource,
             allowed |-> FALSE, action |-> CHOOSE a \in ActionIds : TRUE,
             status |-> "unknown"]

\* Types of the ledger, of the sessions and of what the hosts have done.
ContextTypeOK ==
    /\ source \in Sources /\ revision \in Nat
    /\ grants \in [Actors -> Grants]
    /\ blocking \in BOOLEAN
    /\ attempts \in [ActionIds -> {"none"} \cup Outcomes]
    /\ handles \in [Handles -> HandleStates]
    /\ handed \in [ActionIds -> Nat]
    /\ delivered \subseteq ActionIds /\ refused \subseteq ActionIds

-----------------------------------------------------------------------------
Good(x) == grants[x].granted /\ grants[x].source = source /\ ~grants[x].revoked

\* Mutant: only the actor's own grant is looked at.
ActiveAlone(x) == Good(x)

\* active walks from the actor to the root; every grant on the way counts.
\* The registry has no cycle, so the walk ends at the root.
Active(x) ==
    \E path \in SUBSET Actors :
        /\ x \in path
        /\ \A y \in path : Good(y) /\ (y # Root => grants[y].parent \in path)

\* Session.authority, in the transaction that uses it.
Authority(k) ==
    /\ handles[k].allowed
    /\ handles[k].source = source
    /\ Active(handles[k].actor)

Reserved == {a \in ActionIds : attempts[a] # "none"}

-----------------------------------------------------------------------------
\* Administration.

RecordFact(b) ==
    /\ revision < MaxRevision
    /\ blocking' = (blocking \/ b)
    /\ revision' = revision + 1
    /\ UNCHANGED <<source, grants, attempts, handles, hostState>>

\* Mutant: the old grants are left to their source labels.
ChangeSourceOnly(s) ==
    /\ revision < MaxRevision
    /\ source' = s
    /\ revision' = revision + 1
    /\ UNCHANGED <<grants, blocking, attempts, handles, hostState>>

ChangeSource(s) ==
    /\ revision < MaxRevision
    /\ source' = s
    /\ revision' = revision + 1
    /\ grants' = [x \in Actors |->
            [grants[x] EXCEPT !.revoked = @ \/ grants[x].granted]]
    /\ UNCHANGED <<blocking, attempts, handles, hostState>>

Revoke(x) ==
    /\ revision < MaxRevision
    /\ grants' = [grants EXCEPT ![x].revoked = @ \/ grants[x].granted]
    /\ revision' = revision + 1
    /\ UNCHANGED <<source, blocking, attempts, handles, hostState>>

-----------------------------------------------------------------------------
\* Sessions.

\* The checkpoint was taken when the ledger was at some earlier revision; its
\* digest covers the whole projection.  The summary decides nothing.
Resume(k, x, checkpoint) ==
    /\ handles[k].step \in {"none", "ready"}
    /\ handles' = [handles EXCEPT ![k] =
            [NoHandle EXCEPT !.step = "ready", !.actor = x, !.source = source,
             !.allowed = (checkpoint = revision /\ Active(x))]]
    /\ UNCHANGED <<ledger, revision, hostState>>

Delegable(k, child, actions) ==
    LET x == handles[k].actor
    IN  /\ Authority(k)
        /\ Registry[child] = [parent |-> x, ours |-> TRUE]
        /\ grants[x].depth < 2
        /\ actions \subseteq grants[x].actions
        /\ ~grants[child].granted

Delegate(k, child, actions) ==
    LET x == handles[k].actor
    IN  /\ handles[k].step = "ready"
        /\ revision < MaxRevision
        /\ actions # {}
        /\ Delegable(k, child, actions)
        /\ grants' = [grants EXCEPT ![child] =
                [granted |-> TRUE, parent |-> x, actions |-> actions,
                 depth |-> grants[x].depth + 1, source |-> handles[k].source,
                 revoked |-> FALSE]]
        /\ revision' = revision + 1
        /\ UNCHANGED <<source, blocking, attempts, handles, hostState>>

-----------------------------------------------------------------------------
\* Session.dispatch.

\* Mutant: only attempts whose outcome is known are charged.
AffordableUnlessUnknown ==
    Cardinality({a \in Reserved : attempts[a] # "unknown"}) < Budget

Affordable == Cardinality(Reserved) < Budget

\* First transaction: authority, exact action, facts, no earlier attempt and
\* the budget, and then the reservation, before the host hears of it.
Admit(k, a) ==
    /\ handles[k].step = "ready"
    /\ Authority(k)
    /\ a \in grants[handles[k].actor].actions
    /\ ~blocking
    /\ attempts[a] = "none"
    /\ Affordable
    /\ attempts' = [attempts EXCEPT ![a] = "unknown"]
    /\ revision' = revision + 1
    /\ handles' = [handles EXCEPT ![k].step = "admitted", ![k].action = a]
    /\ UNCHANGED <<source, grants, blocking, hostState>>

HandOver(k) ==
    /\ handles[k].step = "admitted"
    /\ handed' = [handed EXCEPT ![handles[k].action] = @ + 1]
    /\ handles' = [handles EXCEPT ![k].step = "sent"]
    /\ UNCHANGED <<ledger, revision, delivered, refused>>

Answer(k, status) ==
    handles' = [handles EXCEPT ![k].step = "answered", ![k].status = status]

\* "invalid" is a refusal like "blocked"; any other word and every error of
\* the call are taken for "unknown".
HostAnswers(k) ==
    LET a == handles[k].action
    IN  /\ handles[k].step = "sent"
        /\ \/ Answer(k, "unknown") /\ UNCHANGED refused
           \/ a \in delivered /\ Answer(k, "observed") /\ UNCHANGED refused
           \/ /\ a \notin delivered
              /\ Answer(k, "blocked")
              /\ refused' = refused \cup {a}
        /\ UNCHANGED <<ledger, revision, handed, delivered>>

\* Second transaction.  It does not ask for authority again.
Record(k) ==
    /\ handles[k].step = "answered"
    /\ attempts' = [attempts EXCEPT ![handles[k].action] = handles[k].status]
    /\ revision' = revision + 1
    /\ handles' = [handles EXCEPT ![k].step = "ready"]
    /\ UNCHANGED <<source, grants, blocking, hostState>>

\* Mutant: a process that dies takes its reservation along.
CrashRefunds(k) ==
    /\ handles[k].step # "none"
    /\ handles' = [handles EXCEPT ![k] = NoHandle]
    /\ attempts' = IF handles[k].step \in {"admitted", "sent"}
                   THEN [attempts EXCEPT ![handles[k].action] = "none"]
                   ELSE attempts
    /\ UNCHANGED <<source, grants, blocking, revision, hostState>>

\* The process dies, or an error of its database leaves dispatch.
Crash(k) ==
    /\ handles[k].step # "none"
    /\ handles' = [handles EXCEPT ![k] = NoHandle]
    /\ UNCHANGED <<ledger, revision, hostState>>

\* A host that was handed an action may carry it out at any later time.
Deliver(a) ==
    /\ handed[a] > 0
    /\ a \notin refused
    /\ delivered' = delivered \cup {a}
    /\ UNCHANGED <<ledger, revision, handles, handed, refused>>

-----------------------------------------------------------------------------
Init ==
    /\ source = FirstSource /\ revision = 0
    /\ grants = [x \in Actors |-> IF x = Root THEN RootGrant ELSE NoGrant]
    /\ blocking = FALSE
    /\ attempts = [a \in ActionIds |-> "none"]
    /\ handles = [k \in Handles |-> NoHandle]
    /\ handed = [a \in ActionIds |-> 0]
    /\ delivered = {} /\ refused = {}

AdminNext ==
    \/ \E b \in BOOLEAN : RecordFact(b)
    \/ \E s \in Sources : ChangeSource(s)
    \/ \E x \in Actors : Revoke(x)

SessionNext(k) ==
    \/ \E x \in Actors, checkpoint \in 0 .. revision : Resume(k, x, checkpoint)
    \/ \E child \in Children, actions \in SUBSET ActionIds :
            Delegate(k, child, actions)
    \/ \E a \in ActionIds : Admit(k, a)
    \/ HandOver(k)
    \/ HostAnswers(k)
    \/ Record(k)
    \/ Crash(k)

Next ==
    \/ AdminNext
    \/ \E k \in Handles : SessionNext(k)
    \/ \E a \in ActionIds : Deliver(a)

Spec == Init /\ [][Next]_contextVars

-----------------------------------------------------------------------------
\* Properties.

\* Delegation only narrows: a grant is the registered child's, holds actions
\* its parent holds, and stands at most two levels below the root.
LineageNarrows ==
    \A x \in Children : grants[x].granted =>
        LET parent == grants[x].parent
        IN  /\ Registry[x] = [parent |-> parent, ours |-> TRUE]
            /\ grants[parent].granted
            /\ grants[x].actions \subseteq grants[parent].actions
            /\ grants[x].depth = grants[parent].depth + 1
            /\ grants[x].depth <= 2

\* Over all sessions, actors, crashes and unknown outcomes the hosts are handed
\* at most Budget distinct actions, each once, all of them reserved before.
BudgetHolds ==
    /\ \A a \in ActionIds : handed[a] <= 1 /\ (handed[a] > 0 => a \in Reserved)
    /\ Cardinality(Reserved) <= Budget

\* What delegation hands on is bounded both ways: by whom, and how much.
AuthorityIsBounded == ContextTypeOK /\ LineageNarrows /\ BudgetHolds

\* A session of an actor admits nothing once the actor, or any ancestor the
\* registry gives it, has been revoked, also when the session is older.
Ancestors(x) ==
    LET up(S) == S \cup {Registry[y].parent : y \in S \cap Children}
    IN  up(up({x}))
RevocationReachesDescendants ==
    [][\A k \in Handles : handles[k].step = "ready" /\ handles'[k].step = "admitted"
        => \A y \in Ancestors(handles[k].actor) : ~grants[y].revoked]_contextVars

\* A change of source, also one that restores an earlier label, and a blocking
\* fact close the ledger for good: no session, old or new, admits again.
Closed ==
    \/ blocking
    \/ \A x \in Actors : grants[x].granted => grants[x].revoked
ClosedForGood ==
    [][Closed \/ source' # source =>
        Closed' /\ UNCHANGED Reserved]_contextVars

\* Every durable change has a revision of its own, so a checkpoint that still
\* matches describes the very ledger it was taken from.
CheckpointIsExact == [][revision' = revision => UNCHANGED ledger]_contextVars

\* What a saved checkpoint may be restored to: the very ledger, still open.
LedgerMovesOn == ClosedForGood /\ CheckpointIsExact

\* To each action the ledger is a one-shot delivery: what is reserved is never
\* refunded, a settled outcome is never rewritten, "observed" never misreports.
OneShot == INSTANCE OneShotDelivery WITH
    Gateways <- ActionIds,
    Actions <- ActionIds,
    Approved <- [a \in ActionIds |-> a],
    live <- [a \in ActionIds |-> ~Closed],
    outcome <- [a \in ActionIds |->
        IF attempts[a] = "blocked" THEN "denied" ELSE attempts[a]],
    delivered <- delivered
ImplementsOneShot == OneShot!Spec

=============================================================================
