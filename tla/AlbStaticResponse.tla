--------------------------- MODULE AlbStaticResponse ---------------------------
(***************************************************************************)
(* The "Return Static Response" attack of extelb on one listener of an     *)
(* application load balancer.  Start pushes the block of rules that begins *)
(* at priority 1 down by one, tagging each rule first, and creates a rule  *)
(* of its own at priority 1; Stop deletes the rule at priority 1 and pulls *)
(* the rules it finds tagged up again.                                     *)
(*                                                                         *)
(* One action is one AWS call, so executions on the same listener and the  *)
(* owner of the listener interleave between any two calls.  A call may be  *)
(* rejected by AWS, fail without effect, or take effect and lose its       *)
(* reply.  The rule an execution creates is named by the execution: Start  *)
(* runs once.  The default rule has no priority and takes part in nothing. *)
(***************************************************************************)
EXTENDS Integers, FiniteSets

CONSTANTS
    Executions,     \* attack executions on the listener, and the rules they create
    UserRules,      \* the rules of the listener's owner
    Top,            \* bound: the owner's priorities are 1..Top
    PageSize,       \* rules whose tags are read in one call (20 in the code)
    None,           \* no rule, no tag
    MaxFaults, MaxMoves, MaxStops

Rules == UserRules \cup Executions
Absent == 0

ASSUME ConstantsAssumption ==
    /\ UserRules \cap Executions = {} /\ None \notin Rules
    /\ Top \in Nat \ {0} /\ PageSize \in Nat \ {0}
    /\ MaxFaults \in Nat /\ MaxMoves \in Nat /\ MaxStops \in Nat

VARIABLES
    prio,       \* AWS: the priority of each rule, Absent when there is no such rule
    tag,        \* AWS: the value of each rule's tag steadybit-reprioritized
    home,       \* history: the priorities the owner chose
    phase,      \* platform: how far an execution is
    step,       \* handler: the next AWS call of the running request
    suspect,    \* deleteRuleCreatedBySteadybit: the rule found at priority 1
    plan,       \* repriorityPairs of a Start, restorePriorities of a Stop
    left,       \* the pairs of plan whose tag is still to be added or removed
    unread,     \* restoreOldPriorities: described rules whose tags are not read yet
    cut,        \* history: a restore failed after it had begun to remove tags
    raced,      \* history: two requests have run at the same time
    faults, moves, stops

aws == <<prio, tag, home>>
locals == <<suspect, plan, left, unread>>
history == <<cut, raced>>
vars == <<prio, tag, home, phase, step, suspect, plan, left, unread, cut, raced,
          faults, moves, stops>>

Pair == [rule : Rules, prio : Int]

-----------------------------------------------------------------------------
(* What AWS knows, and what it accepts.                                    *)

Exists(r) == prio[r] # Absent
Existing == {r \in Rules : Exists(r)}
At(p) == {r \in Existing : prio[r] = p}

\* DescribeRules.
Described == {[rule |-> r, prio |-> prio[r]] : r \in Existing}

\* SetRulePriorities is atomic; it refuses priorities below 1, a rule that is
\* gone, and a priority that is in use by a rule outside the request.
Moved(P) == {p.rule : p \in P}
CanSet(P) ==
    /\ \A p \in P : p.prio >= 1 /\ Exists(p.rule)
    /\ \A p \in P : At(p.prio) \subseteq Moved(P)
    /\ \A p, q \in P : p.prio = q.prio => p.rule = q.rule
Set(P) ==
    prio' = [r \in Rules |->
                IF r \in Moved(P) THEN (CHOOSE p \in P : p.rule = r).prio ELSE prio[r]]

Fault == faults < MaxFaults /\ faults' = faults + 1
NoFault == UNCHANGED faults

-----------------------------------------------------------------------------
Init ==
    /\ \E own \in [UserRules -> 1 .. Top] :
         /\ \A r, s \in UserRules : own[r] = own[s] => r = s
         /\ home = own
         /\ prio = [r \in Rules |-> IF r \in UserRules THEN own[r] ELSE Absent]
    /\ tag = [r \in Rules |-> None]
    /\ phase = [e \in Executions |-> "new"]
    /\ step = [e \in Executions |-> "none"]
    /\ suspect = [e \in Executions |-> None]
    /\ plan = [e \in Executions |-> {}]
    /\ left = [e \in Executions |-> {}]
    /\ unread = [e \in Executions |-> {}]
    /\ cut = [e \in Executions |-> FALSE]
    /\ raced = FALSE
    /\ faults = 0 /\ moves = 0 /\ stops = [e \in Executions |-> 0]

\* What the platform makes of the answer of a request.
Outcome(e, ok) ==
    IF phase[e] = "starting"
    THEN IF ok THEN "active" ELSE "startFailed"
    ELSE IF ok THEN "stopped" ELSE "stopFailed"

\* The request returns and its local variables are gone.
Return(e, ok) ==
    /\ phase' = [phase EXCEPT ![e] = Outcome(e, ok)]
    /\ step' = [step EXCEPT ![e] = "none"]
    /\ suspect' = [suspect EXCEPT ![e] = None]
    /\ plan' = [plan EXCEPT ![e] = {}]
    /\ left' = [left EXCEPT ![e] = {}]
    /\ unread' = [unread EXCEPT ![e] = {}]
    /\ cut' = [cut EXCEPT ![e] = @ \/ (~ok /\ step[e] \in {"untag", "restore"})]
    /\ UNCHANGED raced

\* AWS rejects a call it does not accept, and any call may fail without effect.
Fails(e, accepted) == ((~accepted /\ NoFault) \/ Fault) /\ Return(e, FALSE)

GoTo(e, st) == step' = [step EXCEPT ![e] = st]

\* A request arrives at the extension and makes its first call.
Receive(e, ph, st) ==
    /\ phase' = [phase EXCEPT ![e] = ph]
    /\ GoTo(e, st)
    /\ raced' = (raced \/ \E f \in Executions : step[f] # "none")

(* Prepare ---------------------------------------------------------------- *)

\* The listener is looked up by its port, then the conditions are counted.
Prepare(e) ==
    /\ phase[e] = "new"
    /\ \E listenerFound, tooManyConditions \in BOOLEAN :
         phase' = [phase EXCEPT ![e] =
                     IF listenerFound /\ ~tooManyConditions THEN "prepared" ELSE "refused"]
    /\ UNCHANGED <<aws, step, locals, history, faults, moves, stops>>

(* Start ------------------------------------------------------------------ *)

BeginStart(e) ==
    /\ phase[e] = "prepared"
    /\ \/ Receive(e, "starting", "describe") /\ NoFault
       \/ phase' = [phase EXCEPT ![e] = "startFailed"] /\ Fault /\ UNCHANGED <<step, raced>>
    /\ UNCHANGED <<aws, locals, cut, moves, stops>>

\* Mutant: the index is incremented before it is used for the new priority.
NewPriorityPairsTwoDown ==
    {[rule |-> r, prio |-> prio[r] + 2] :
        r \in {s \in Existing : \A p \in 1 .. prio[s] : At(p) # {}}}

\* getNewPriorityPairs: the block of rules without a gap that begins at 1.
NewPriorityPairs ==
    {[rule |-> r, prio |-> prio[r] + 1] :
        r \in {s \in Existing : \A p \in 1 .. prio[s] : At(p) # {}}}

DescribeRules(e) ==
    /\ phase[e] = "starting" /\ step[e] = "describe"
    /\ \/ /\ plan' = [plan EXCEPT ![e] = NewPriorityPairs]
          /\ left' = [left EXCEPT ![e] = NewPriorityPairs]
          /\ GoTo(e, IF NewPriorityPairs = {} THEN "create" ELSE "tag")
          /\ NoFault
          /\ UNCHANGED <<phase, suspect, unread, history>>
       \/ Fault /\ Return(e, FALSE)
    /\ UNCHANGED <<aws, moves, stops>>

\* Mutant: the tag's value is the rule's own name.
TagValueOfRule(e, r) == r

\* The value of steadybit-reprioritized: the execution.
TagValue(e, r) == e

\* AddTags, one rule after the other, from priority 1 on.
TagRule(e) ==
    /\ step[e] = "tag"
    /\ \E p \in left[e] :
         LET Tagged == Exists(p.rule) /\ tag' = [tag EXCEPT ![p.rule] = TagValue(e, p.rule)] IN
         /\ \A q \in left[e] : p.prio <= q.prio
         /\ \/ /\ Tagged /\ NoFault
               /\ left' = [left EXCEPT ![e] = @ \ {p}]
               /\ GoTo(e, IF left[e] = {p} THEN "shift" ELSE "tag")
               /\ UNCHANGED <<phase, suspect, plan, unread, history>>
            \/ Tagged /\ Fault /\ Return(e, FALSE)
            \/ Fails(e, Exists(p.rule)) /\ UNCHANGED tag
    /\ UNCHANGED <<prio, home, moves, stops>>

\* SetRulePriorities of reprioritizeIfNecessary.
ShiftRules(e) ==
    /\ step[e] = "shift"
    /\ \/ /\ CanSet(plan[e]) /\ Set(plan[e]) /\ NoFault
          /\ GoTo(e, "create")
          /\ UNCHANGED <<phase, locals, history>>
       \/ CanSet(plan[e]) /\ Set(plan[e]) /\ Fault /\ Return(e, FALSE)
       \/ Fails(e, CanSet(plan[e])) /\ UNCHANGED prio
    /\ UNCHANGED <<tag, home, moves, stops>>

\* CreateRule at priority 1; AWS refuses a priority in use.
CreateRule(e) ==
    /\ step[e] = "create"
    /\ \/ At(1) = {} /\ prio' = [prio EXCEPT ![e] = 1] /\ NoFault /\ Return(e, TRUE)
       \/ At(1) = {} /\ prio' = [prio EXCEPT ![e] = 1] /\ Fault /\ Return(e, FALSE)
       \/ Fails(e, At(1) = {}) /\ UNCHANGED prio
    /\ UNCHANGED <<tag, home, moves, stops>>

(* Stop ------------------------------------------------------------------- *)

\* The platform may stop what it prepared, and may stop again.
MayStop == {"prepared", "active", "startFailed", "stopFailed", "stopped"}

BeginStop(e) ==
    /\ phase[e] \in MayStop /\ stops[e] < MaxStops
    /\ stops' = [stops EXCEPT ![e] = @ + 1]
    /\ \/ Receive(e, "stopping", "find") /\ NoFault
       \/ phase' = [phase EXCEPT ![e] = "stopFailed"] /\ Fault /\ UNCHANGED <<step, raced>>
    /\ UNCHANGED <<aws, locals, cut, moves>>

\* DescribeRules of deleteRuleCreatedBySteadybit.
FindRule(e) ==
    /\ step[e] = "find"
    /\ \/ /\ IF At(1) = {}
             THEN UNCHANGED suspect /\ GoTo(e, "list")
             ELSE \E r \in At(1) : suspect' = [suspect EXCEPT ![e] = r] /\ GoTo(e, "check")
          /\ NoFault
          /\ UNCHANGED <<phase, plan, left, unread, history>>
       \/ Fault /\ Return(e, FALSE)
    /\ UNCHANGED <<aws, moves, stops>>

\* Mutant: the rule at priority 1 is taken for the attack's.
CreatedBySteadybitUnchecked(r) == TRUE

\* Mutant: the key of the other tag is compared.
CreatedBySteadybitOtherKey(r) == tag[r] # None

\* The rule has the tag steadybit-target-execution-id; its value is not compared.
CreatedBySteadybit(r) == r \in Executions

\* DescribeTags of the rule found at priority 1.
CheckRule(e) ==
    /\ step[e] = "check"
    /\ \/ /\ Exists(suspect[e]) /\ NoFault
          /\ GoTo(e, IF CreatedBySteadybit(suspect[e]) THEN "delete" ELSE "list")
          /\ UNCHANGED <<phase, locals, history>>
       \/ Fails(e, Exists(suspect[e]))
    /\ UNCHANGED <<aws, moves, stops>>

DeleteRule(e) ==
    LET Deleted == /\ Exists(suspect[e])
                   /\ prio' = [prio EXCEPT ![suspect[e]] = Absent]
                   /\ tag' = [tag EXCEPT ![suspect[e]] = None]
    IN
    /\ step[e] = "delete"
    /\ \/ Deleted /\ NoFault /\ GoTo(e, "list") /\ UNCHANGED <<phase, locals, history>>
       \/ Deleted /\ Fault /\ Return(e, FALSE)
       \/ Fails(e, Exists(suspect[e])) /\ UNCHANGED <<prio, tag>>
    /\ UNCHANGED <<home, moves, stops>>

\* DescribeRules of restoreOldPriorities.
ListRules(e) ==
    /\ step[e] = "list"
    /\ \/ /\ unread' = [unread EXCEPT ![e] = Described]
          /\ GoTo(e, "read") /\ NoFault
          /\ UNCHANGED <<phase, suspect, plan, left, history>>
       \/ Fault /\ Return(e, FALSE)
    /\ UNCHANGED <<aws, moves, stops>>

\* The next page of rules.
IsPage(page, S) ==
    IF Cardinality(S) <= PageSize THEN page = S ELSE Cardinality(page) = PageSize

\* The tagged rules of a page go back to the priority before the one described.
OldPriorities(page, e) ==
    {[rule |-> r.rule, prio |-> r.prio - 1] : r \in {q \in page : tag[q.rule] = e}}

\* DescribeTags of one page; it fails when a rule of the page is gone.
ReadTags(e) ==
    /\ step[e] = "read" /\ unread[e] # {}
    /\ \E page \in SUBSET unread[e] :
         /\ IsPage(page, unread[e])
         /\ \/ /\ \A r \in page : Exists(r.rule)
               /\ plan' = [plan EXCEPT ![e] = @ \cup OldPriorities(page, e)]
               /\ left' = [left EXCEPT ![e] = @ \cup OldPriorities(page, e)]
               /\ unread' = [unread EXCEPT ![e] = @ \ page]
               /\ NoFault
               /\ UNCHANGED <<phase, step, suspect, history>>
            \/ Fails(e, \A r \in page : Exists(r.rule))
    /\ UNCHANGED <<aws, moves, stops>>

\* Every tag has been read: Stop is done when there is nothing to restore.
EndRead(e) ==
    /\ step[e] = "read" /\ unread[e] = {}
    /\ \/ plan[e] = {} /\ Return(e, TRUE)
       \/ plan[e] # {} /\ GoTo(e, "untag") /\ UNCHANGED <<phase, locals, history>>
    /\ UNCHANGED <<aws, faults, moves, stops>>

\* RemoveTags, one rule after the other.
UntagRule(e) ==
    /\ step[e] = "untag"
    /\ \E p \in left[e] :
         LET Untagged == Exists(p.rule) /\ tag' = [tag EXCEPT ![p.rule] = None] IN
         \/ /\ Untagged /\ NoFault
            /\ left' = [left EXCEPT ![e] = @ \ {p}]
            /\ GoTo(e, IF left[e] = {p} THEN "restore" ELSE "untag")
            /\ UNCHANGED <<phase, suspect, plan, unread, history>>
         \/ Untagged /\ Fault /\ Return(e, FALSE)
         \/ Fails(e, Exists(p.rule)) /\ UNCHANGED tag
    /\ UNCHANGED <<prio, home, moves, stops>>

\* Mutant: the old priorities are planned but never set.
RestorePrioritiesForgotten(e) ==
    /\ step[e] = "restore"
    /\ NoFault /\ Return(e, TRUE)
    /\ UNCHANGED <<aws, moves, stops>>

\* SetRulePriorities of restoreOldPriorities.
RestorePriorities(e) ==
    /\ step[e] = "restore"
    /\ \/ CanSet(plan[e]) /\ Set(plan[e]) /\ NoFault /\ Return(e, TRUE)
       \/ CanSet(plan[e]) /\ Set(plan[e]) /\ Fault /\ Return(e, FALSE)
       \/ Fails(e, CanSet(plan[e])) /\ UNCHANGED prio
    /\ UNCHANGED <<tag, home, moves, stops>>

(* The environment ---------------------------------------------------------*)

\* The extension's process dies: every running request fails where it is.
Crash ==
    /\ \E e \in Executions : step[e] # "none"
    /\ phase' = [e \in Executions |->
                    IF step[e] = "none" THEN phase[e] ELSE Outcome(e, FALSE)]
    /\ cut' = [e \in Executions |-> cut[e] \/ step[e] \in {"untag", "restore"}]
    /\ step' = [e \in Executions |-> "none"]
    /\ suspect' = [e \in Executions |-> None]
    /\ plan' = [e \in Executions |-> {}]
    /\ left' = [e \in Executions |-> {}]
    /\ unread' = [e \in Executions |-> {}]
    /\ Fault
    /\ UNCHANGED <<aws, raced, moves, stops>>

\* The owner of the listener gives a rule another free priority ...
OwnerMoves(r) ==
    /\ moves < MaxMoves /\ moves' = moves + 1
    /\ Exists(r)
    /\ \E p \in 1 .. Top + 1 :
         /\ At(p) = {}
         /\ prio' = [prio EXCEPT ![r] = p] /\ home' = [home EXCEPT ![r] = p]
    /\ UNCHANGED <<tag, phase, step, locals, history, faults, stops>>

\* ... or deletes it.
OwnerDeletes(r) ==
    /\ moves < MaxMoves /\ moves' = moves + 1
    /\ Exists(r)
    /\ prio' = [prio EXCEPT ![r] = Absent] /\ home' = [home EXCEPT ![r] = Absent]
    /\ tag' = [tag EXCEPT ![r] = None]
    /\ UNCHANGED <<phase, step, locals, history, faults, stops>>

Handler(e) ==
    \/ DescribeRules(e) \/ TagRule(e) \/ ShiftRules(e) \/ CreateRule(e)
    \/ FindRule(e) \/ CheckRule(e) \/ DeleteRule(e)
    \/ ListRules(e) \/ ReadTags(e) \/ EndRead(e) \/ UntagRule(e) \/ RestorePriorities(e)

Platform(e) == Prepare(e) \/ BeginStart(e) \/ BeginStop(e)

Next ==
    \/ \E e \in Executions : Platform(e) \/ Handler(e)
    \/ \E r \in UserRules : OwnerMoves(r) \/ OwnerDeletes(r)
    \/ Crash

Spec == Init /\ [][Next]_vars

\* A running request makes its next call; the platform stops what it prepared,
\* and stops again what answered with an error.
Fairness ==
    \A e \in Executions :
        /\ WF_vars(Handler(e))
        /\ WF_vars(phase[e] \in MayStop \ {"stopped"} /\ BeginStop(e))

FairSpec == Spec /\ Fairness

-----------------------------------------------------------------------------
(* Properties                                                              *)

Phases == {"new", "refused", "prepared", "starting", "active", "startFailed",
           "stopping", "stopFailed", "stopped"}
Steps == {"none", "describe", "tag", "shift", "create",
          "find", "check", "delete", "list", "read", "untag", "restore"}

\* Every variable has its type: the listener, and the local state of the Start
\* and Stop handlers of extelb/alb_attack_static_response.go.
TypeOK ==
    /\ prio \in [Rules -> Nat] /\ home \in [UserRules -> Nat]
    /\ tag \in [Rules -> Executions \cup {None}]
    /\ phase \in [Executions -> Phases] /\ step \in [Executions -> Steps]
    /\ suspect \in [Executions -> Rules \cup {None}]
    /\ plan \in [Executions -> SUBSET Pair] /\ left \in [Executions -> SUBSET Pair]
    /\ unread \in [Executions -> SUBSET Pair]
    /\ cut \in [Executions -> BOOLEAN]
    /\ raced \in BOOLEAN
    /\ faults \in Nat /\ moves \in Nat /\ stops \in [Executions -> Nat]

\* No other execution has been started or stopped on the listener.
Alone(e) == \A f \in Executions \ {e} : phase[f] \in {"new", "refused", "prepared"}

\* Whatever overlaps, fails or is repeated, a step of the extension never
\* deletes a rule of the owner.  As long as the requests to the listener come
\* one after the other, overlapping attacks and failures do not change either
\* which of two rules of the owner is tried first; requests that run at the
\* same time set priorities described before the other one moved the rules.
OwnerRulesKept ==
    [][moves' = moves =>
         \A r, s \in UserRules :
             /\ Exists(r) => prio'[r] # Absent
             /\ moves = 0 /\ ~raced /\ prio[r] < prio[s] => prio'[r] < prio'[s]]_vars

\* When a Stop has succeeded and nobody else attacked the listener, the
\* attack's rule is gone and no rule carries the execution's tag any more.
StoppedIsClean ==
    \A e \in Executions :
        phase[e] = "stopped" /\ Alone(e) /\ moves = 0 =>
            ~Exists(e) /\ \A r \in Rules : tag[r] # e

\* When a Stop has succeeded and nobody else touched the listener, every rule
\* is back on its priority, unless an earlier Stop failed between removing
\* the first tag and restoring the priorities: what is to be restored is then
\* forgotten, and no repeated Stop restores it.
PrioritiesRestored ==
    \A e \in Executions :
        phase[e] = "stopped" /\ Alone(e) /\ moves = 0 /\ ~cut[e] =>
            \A r \in UserRules : prio[r] = home[r]

\* Whatever a failing Start or Stop leaves behind, a lone attack never moves a
\* rule by more than one place.
AtMostOneDown ==
    \A e \in Executions :
        Alone(e) /\ moves = 0 =>
            \A r \in UserRules : prio[r] - home[r] \in {0, 1}

\* A started attack that is alone on its listener is undone in the end: its
\* rule disappears although calls fail, replies get lost or the process dies.
EventuallyClean ==
    \A e \in Executions :
        phase[e] = "starting" ~>
            \/ phase[e] = "stopped" /\ ~Exists(e)
            \/ ~Alone(e)
=============================================================================
