------------------------ MODULE AlbStaticResponseProofs ------------------------
(***************************************************************************)
(* What AlbStaticResponse guarantees for every number of rules, faults and *)
(* Stops, every page size and every choice of priorities: of an attack     *)
(* that is alone on its listener first, and at the end of the module of    *)
(* attacks that overlap.  "Alone" ends when another execution is started   *)
(* or stopped, and never comes back: what is shown of a lone attack is an  *)
(* invariant of the behaviours up to that moment.                          *)
(*                                                                         *)
(* The listener is in one of two modes.  Either no rule has been moved;    *)
(* the tagged rules are then part of the block that begins at priority 1,  *)
(* and AWS refuses every attempt to pull them up: the first of them would  *)
(* get priority 0, or that of a rule before it.  Or every rule is on its   *)
(* priority or the next one, and those with a tag are on the next one.     *)
(***************************************************************************)
EXTENDS AlbStaticResponse, FiniteSetTheorems, WellFoundedInduction, TLAPS

-----------------------------------------------------------------------------
(* The invariant                                                           *)

Idle == {"new", "refused", "prepared"}
StartSteps == {"describe", "tag", "shift", "create"}
StopSteps == {"find", "check", "delete", "list", "read", "untag", "restore"}

\* A request runs in the phases "starting" and "stopping" only, has no plan
\* before it has read the rules, and the attack's rule is not there before Start.
RequestInv(e) ==
    /\ step[e] \in StartSteps <=> phase[e] = "starting"
    /\ step[e] \in StopSteps <=> phase[e] = "stopping"
    /\ step[e] \notin {"tag", "shift", "create", "read", "untag", "restore"} =>
         plan[e] = {} /\ left[e] = {}
    /\ phase[e] \in Idle => ~Exists(e)

\* A rule that is gone has no tag.
TagInv == \A r \in Rules : tag[r] # None => Exists(r)

\* The owner's choice, as long as it does not change.
HomeInv == moves = 0 => \A u \in UserRules : home[u] \in Nat \ {0}

\* The rules that Start moves, in terms of the owner's priorities.
Block == {u \in UserRules : \A p \in 1 .. home[u] : \E v \in UserRules : home[v] = p}

\* The rules with the tag of an execution, and those whose tag its Stop removes.
Tagged(e) == {u \in UserRules : tag[u] = e}
Marked(e) == Tagged(e) \cup IF step[e] \in {"untag", "restore"} THEN Moved(plan[e]) ELSE {}

Untouched(e) ==
    /\ \A u \in UserRules : prio[u] = home[u]
    /\ Marked(e) \subseteq Block

Shifted(e) ==
    \A u \in UserRules :
        /\ prio[u] \in {home[u], home[u] + 1}
        /\ u \in Marked(e) => prio[u] = home[u] + 1

\* The rule of the attack is at priority 1, alone, and gone when Stop lists the
\* rules.
OwnRuleInv(e) ==
    /\ prio[e] \in {Absent, 1} /\ tag[e] # e
    /\ Exists(e) => \A u \in UserRules : prio[u] # 1
    /\ step[e] \in StartSteps \cup {"list", "read", "untag", "restore"} => ~Exists(e)

\* Until they are shifted the rules are untouched; the plan of Start moves rules
\* of the block by one, and those it has tagged have the tag.
StartInv(e) ==
    /\ phase[e] \in Idle \/ step[e] \in {"describe", "tag", "shift"} =>
         \A u \in UserRules : prio[u] = home[u]
    /\ phase[e] \in Idle \/ step[e] = "describe" => Tagged(e) = {}
    /\ step[e] \in {"tag", "shift"} =>
         \A p \in plan[e] :
           /\ p.rule \in Block /\ p.prio = home[p.rule] + 1
           /\ p \in left[e] \/ tag[p.rule] = e
    /\ step[e] \in {"tag", "shift"} =>
         left[e] \subseteq plan[e] /\ Tagged(e) \subseteq Moved(plan[e])
    /\ step[e] = "shift" => left[e] = {}

\* What a running Stop has read is so, and it misses no tag.
StopInv(e) ==
    /\ step[e] = "check" => suspect[e] \in Rules /\ prio[suspect[e]] = 1
    /\ step[e] = "delete" => suspect[e] = e
    /\ step[e] = "read" =>
         /\ left[e] = plan[e]
         /\ \A q \in unread[e] : q.prio = prio[q.rule]
         /\ \A p \in plan[e] : tag[p.rule] = e
         /\ \A u \in Tagged(e) : u \in Moved(plan[e]) \cup {q.rule : q \in unread[e]}
    /\ step[e] \in {"read", "untag", "restore"} =>
         \A p \in plan[e] : p.rule \in UserRules /\ p.prio = prio[p.rule] - 1
    /\ step[e] = "untag" => left[e] \subseteq plan[e] /\ Tagged(e) \subseteq Moved(left[e])
    /\ step[e] = "restore" => Tagged(e) = {}
    /\ step[e] \in {"untag", "restore"} => plan[e] # {}

\* What was moved will be found again, unless a Stop was cut off.
DownInv(e) == ~cut[e] => \A u \in UserRules : prio[u] # home[u] => u \in Marked(e)

\* What a Stop without an error has left.
CleanInv(e) == phase[e] = "stopped" => ~Exists(e) /\ Tagged(e) = {}

AttackInv(e) ==
    /\ Untouched(e) \/ Shifted(e)
    /\ OwnRuleInv(e) /\ StartInv(e) /\ StopInv(e) /\ DownInv(e) /\ CleanInv(e)

IInv ==
    /\ TypeOK /\ TagInv /\ HomeInv
    /\ \A e \in Executions : RequestInv(e) /\ (Alone(e) /\ moves = 0 => AttackInv(e))
-----------------------------------------------------------------------------
(* Sets of priorities                                                      *)

\* Priorities that are natural numbers have a smallest one.
LEMMA SmallestPriority ==
    ASSUME NEW S \in SUBSET Nat, S # {}
    PROVE  \E m \in S : \A n \in S : m <= n
<1>1. IsWellFoundedOn({ss \in Nat \X Nat : ss[1] < ss[2]}, Nat)
  BY NatLessThanWellFounded DEF OpToRel
<1>2. PICK m \in S : \A n \in S : ~(<<n, m>> \in {ss \in Nat \X Nat : ss[1] < ss[2]})
  BY <1>1, WFMin
<1>3. \A n \in S : ~(n < m)
  BY <1>2
<1> QED  BY <1>3
-----------------------------------------------------------------------------
(* Types                                                                   *)

AwsTyped ==
    /\ prio \in [Rules -> Nat] /\ home \in [UserRules -> Nat]
    /\ tag \in [Rules -> Executions \cup {None}]

RequestTyped ==
    /\ phase \in [Executions -> Phases] /\ step \in [Executions -> Steps]
    /\ suspect \in [Executions -> Rules \cup {None}]
    /\ plan \in [Executions -> SUBSET Pair] /\ left \in [Executions -> SUBSET Pair]
    /\ unread \in [Executions -> SUBSET Pair]

HistoryTyped == cut \in [Executions -> BOOLEAN] /\ raced \in BOOLEAN
BoundsTyped == faults \in Nat /\ moves \in Nat /\ stops \in [Executions -> Nat]

\* A request that returns leaves its variables well typed.
LEMMA ReturnTyped ==
    ASSUME TypeOK, NEW e \in Executions, NEW ok \in BOOLEAN, Return(e, ok)
    PROVE  RequestTyped' /\ HistoryTyped'
<1>1. Outcome(e, ok) \in Phases
  BY DEF Outcome, Phases
<1>2. RequestTyped'
  BY <1>1 DEF TypeOK, Return, RequestTyped, Steps
<1>3. cut' \in [Executions -> BOOLEAN] /\ raced' \in BOOLEAN
  BY DEF TypeOK, Return
<1> QED  BY <1>2, <1>3 DEF HistoryTyped

\* So does one that fails.
LEMMA FailsTyped ==
    ASSUME TypeOK, NEW e \in Executions, NEW accepted, Fails(e, accepted)
    PROVE  RequestTyped' /\ HistoryTyped' /\ faults' \in Nat
<1>1. Return(e, FALSE) /\ (NoFault \/ Fault)
  BY Zenon DEF Fails
<1>2. RequestTyped' /\ HistoryTyped'
  BY <1>1, ReturnTyped, Zenon
<1>3. faults' \in Nat
  BY <1>1 DEF TypeOK, Fault, NoFault
<1> QED  BY <1>2, <1>3

\* The rules that are listed, shifted and restored are pairs.
LEMMA PairsTyped ==
    ASSUME TypeOK, NEW e \in Executions, NEW page \in SUBSET Pair
    PROVE  Described \subseteq Pair /\ NewPriorityPairs \subseteq Pair /\ OldPriorities(page, e) \subseteq Pair
BY DEF TypeOK, Described, NewPriorityPairs, OldPriorities, Pair, Existing

\* What AWS sets are priorities.
LEMMA SetTyped ==
    ASSUME TypeOK, NEW P \in SUBSET Pair, CanSet(P), Set(P)
    PROVE  prio' \in [Rules -> Nat]
<1>1. ASSUME NEW r \in Rules, r \in Moved(P)
      PROVE  (CHOOSE p \in P : p.rule = r).prio \in Nat
  <2>1. PICK p \in P : p.rule = r
    BY <1>1 DEF Moved
  <2>2. (CHOOSE q \in P : q.rule = r) \in P
    BY <2>1
  <2>3. \A q \in P : q.prio \in Int /\ q.prio >= 1
    BY DEF CanSet, Pair
  <2> QED  BY <2>2, <2>3
<1> QED  BY <1>1 DEF Set, TypeOK

\* The phase and the local variables of the requests keep their types.
LEMMA RequestTypedStep == TypeOK /\ [Next]_vars => RequestTyped'
<1> SUFFICES ASSUME TypeOK, [Next]_vars PROVE RequestTyped'
  OBVIOUS
<1> USE DEF aws, locals, history, TypeOK, RequestTyped, GoTo, Phases, Steps, Return, Outcome
<1>1. ASSUME NEW e \in Executions, Prepare(e) PROVE RequestTyped'
  BY <1>1 DEF Prepare
<1>2. ASSUME NEW e \in Executions, BeginStart(e) PROVE RequestTyped'
  BY <1>2 DEF BeginStart, Receive
<1>3. ASSUME NEW e \in Executions, BeginStop(e) PROVE RequestTyped'
  BY <1>3 DEF BeginStop, Receive
<1>4. ASSUME NEW e \in Executions, DescribeRules(e) PROVE RequestTyped'
  BY <1>4, PairsTyped DEF DescribeRules
<1>5. ASSUME NEW e \in Executions, TagRule(e) PROVE RequestTyped'
  BY <1>5, FailsTyped DEF TagRule
<1>6. ASSUME NEW e \in Executions, ShiftRules(e) PROVE RequestTyped'
  BY <1>6, FailsTyped DEF ShiftRules
<1>7. ASSUME NEW e \in Executions, CreateRule(e) PROVE RequestTyped'
  BY <1>7, FailsTyped DEF CreateRule
<1>8. ASSUME NEW e \in Executions, FindRule(e) PROVE RequestTyped'
  <2>1. At(1) \subseteq Rules
    BY DEF At, Existing
  <2>2. suspect' \in [Executions -> Rules \cup {None}]
    BY <1>8, <2>1 DEF FindRule, Return, TypeOK
  <2>3. step' \in [Executions -> Steps] /\ phase' \in [Executions -> Phases]
    BY <1>8 DEF FindRule, Return, Outcome, GoTo, TypeOK, Steps, Phases
  <2>4. /\ plan' \in [Executions -> SUBSET Pair] /\ left' \in [Executions -> SUBSET Pair]
        /\ unread' \in [Executions -> SUBSET Pair]
    BY <1>8 DEF FindRule, Return, Outcome, TypeOK
  <2> QED  BY <2>2, <2>3, <2>4 DEF RequestTyped
<1>9. ASSUME NEW e \in Executions, CheckRule(e) PROVE RequestTyped'
  BY <1>9, FailsTyped DEF CheckRule
<1>10. ASSUME NEW e \in Executions, DeleteRule(e) PROVE RequestTyped'
  BY <1>10, FailsTyped DEF DeleteRule
<1>11. ASSUME NEW e \in Executions, ListRules(e) PROVE RequestTyped'
  BY <1>11, PairsTyped DEF ListRules
<1>12. ASSUME NEW e \in Executions, ReadTags(e) PROVE RequestTyped'
  <2> HIDE DEF Phases, Steps
  <2>1. PICK page \in SUBSET unread[e] :
          \/ /\ plan' = [plan EXCEPT ![e] = @ \cup OldPriorities(page, e)]
             /\ left' = [left EXCEPT ![e] = @ \cup OldPriorities(page, e)]
             /\ unread' = [unread EXCEPT ![e] = @ \ page]
             /\ UNCHANGED <<phase, step, suspect>>
          \/ Fails(e, \A r \in page : Exists(r.rule))
    BY <1>12, Zenon DEF ReadTags
  <2>2. CASE Fails(e, \A r \in page : Exists(r.rule))
    BY <2>2, FailsTyped
  <2>3. page \in SUBSET Pair /\ OldPriorities(page, e) \subseteq Pair
    BY PairsTyped DEF TypeOK
  <2>4. CASE UNCHANGED <<phase, step, suspect>> /\ plan' = [plan EXCEPT ![e] = @ \cup OldPriorities(page, e)]
    BY <2>1, <2>2, <2>3, <2>4 DEF TypeOK, RequestTyped
  <2> QED  BY <2>1, <2>2, <2>4
<1>13. ASSUME NEW e \in Executions, EndRead(e) PROVE RequestTyped'
  BY <1>13 DEF EndRead
<1>14. ASSUME NEW e \in Executions, UntagRule(e) PROVE RequestTyped'
  BY <1>14, FailsTyped DEF UntagRule
<1>15. ASSUME NEW e \in Executions, RestorePriorities(e) PROVE RequestTyped'
  BY <1>15, FailsTyped DEF RestorePriorities
<1>16. ASSUME NEW r \in UserRules, OwnerMoves(r) PROVE RequestTyped'
  BY <1>16 DEF OwnerMoves
<1>17. ASSUME NEW r \in UserRules, OwnerDeletes(r) PROVE RequestTyped'
  BY <1>17 DEF OwnerDeletes
<1>18. ASSUME Crash PROVE RequestTyped'
  BY <1>18 DEF Crash
<1>19. ASSUME UNCHANGED vars PROVE RequestTyped'
  BY <1>19 DEF vars
<1> QED
  BY <1>1, <1>2, <1>3, <1>4, <1>5, <1>6, <1>7, <1>8, <1>9, <1>10, <1>11, <1>12, <1>13, <1>14, <1>15,
     <1>16, <1>17, <1>18, <1>19
  DEF Next, Platform, Handler

\* So do the listener and the tags,
LEMMA AwsTypedStep == TypeOK /\ [Next]_vars => AwsTyped'
<1> SUFFICES ASSUME TypeOK, [Next]_vars PROVE AwsTyped'
  OBVIOUS
<1> USE DEF aws, locals, history, TypeOK, AwsTyped, Rules, Absent, Return, Outcome
<1>1. ASSUME NEW e \in Executions, Prepare(e) PROVE AwsTyped'
  BY <1>1 DEF Prepare
<1>2. ASSUME NEW e \in Executions, BeginStart(e) PROVE AwsTyped'
  BY <1>2 DEF BeginStart, Receive
<1>3. ASSUME NEW e \in Executions, BeginStop(e) PROVE AwsTyped'
  BY <1>3 DEF BeginStop, Receive
<1>4. ASSUME NEW e \in Executions, DescribeRules(e) PROVE AwsTyped'
  BY <1>4 DEF DescribeRules, Pair
<1>5. ASSUME NEW e \in Executions, TagRule(e) PROVE AwsTyped'
  BY <1>5, ConstantsAssumption DEF TagRule, Pair, TagValue
<1>6. ASSUME NEW e \in Executions, ShiftRules(e) PROVE AwsTyped'
  BY <1>6, SetTyped DEF ShiftRules, Pair
<1>7. ASSUME NEW e \in Executions, CreateRule(e) PROVE AwsTyped'
  BY <1>7, ConstantsAssumption DEF CreateRule, Pair
<1>8. ASSUME NEW e \in Executions, FindRule(e) PROVE AwsTyped'
  BY <1>8 DEF FindRule, Pair
<1>9. ASSUME NEW e \in Executions, CheckRule(e) PROVE AwsTyped'
  BY <1>9 DEF CheckRule, Pair
<1>10. ASSUME NEW e \in Executions, DeleteRule(e) PROVE AwsTyped'
  BY <1>10, ConstantsAssumption DEF DeleteRule, Pair
<1>11. ASSUME NEW e \in Executions, ListRules(e) PROVE AwsTyped'
  BY <1>11 DEF ListRules, Pair
<1>12. ASSUME NEW e \in Executions, ReadTags(e) PROVE AwsTyped'
  BY <1>12 DEF ReadTags, Pair
<1>13. ASSUME NEW e \in Executions, EndRead(e) PROVE AwsTyped'
  BY <1>13 DEF EndRead
<1>14. ASSUME NEW e \in Executions, UntagRule(e) PROVE AwsTyped'
  BY <1>14, ConstantsAssumption DEF UntagRule, Pair
<1>15. ASSUME NEW e \in Executions, RestorePriorities(e) PROVE AwsTyped'
  BY <1>15, SetTyped DEF RestorePriorities, Pair
<1>16. ASSUME NEW r \in UserRules, OwnerMoves(r) PROVE AwsTyped'
  BY <1>16, ConstantsAssumption DEF OwnerMoves
<1>17. ASSUME NEW r \in UserRules, OwnerDeletes(r) PROVE AwsTyped'
  BY <1>17, ConstantsAssumption DEF OwnerDeletes
<1>18. ASSUME Crash PROVE AwsTyped'
  BY <1>18 DEF Crash
<1>19. ASSUME UNCHANGED vars PROVE AwsTyped'
  BY <1>19 DEF vars
<1> QED
  BY <1>1, <1>2, <1>3, <1>4, <1>5, <1>6, <1>7, <1>8, <1>9, <1>10, <1>11, <1>12, <1>13, <1>14, <1>15,
     <1>16, <1>17, <1>18, <1>19
  DEF Next, Platform, Handler

\* the history variables,
LEMMA HistoryTypedStep == TypeOK /\ [Next]_vars => HistoryTyped'
<1> SUFFICES ASSUME TypeOK, [Next]_vars PROVE HistoryTyped'
  OBVIOUS
<1> USE DEF aws, locals, history, TypeOK, HistoryTyped
<1>1. ASSUME NEW e \in Executions, Prepare(e) PROVE HistoryTyped'
  BY <1>1 DEF Prepare
<1>2. ASSUME NEW e \in Executions, BeginStart(e) PROVE HistoryTyped'
  BY <1>2 DEF BeginStart, Receive
<1>3. ASSUME NEW e \in Executions, BeginStop(e) PROVE HistoryTyped'
  BY <1>3 DEF BeginStop, Receive
<1>4. ASSUME NEW e \in Executions, DescribeRules(e) PROVE HistoryTyped'
  BY <1>4, ReturnTyped DEF DescribeRules
<1>5. ASSUME NEW e \in Executions, TagRule(e) PROVE HistoryTyped'
  BY <1>5, ReturnTyped, FailsTyped DEF TagRule
<1>6. ASSUME NEW e \in Executions, ShiftRules(e) PROVE HistoryTyped'
  BY <1>6, ReturnTyped, FailsTyped DEF ShiftRules
<1>7. ASSUME NEW e \in Executions, CreateRule(e) PROVE HistoryTyped'
  BY <1>7, ReturnTyped, FailsTyped DEF CreateRule
<1>8. ASSUME NEW e \in Executions, FindRule(e) PROVE HistoryTyped'
  BY <1>8, ReturnTyped DEF FindRule
<1>9. ASSUME NEW e \in Executions, CheckRule(e) PROVE HistoryTyped'
  BY <1>9, ReturnTyped, FailsTyped DEF CheckRule
<1>10. ASSUME NEW e \in Executions, DeleteRule(e) PROVE HistoryTyped'
  BY <1>10, ReturnTyped, FailsTyped DEF DeleteRule
<1>11. ASSUME NEW e \in Executions, ListRules(e) PROVE HistoryTyped'
  BY <1>11, ReturnTyped DEF ListRules
<1>12. ASSUME NEW e \in Executions, ReadTags(e) PROVE HistoryTyped'
  BY <1>12, ReturnTyped, FailsTyped DEF ReadTags
<1>13. ASSUME NEW e \in Executions, EndRead(e) PROVE HistoryTyped'
  BY <1>13, ReturnTyped DEF EndRead
<1>14. ASSUME NEW e \in Executions, UntagRule(e) PROVE HistoryTyped'
  BY <1>14, ReturnTyped, FailsTyped DEF UntagRule
<1>15. ASSUME NEW e \in Executions, RestorePriorities(e) PROVE HistoryTyped'
  BY <1>15, ReturnTyped, FailsTyped DEF RestorePriorities
<1>16. ASSUME NEW r \in UserRules, OwnerMoves(r) PROVE HistoryTyped'
  BY <1>16 DEF OwnerMoves
<1>17. ASSUME NEW r \in UserRules, OwnerDeletes(r) PROVE HistoryTyped'
  BY <1>17 DEF OwnerDeletes
<1>18. ASSUME Crash PROVE HistoryTyped'
  BY <1>18 DEF Crash
<1>19. ASSUME UNCHANGED vars PROVE HistoryTyped'
  BY <1>19 DEF vars
<1> QED
  BY <1>1, <1>2, <1>3, <1>4, <1>5, <1>6, <1>7, <1>8, <1>9, <1>10, <1>11, <1>12, <1>13, <1>14, <1>15,
     <1>16, <1>17, <1>18, <1>19
  DEF Next, Platform, Handler

\* and the counters.
LEMMA BoundsTypedStep == TypeOK /\ [Next]_vars => BoundsTyped'
<1> SUFFICES ASSUME TypeOK, [Next]_vars PROVE BoundsTyped'
  OBVIOUS
<1> USE DEF aws, locals, history, TypeOK, BoundsTyped, Fault, NoFault, Return, Outcome
<1>1. ASSUME NEW e \in Executions, Prepare(e) PROVE BoundsTyped'
  BY <1>1 DEF Prepare
<1>2. ASSUME NEW e \in Executions, BeginStart(e) PROVE BoundsTyped'
  BY <1>2 DEF BeginStart, Receive
<1>3. ASSUME NEW e \in Executions, BeginStop(e) PROVE BoundsTyped'
  BY <1>3 DEF BeginStop, Receive
<1>4. ASSUME NEW e \in Executions, DescribeRules(e) PROVE BoundsTyped'
  BY <1>4 DEF DescribeRules
<1>5. ASSUME NEW e \in Executions, TagRule(e) PROVE BoundsTyped'
  BY <1>5, FailsTyped DEF TagRule
<1>6. ASSUME NEW e \in Executions, ShiftRules(e) PROVE BoundsTyped'
  BY <1>6, FailsTyped DEF ShiftRules
<1>7. ASSUME NEW e \in Executions, CreateRule(e) PROVE BoundsTyped'
  BY <1>7, FailsTyped DEF CreateRule
<1>8. ASSUME NEW e \in Executions, FindRule(e) PROVE BoundsTyped'
  BY <1>8 DEF FindRule
<1>9. ASSUME NEW e \in Executions, CheckRule(e) PROVE BoundsTyped'
  BY <1>9, FailsTyped DEF CheckRule
<1>10. ASSUME NEW e \in Executions, DeleteRule(e) PROVE BoundsTyped'
  BY <1>10, FailsTyped DEF DeleteRule
<1>11. ASSUME NEW e \in Executions, ListRules(e) PROVE BoundsTyped'
  BY <1>11 DEF ListRules
<1>12. ASSUME NEW e \in Executions, ReadTags(e) PROVE BoundsTyped'
  BY <1>12, FailsTyped DEF ReadTags
<1>13. ASSUME NEW e \in Executions, EndRead(e) PROVE BoundsTyped'
  BY <1>13 DEF EndRead
<1>14. ASSUME NEW e \in Executions, UntagRule(e) PROVE BoundsTyped'
  BY <1>14, FailsTyped DEF UntagRule
<1>15. ASSUME NEW e \in Executions, RestorePriorities(e) PROVE BoundsTyped'
  BY <1>15, FailsTyped DEF RestorePriorities
<1>16. ASSUME NEW r \in UserRules, OwnerMoves(r) PROVE BoundsTyped'
  BY <1>16 DEF OwnerMoves
<1>17. ASSUME NEW r \in UserRules, OwnerDeletes(r) PROVE BoundsTyped'
  BY <1>17 DEF OwnerDeletes
<1>18. ASSUME Crash PROVE BoundsTyped'
  BY <1>18 DEF Crash
<1>19. ASSUME UNCHANGED vars PROVE BoundsTyped'
  BY <1>19 DEF vars
<1> QED
  BY <1>1, <1>2, <1>3, <1>4, <1>5, <1>6, <1>7, <1>8, <1>9, <1>10, <1>11, <1>12, <1>13, <1>14, <1>15,
     <1>16, <1>17, <1>18, <1>19
  DEF Next, Platform, Handler

\* The initial states are well typed.
LEMMA InitTyped == Init => TypeOK
<1> SUFFICES ASSUME Init PROVE TypeOK
  OBVIOUS
<1>1. home \in [UserRules -> Nat] /\ prio \in [Rules -> Nat]
  BY DEF Init, Absent
<1>2. tag \in [Rules -> Executions \cup {None}]
  BY DEF Init
<1>3. /\ phase \in [Executions -> Phases] /\ step \in [Executions -> Steps]
      /\ cut \in [Executions -> BOOLEAN] /\ raced \in BOOLEAN
  BY DEF Init, Phases, Steps
<1> QED  BY <1>1, <1>2, <1>3 DEF Init, TypeOK

\* Every step keeps the types.
LEMMA TypedStep == TypeOK /\ [Next]_vars => TypeOK'
BY RequestTypedStep, AwsTypedStep, HistoryTypedStep, BoundsTypedStep
DEF TypeOK, RequestTyped, AwsTyped, HistoryTyped, BoundsTyped

\* TypeOK: the listener and the local variables of the handlers keep their types.
THEOREM TypeCorrect == Spec => []TypeOK
BY InitTyped, TypedStep, PTL DEF Spec

-----------------------------------------------------------------------------
(* Requests, tags and the owner's choice                                   *)

\* What AWS sets are the priorities of rules that are there, and stay there.
LEMMA SetKeepsRules ==
    ASSUME TypeOK, NEW P \in SUBSET Pair, CanSet(P), Set(P)
    PROVE  \A r \in Rules :
             /\ Exists(r)' <=> Exists(r)
             /\ r \notin Moved(P) => prio'[r] = prio[r]
             /\ \A p \in P : p.rule = r => prio'[r] \in {q.prio : q \in {o \in P : o.rule = r}}
<1> SUFFICES ASSUME NEW r \in Rules
             PROVE  /\ Exists(r)' <=> Exists(r)
                    /\ r \notin Moved(P) => prio'[r] = prio[r]
                    /\ \A p \in P : p.rule = r => prio'[r] \in {q.prio : q \in {o \in P : o.rule = r}}
  OBVIOUS
<1>1. CASE r \notin Moved(P)
  BY <1>1 DEF Set, Exists, Moved, TypeOK
<1>2. CASE r \in Moved(P)
  <2>1. PICK p \in P : p.rule = r
    BY <1>2 DEF Moved
  <2> DEFINE c == CHOOSE q \in P : q.rule = r
  <2>2. c \in P /\ c.rule = r
    BY <2>1
  <2>3. prio'[r] = c.prio
    BY <1>2 DEF Set
  <2> HIDE DEF c
  <2>4. c.prio \in Int /\ c.prio >= 1 /\ Exists(r)
    BY <2>2 DEF CanSet, Pair
  <2> QED  BY <1>2, <2>2, <2>3, <2>4 DEF Exists, Absent
<1> QED  BY <1>1, <1>2

\* Only CreateRule makes a rule.
LEMMA WhoAppears ==
    ASSUME TypeOK, [Next]_vars, NEW x \in Rules, Exists(x)'
    PROVE  Exists(x) \/ (x \in Executions /\ CreateRule(x))
<1> DEFINE Claim == Exists(x) \/ (x \in Executions /\ CreateRule(x))
<1> USE ConstantsAssumption DEF aws, Exists, TypeOK, Rules
<1>1. ASSUME NEW e \in Executions, Prepare(e) PROVE Claim
  BY <1>1 DEF Prepare
<1>2. ASSUME NEW e \in Executions, BeginStart(e) PROVE Claim
  BY <1>2 DEF BeginStart
<1>3. ASSUME NEW e \in Executions, BeginStop(e) PROVE Claim
  BY <1>3 DEF BeginStop
<1>4. ASSUME NEW e \in Executions, DescribeRules(e) PROVE Claim
  BY <1>4 DEF DescribeRules, Return, Outcome
<1>5. ASSUME NEW e \in Executions, TagRule(e) PROVE Claim
  BY <1>5 DEF TagRule, Return, Outcome
<1>6. ASSUME NEW e \in Executions, ShiftRules(e) PROVE Claim
  <2>1. prio' = prio \/ (CanSet(plan[e]) /\ Set(plan[e]))
    BY <1>6 DEF ShiftRules, Return, Outcome
  <2> QED  BY <2>1, SetKeepsRules
<1>7. ASSUME NEW e \in Executions, CreateRule(e) PROVE Claim
  <2>1. prio' = prio \/ prio' = [prio EXCEPT ![e] = 1]
    BY <1>7 DEF CreateRule, Return, Outcome
  <2> QED  BY <1>7, <2>1
<1>8. ASSUME NEW e \in Executions, FindRule(e) PROVE Claim
  BY <1>8 DEF FindRule, Return, Outcome
<1>9. ASSUME NEW e \in Executions, CheckRule(e) PROVE Claim
  BY <1>9 DEF CheckRule
<1>10. ASSUME NEW e \in Executions, DeleteRule(e) PROVE Claim
  <2>1. prio' = prio \/ prio' = [prio EXCEPT ![suspect[e]] = Absent]
    BY <1>10 DEF DeleteRule, Return, Outcome
  <2> QED  BY <2>1 DEF Absent
<1>11. ASSUME NEW e \in Executions, ListRules(e) PROVE Claim
  BY <1>11 DEF ListRules, Return, Outcome
<1>12. ASSUME NEW e \in Executions, ReadTags(e) PROVE Claim
  BY <1>12 DEF ReadTags, Return, Outcome
<1>13. ASSUME NEW e \in Executions, EndRead(e) PROVE Claim
  BY <1>13 DEF EndRead, Return, Outcome
<1>14. ASSUME NEW e \in Executions, UntagRule(e) PROVE Claim
  BY <1>14 DEF UntagRule, Return, Outcome
<1>15. ASSUME NEW e \in Executions, RestorePriorities(e) PROVE Claim
  <2>1. prio' = prio \/ (CanSet(plan[e]) /\ Set(plan[e]))
    BY <1>15 DEF RestorePriorities, Return, Outcome
  <2> QED  BY <2>1, SetKeepsRules
<1>16. ASSUME NEW r \in UserRules, OwnerMoves(r) PROVE Claim
  BY <1>16 DEF OwnerMoves
<1>17. ASSUME NEW r \in UserRules, OwnerDeletes(r) PROVE Claim
  BY <1>17 DEF OwnerDeletes
<1>18. ASSUME Crash PROVE Claim
  BY <1>18 DEF Crash
<1>19. ASSUME UNCHANGED vars PROVE Claim
  BY <1>19 DEF vars
<1> QED
  BY <1>1, <1>2, <1>3, <1>4, <1>5, <1>6, <1>7, <1>8, <1>9, <1>10, <1>11, <1>12, <1>13, <1>14, <1>15,
     <1>16, <1>17, <1>18, <1>19
  DEF Next, Platform, Handler

\* A rule that is gone has no tag.
LEMMA TagStep == TypeOK /\ TagInv /\ [Next]_vars => TagInv'
<1> SUFFICES ASSUME TypeOK, TagInv, [Next]_vars, NEW x \in Rules, tag'[x] # None PROVE Exists(x)'
  BY DEF TagInv
<1> USE ConstantsAssumption DEF aws, Exists, TypeOK, TagInv, Rules
<1>1. ASSUME NEW e \in Executions, Prepare(e) PROVE Exists(x)'
  BY <1>1 DEF Prepare
<1>2. ASSUME NEW e \in Executions, BeginStart(e) PROVE Exists(x)'
  BY <1>2 DEF BeginStart
<1>3. ASSUME NEW e \in Executions, BeginStop(e) PROVE Exists(x)'
  BY <1>3 DEF BeginStop
<1>4. ASSUME NEW e \in Executions, DescribeRules(e) PROVE Exists(x)'
  BY <1>4 DEF DescribeRules, Return, Outcome
<1>5. ASSUME NEW e \in Executions, TagRule(e) PROVE Exists(x)'
  <2>1. /\ prio' = prio
        /\ \/ tag' = tag
           \/ \E p \in left[e] : Exists(p.rule) /\ tag' = [tag EXCEPT ![p.rule] = TagValue(e, p.rule)]
    BY <1>5 DEF TagRule, Return, Outcome
  <2> QED  BY <2>1
<1>6. ASSUME NEW e \in Executions, ShiftRules(e) PROVE Exists(x)'
  <2>1. tag' = tag /\ (prio' = prio \/ (CanSet(plan[e]) /\ Set(plan[e])))
    BY <1>6 DEF ShiftRules, Return, Outcome
  <2> QED  BY <2>1, SetKeepsRules
<1>7. ASSUME NEW e \in Executions, CreateRule(e) PROVE Exists(x)'
  <2>1. tag' = tag /\ (prio' = prio \/ prio' = [prio EXCEPT ![e] = 1])
    BY <1>7 DEF CreateRule, Return, Outcome
  <2> QED  BY <2>1 DEF Absent
<1>8. ASSUME NEW e \in Executions, FindRule(e) PROVE Exists(x)'
  BY <1>8 DEF FindRule, Return, Outcome
<1>9. ASSUME NEW e \in Executions, CheckRule(e) PROVE Exists(x)'
  BY <1>9 DEF CheckRule
<1>10. ASSUME NEW e \in Executions, DeleteRule(e) PROVE Exists(x)'
  <2>1. \/ prio' = prio /\ tag' = tag
        \/ prio' = [prio EXCEPT ![suspect[e]] = Absent] /\ tag' = [tag EXCEPT ![suspect[e]] = None]
    BY <1>10 DEF DeleteRule, Return, Outcome
  <2> QED  BY <2>1
<1>11. ASSUME NEW e \in Executions, ListRules(e) PROVE Exists(x)'
  BY <1>11 DEF ListRules, Return, Outcome
<1>12. ASSUME NEW e \in Executions, ReadTags(e) PROVE Exists(x)'
  BY <1>12 DEF ReadTags, Return, Outcome
<1>13. ASSUME NEW e \in Executions, EndRead(e) PROVE Exists(x)'
  BY <1>13 DEF EndRead, Return, Outcome
<1>14. ASSUME NEW e \in Executions, UntagRule(e) PROVE Exists(x)'
  <2>1. /\ prio' = prio
        /\ \/ tag' = tag
           \/ \E p \in left[e] : Exists(p.rule) /\ tag' = [tag EXCEPT ![p.rule] = None]
    BY <1>14 DEF UntagRule, Return, Outcome
  <2> QED  BY <2>1
<1>15. ASSUME NEW e \in Executions, RestorePriorities(e) PROVE Exists(x)'
  <2>1. tag' = tag /\ (prio' = prio \/ (CanSet(plan[e]) /\ Set(plan[e])))
    BY <1>15 DEF RestorePriorities, Return, Outcome
  <2> QED  BY <2>1, SetKeepsRules
<1>16. ASSUME NEW r \in UserRules, OwnerMoves(r) PROVE Exists(x)'
  BY <1>16 DEF OwnerMoves, Absent
<1>17. ASSUME NEW r \in UserRules, OwnerDeletes(r) PROVE Exists(x)'
  BY <1>17 DEF OwnerDeletes, Absent
<1>18. ASSUME Crash PROVE Exists(x)'
  BY <1>18 DEF Crash
<1>19. ASSUME UNCHANGED vars PROVE Exists(x)'
  BY <1>19 DEF vars
<1> QED
  BY <1>1, <1>2, <1>3, <1>4, <1>5, <1>6, <1>7, <1>8, <1>9, <1>10, <1>11, <1>12, <1>13, <1>14, <1>15,
     <1>16, <1>17, <1>18, <1>19
  DEF Next, Platform, Handler

\* What a request may do next.
LEMMA RequestStep ==
    ASSUME TypeOK, [Next]_vars, NEW d \in Executions, RequestInv(d)
    PROVE  RequestInv(d)' /\ (phase'[d] \in Idle => phase[d] \in Idle)
<1> DEFINE Claim ==
      /\ step'[d] \in StartSteps <=> phase'[d] = "starting"
      /\ step'[d] \in StopSteps <=> phase'[d] = "stopping"
      /\ step'[d] \notin {"tag", "shift", "create", "read", "untag", "restore"} =>
           plan'[d] = {} /\ left'[d] = {}
      /\ phase'[d] \in Idle => phase[d] \in Idle
<1> USE DEF aws, locals, history, StartSteps, StopSteps, Idle, RequestInv, TypeOK, Return, Outcome, GoTo, Fails,
            MayStop, Steps, Phases
<1>0. Claim => RequestInv(d)' /\ (phase'[d] \in Idle => phase[d] \in Idle)
  BY WhoAppears DEF CreateRule, Rules
<1>1. ASSUME NEW e \in Executions, Prepare(e) PROVE Claim
  BY <1>1 DEF Prepare
<1>2. ASSUME NEW e \in Executions, BeginStart(e) PROVE Claim
  BY <1>2 DEF BeginStart, Receive
<1>3. ASSUME NEW e \in Executions, BeginStop(e) PROVE Claim
  BY <1>3 DEF BeginStop, Receive
<1>4. ASSUME NEW e \in Executions, DescribeRules(e) PROVE Claim
  BY <1>4 DEF DescribeRules
<1>5. ASSUME NEW e \in Executions, TagRule(e) PROVE Claim
  BY <1>5 DEF TagRule
<1>6. ASSUME NEW e \in Executions, ShiftRules(e) PROVE Claim
  BY <1>6 DEF ShiftRules
<1>7. ASSUME NEW e \in Executions, CreateRule(e) PROVE Claim
  BY <1>7 DEF CreateRule
<1>8. ASSUME NEW e \in Executions, FindRule(e) PROVE Claim
  BY <1>8 DEF FindRule
<1>9. ASSUME NEW e \in Executions, CheckRule(e) PROVE Claim
  BY <1>9 DEF CheckRule
<1>10. ASSUME NEW e \in Executions, DeleteRule(e) PROVE Claim
  BY <1>10 DEF DeleteRule
<1>11. ASSUME NEW e \in Executions, ListRules(e) PROVE Claim
  BY <1>11 DEF ListRules
<1>12. ASSUME NEW e \in Executions, ReadTags(e) PROVE Claim
  BY <1>12 DEF ReadTags
<1>13. ASSUME NEW e \in Executions, EndRead(e) PROVE Claim
  BY <1>13 DEF EndRead
<1>14. ASSUME NEW e \in Executions, UntagRule(e) PROVE Claim
  BY <1>14 DEF UntagRule
<1>15. ASSUME NEW e \in Executions, RestorePriorities(e) PROVE Claim
  BY <1>15 DEF RestorePriorities
<1>16. ASSUME NEW r \in UserRules, OwnerMoves(r) PROVE Claim
  BY <1>16 DEF OwnerMoves
<1>17. ASSUME NEW r \in UserRules, OwnerDeletes(r) PROVE Claim
  BY <1>17 DEF OwnerDeletes
<1>18. ASSUME Crash PROVE Claim
  BY <1>18 DEF Crash
<1>19. ASSUME UNCHANGED vars PROVE Claim
  BY <1>19 DEF vars
<1> QED
  BY <1>0, <1>1, <1>2, <1>3, <1>4, <1>5, <1>6, <1>7, <1>8, <1>9, <1>10, <1>11, <1>12, <1>13, <1>14, <1>15,
     <1>16, <1>17, <1>18, <1>19
  DEF Next, Platform, Handler

\* The owner's choice does not change while the owner does nothing.
LEMMA HomeStep ==
    ASSUME TypeOK, HomeInv, [Next]_vars
    PROVE  /\ HomeInv'
           /\ moves' = 0 => moves = 0 /\ home' = home
<1> DEFINE Claim == moves' = moves /\ home' = home
<1> USE DEF aws, Return, Outcome
<1>0. Claim => HomeInv' /\ (moves' = 0 => moves = 0 /\ home' = home)
  BY DEF HomeInv
<1>1. ASSUME NEW e \in Executions, Prepare(e) PROVE Claim
  BY <1>1 DEF Prepare
<1>2. ASSUME NEW e \in Executions, BeginStart(e) PROVE Claim
  BY <1>2 DEF BeginStart, Receive
<1>3. ASSUME NEW e \in Executions, BeginStop(e) PROVE Claim
  BY <1>3 DEF BeginStop, Receive
<1>4. ASSUME NEW e \in Executions, DescribeRules(e) PROVE Claim
  BY <1>4 DEF DescribeRules
<1>5. ASSUME NEW e \in Executions, TagRule(e) PROVE Claim
  BY <1>5 DEF TagRule
<1>6. ASSUME NEW e \in Executions, ShiftRules(e) PROVE Claim
  BY <1>6 DEF ShiftRules
<1>7. ASSUME NEW e \in Executions, CreateRule(e) PROVE Claim
  BY <1>7 DEF CreateRule
<1>8. ASSUME NEW e \in Executions, FindRule(e) PROVE Claim
  BY <1>8 DEF FindRule
<1>9. ASSUME NEW e \in Executions, CheckRule(e) PROVE Claim
  BY <1>9 DEF CheckRule
<1>10. ASSUME NEW e \in Executions, DeleteRule(e) PROVE Claim
  BY <1>10 DEF DeleteRule
<1>11. ASSUME NEW e \in Executions, ListRules(e) PROVE Claim
  BY <1>11 DEF ListRules
<1>12. ASSUME NEW e \in Executions, ReadTags(e) PROVE Claim
  BY <1>12 DEF ReadTags
<1>13. ASSUME NEW e \in Executions, EndRead(e) PROVE Claim
  BY <1>13 DEF EndRead
<1>14. ASSUME NEW e \in Executions, UntagRule(e) PROVE Claim
  BY <1>14 DEF UntagRule
<1>15. ASSUME NEW e \in Executions, RestorePriorities(e) PROVE Claim
  BY <1>15 DEF RestorePriorities
<1>16. ASSUME NEW r \in UserRules, OwnerMoves(r) PROVE moves' = moves + 1
  BY <1>16 DEF OwnerMoves
<1>17. ASSUME NEW r \in UserRules, OwnerDeletes(r) PROVE moves' = moves + 1
  BY <1>17 DEF OwnerDeletes
<1>18. ASSUME Crash PROVE Claim
  BY <1>18 DEF Crash
<1>19. ASSUME UNCHANGED vars PROVE Claim
  BY <1>19 DEF vars
<1>20. (\E r \in UserRules : OwnerMoves(r) \/ OwnerDeletes(r)) => HomeInv' /\ moves' # 0
  BY <1>16, <1>17 DEF TypeOK, HomeInv
<1> QED
  BY <1>0, <1>1, <1>2, <1>3, <1>4, <1>5, <1>6, <1>7, <1>8, <1>9, <1>10, <1>11, <1>12, <1>13, <1>14,
     <1>15, <1>18, <1>19, <1>20
  DEF Next, Platform, Handler

-----------------------------------------------------------------------------
(* An attack that is alone                                                 *)

\* What is known of the state in which an attack that is alone makes a step.
Lone(e) ==
    /\ TypeOK /\ TagInv /\ RequestInv(e) /\ AttackInv(e)
    /\ \A u \in UserRules : home[u] \in Nat \ {0}
    /\ \A f \in Executions \ {e} : ~Exists(f)

\* The others make no step that the attack or the listener notices.
LEMMA Solo ==
    ASSUME IInv, [Next]_vars, NEW e \in Executions, Alone(e)', moves' = 0
    PROVE  /\ Lone(e) /\ home' = home
           /\ \/ Prepare(e) \/ BeginStart(e) \/ BeginStop(e) \/ Handler(e) \/ Crash
              \/ UNCHANGED <<prio, tag, phase[e], step[e], suspect[e], plan[e], left[e], unread[e], cut[e]>>
<1> DEFINE Same == UNCHANGED <<prio, tag, phase[e], step[e], suspect[e], plan[e], left[e], unread[e], cut[e]>>
<1>1. moves = 0 /\ home' = home
  BY HomeStep DEF IInv
<1>2. \A f \in Executions \ {e} : phase[f] \in Idle /\ phase'[f] \in Idle
  BY RequestStep DEF IInv, Alone, Idle
<1>3. Lone(e)
  BY <1>1, <1>2 DEF IInv, Lone, HomeInv, Alone, Idle, RequestInv
<1>4. ASSUME NEW f \in Executions \ {e}, Platform(f) \/ Handler(f) PROVE Same
  <2>1. phase[f] \in Idle /\ phase'[f] \in Idle /\ step[f] \notin StartSteps \cup StopSteps
    BY <1>2 DEF IInv, RequestInv, Idle
  <2>2. ~Handler(f)
    BY <2>1 DEF Handler, DescribeRules, TagRule, ShiftRules, CreateRule, FindRule, CheckRule, DeleteRule,
                ListRules, ReadTags, EndRead, UntagRule, RestorePriorities, StartSteps, StopSteps
  <2>3. ~BeginStart(f) /\ ~BeginStop(f)
    BY <2>1 DEF BeginStart, BeginStop, Receive, Idle, IInv, TypeOK
  <2> QED  BY <1>4, <2>2, <2>3 DEF Platform, Prepare, IInv, TypeOK, aws, locals, history
<1>5. ASSUME NEW r \in UserRules, OwnerMoves(r) \/ OwnerDeletes(r) PROVE FALSE
  BY <1>1, <1>5 DEF OwnerMoves, OwnerDeletes
<1>6. vars' = vars => Same
  BY DEF vars
<1> QED  BY <1>1, <1>3, <1>4, <1>5, <1>6 DEF Next, Platform

\* The rules of the others are not there: tags of the attack are on the owner's rules.
LEMMA TaggedAreUsers ==
    ASSUME NEW e \in Executions, Lone(e), NEW r \in Rules, tag[r] = e
    PROVE  r \in UserRules /\ Exists(r)
BY ConstantsAssumption DEF Lone, TagInv, AttackInv, OwnRuleInv, Rules

\* Rules that are on the owner's priorities are untouched in every mode.
LEMMA OnPlace ==
    ASSUME NEW e \in Executions, Lone(e), \A u \in UserRules : prio[u] = home[u]
    PROVE  Untouched(e)
<1>1. CASE Shifted(e)
  <2>1. \A u \in UserRules : u \notin Marked(e)
    BY <1>1 DEF Shifted, Lone
  <2>2. \A u \in Marked(e) : u \in UserRules
    BY DEF Marked, Tagged, Lone, AttackInv, StopInv, Moved
  <2> QED  BY <2>1, <2>2 DEF Untouched
<1> QED  BY <1>1 DEF Lone, AttackInv

\* A request that ends without an effect, and a step that leaves the attack as
\* it is.
Ends(e) ==
    /\ step'[e] = "none" /\ phase'[e] \in {"startFailed", "stopFailed", "stopped", "active"}
    /\ cut[e] \/ step[e] \in {"untag", "restore"} => cut'[e]

\* A failed request that has no effect leaves what it found.
LEMMA EndKeeps ==
    ASSUME NEW e \in Executions, Lone(e), home' = home, UNCHANGED <<prio, tag>>,
           Ends(e), phase'[e] # "stopped"
    PROVE  AttackInv(e)'
<1> USE DEF Lone, AttackInv, Ends
<1>1. Marked(e)' = Tagged(e) /\ Tagged(e)' = Tagged(e) /\ Tagged(e) \subseteq Marked(e)
  BY DEF Marked, Tagged
<1>2. (Untouched(e) \/ Shifted(e))'
  BY <1>1 DEF Untouched, Shifted, Block
<1>3. OwnRuleInv(e)'
  BY DEF OwnRuleInv, Exists, StartSteps
<1>4. StartInv(e)' /\ StopInv(e)' /\ CleanInv(e)'
  BY DEF StartInv, StopInv, CleanInv, Idle
<1>5. DownInv(e)'
  <2>1. ~cut'[e] => ~cut[e] /\ Marked(e) = Tagged(e)
    BY DEF Marked
  <2> QED  BY <1>1, <2>1 DEF DownInv
<1> QED  BY <1>2, <1>3, <1>4, <1>5

\* A step that does not touch the attack.
LEMMA SameKeeps ==
    ASSUME NEW e \in Executions, Lone(e), home' = home,
           UNCHANGED <<prio, tag, phase[e], step[e], suspect[e], plan[e], left[e], unread[e], cut[e]>>
    PROVE  AttackInv(e)'
BY DEF Lone, AttackInv, Untouched, Shifted, OwnRuleInv, StartInv, StopInv, DownInv, CleanInv, Marked, Tagged,
       Exists, Block

\* A request that returns ends.
LEMMA ReturnEnds ==
    ASSUME TypeOK, NEW e \in Executions
    PROVE  /\ Return(e, FALSE) => Ends(e) /\ phase'[e] \in {"startFailed", "stopFailed"}
           /\ Return(e, TRUE) =>
                /\ step'[e] = "none" /\ (cut[e] => cut'[e])
                /\ phase'[e] = IF phase[e] = "starting" THEN "active" ELSE "stopped"
<1>1. ASSUME NEW ok \in BOOLEAN, Return(e, ok)
      PROVE  step'[e] = "none" /\ phase'[e] = Outcome(e, ok)
  BY <1>1 DEF TypeOK, Return
<1>2. ASSUME Return(e, FALSE), cut[e] \/ step[e] \in {"untag", "restore"} PROVE cut'[e]
  BY <1>2 DEF TypeOK, Return
<1>3. ASSUME Return(e, TRUE), cut[e] PROVE cut'[e]
  BY <1>3 DEF TypeOK, Return
<1>4. Outcome(e, FALSE) \in {"startFailed", "stopFailed"}
  BY DEF Outcome
<1>5. Outcome(e, TRUE) = IF phase[e] = "starting" THEN "active" ELSE "stopped"
  BY DEF Outcome
<1>6. Return(e, FALSE) => Ends(e) /\ phase'[e] \in {"startFailed", "stopFailed"}
  BY <1>1, <1>2, <1>4 DEF Ends
<1> QED  BY <1>1, <1>3, <1>5, <1>6
\* A request that fails without an effect on the listener.
LEMMA FailureKeeps ==
    ASSUME NEW e \in Executions, Lone(e), home' = home, UNCHANGED <<prio, tag>>, Return(e, FALSE)
    PROVE  AttackInv(e)'
<1>1. Ends(e) /\ phase'[e] \in {"startFailed", "stopFailed"}
  BY ReturnEnds, Zenon DEF Lone
<1> QED  BY <1>1, EndKeeps

\* A request that ends with an effect.
LEMMA EndInv ==
    ASSUME NEW e \in Executions, Lone(e), step'[e] = "none",
           phase'[e] \in {"startFailed", "stopFailed", "stopped", "active"},
           Untouched(e)' \/ Shifted(e)', OwnRuleInv(e)', DownInv(e)', CleanInv(e)'
    PROVE  AttackInv(e)'
BY DEF AttackInv, StartInv, StopInv, Idle

\* Prepare finds the listener, and checks the conditions.
LEMMA PrepareKeeps ==
    ASSUME NEW e \in Executions, Lone(e), home' = home, Prepare(e) PROVE AttackInv(e)'
<1>1. /\ UNCHANGED <<prio, tag, step, suspect, plan, left, unread, cut>>
      /\ phase[e] = "new" /\ phase'[e] \in Idle \ {"new"}
  BY DEF Prepare, aws, locals, history, Lone, TypeOK, Idle
<1> QED
  BY <1>1 DEF Lone, AttackInv, Untouched, Shifted, OwnRuleInv, StartInv, StopInv, DownInv, CleanInv, Marked,
              Tagged, Exists, Block, Idle

\* Start begins: no rule has been moved or tagged yet.
LEMMA BeginStartKeeps ==
    ASSUME NEW e \in Executions, Lone(e), home' = home, BeginStart(e) PROVE AttackInv(e)'
<1>1. /\ UNCHANGED <<prio, tag, suspect, plan, left, unread, cut>>
      /\ phase[e] = "prepared" /\ step[e] \notin StartSteps \cup StopSteps
  BY DEF BeginStart, aws, locals, Lone, RequestInv
<1>2. step[e] = "none"
  BY <1>1 DEF Lone, TypeOK, Steps, StartSteps, StopSteps
<1>3. CASE Receive(e, "starting", "describe")
  <2>1. phase'[e] = "starting" /\ step'[e] = "describe"
    BY <1>3 DEF Receive, GoTo, Lone, TypeOK
  <2> QED
    BY <1>1, <1>2, <2>1
    DEF Lone, RequestInv, AttackInv, Untouched, Shifted, OwnRuleInv, StartInv, StopInv, DownInv, CleanInv, Marked,
        Tagged, Exists, Block, Idle, StartSteps
<1>4. CASE phase' = [phase EXCEPT ![e] = "startFailed"] /\ UNCHANGED step
  BY <1>1, <1>2, <1>4, EndKeeps DEF Ends, Lone, TypeOK
<1> QED  BY <1>3, <1>4 DEF BeginStart

\* Stop begins in whatever state Start or an earlier Stop has left the rules.
LEMMA BeginStopKeeps ==
    ASSUME NEW e \in Executions, Lone(e), home' = home, BeginStop(e) PROVE AttackInv(e)'
<1>1. /\ UNCHANGED <<prio, tag, suspect, plan, left, unread, cut>>
      /\ phase[e] \in MayStop /\ step[e] \notin StartSteps \cup StopSteps
  BY DEF BeginStop, aws, locals, Lone, RequestInv, MayStop
<1>2. step[e] = "none"
  BY <1>1 DEF Lone, TypeOK, Steps, StartSteps, StopSteps
<1>3. CASE Receive(e, "stopping", "find")
  <2>1. phase'[e] = "stopping" /\ step'[e] = "find"
    BY <1>3 DEF Receive, GoTo, Lone, TypeOK
  <2> QED
    BY <1>1, <1>2, <2>1
    DEF Lone, RequestInv, AttackInv, Untouched, Shifted, OwnRuleInv, StartInv, StopInv, DownInv, CleanInv, Marked,
        Tagged, Exists, Block, Idle, StartSteps
<1>4. CASE phase' = [phase EXCEPT ![e] = "stopFailed"] /\ UNCHANGED step
  BY <1>1, <1>2, <1>4, EndKeeps DEF Ends, Lone, TypeOK
<1> QED  BY <1>3, <1>4 DEF BeginStop

\* The pairs that Start computes on an untouched listener.
LEMMA PairsOfBlock ==
    ASSUME NEW e \in Executions, Lone(e), ~Exists(e), \A u \in UserRules : prio[u] = home[u]
    PROVE  \A p \in NewPriorityPairs : p.rule \in Block /\ p.prio = home[p.rule] + 1
<1>1. \A r \in Rules : Exists(r) => r \in UserRules
  BY DEF Lone, Rules
<1> SUFFICES ASSUME NEW s \in Existing, \A p \in 1 .. prio[s] : At(p) # {}
             PROVE  s \in Block /\ prio[s] + 1 = home[s] + 1
  BY DEF NewPriorityPairs
<1>2. s \in UserRules /\ prio[s] = home[s]
  BY <1>1 DEF Existing
<1>3. ASSUME NEW p \in 1 .. home[s] PROVE \E v \in UserRules : home[v] = p
  <2>1. PICK v \in Existing : prio[v] = p
    BY <1>2, <1>3 DEF At
  <2> QED  BY <1>1, <2>1 DEF Existing
<1> QED  BY <1>2, <1>3 DEF Block

\* Start plans to move the rules of the block.
LEMMA DescribeRulesKeeps ==
    ASSUME NEW e \in Executions, Lone(e), home' = home, DescribeRules(e) PROVE AttackInv(e)'
<1>1. /\ UNCHANGED <<prio, tag>>
      /\ phase[e] = "starting" /\ step[e] = "describe"
  BY DEF DescribeRules, aws
<1>2. CASE Return(e, FALSE)
  BY <1>1, <1>2, FailureKeeps
<1>3. CASE /\ plan' = [plan EXCEPT ![e] = NewPriorityPairs]
           /\ left' = [left EXCEPT ![e] = NewPriorityPairs]
           /\ GoTo(e, IF NewPriorityPairs = {} THEN "create" ELSE "tag")
           /\ UNCHANGED <<phase, suspect, unread, history>>
  <2>1. /\ plan'[e] = NewPriorityPairs /\ left'[e] = NewPriorityPairs
        /\ step'[e] \in {"create", "tag"} /\ phase'[e] = "starting" /\ cut' = cut
    BY <1>1, <1>3 DEF GoTo, Lone, TypeOK, history
  <2>2. \A u \in UserRules : prio'[u] = home'[u]
    BY <1>1 DEF Lone, AttackInv, StartInv
  <2>3. ~Exists(e) /\ Tagged(e) = {}
    BY <1>1 DEF Lone, AttackInv, StartInv, OwnRuleInv, StartSteps
  <2>4. \A p \in NewPriorityPairs : p.rule \in Block /\ p.prio = home[p.rule] + 1
    BY <1>1, <2>2, <2>3, PairsOfBlock
  <2>5. Tagged(e)' = {} /\ Marked(e)' = {} /\ Block' = Block
    BY <1>1, <2>1, <2>3 DEF Tagged, Marked, Block
  <2>6. Untouched(e)' /\ DownInv(e)' /\ CleanInv(e)'
    BY <2>1, <2>2, <2>5 DEF Untouched, DownInv, CleanInv
  <2>7. OwnRuleInv(e)'
    BY <1>1, <2>1, <2>3 DEF OwnRuleInv, Exists, Lone, AttackInv
  <2>8. StartInv(e)'
    BY <1>1, <2>1, <2>2, <2>4, <2>5 DEF StartInv, Idle
  <2>9. StopInv(e)'
    BY <2>1 DEF StopInv
  <2> QED  BY <2>6, <2>7, <2>8, <2>9 DEF AttackInv
<1> QED  BY <1>2, <1>3 DEF DescribeRules

\* Start tags a rule of its plan.
LEMMA TagRuleKeeps ==
    ASSUME NEW e \in Executions, Lone(e), home' = home, TagRule(e) PROVE AttackInv(e)'
<1>1. prio' = prio /\ step[e] = "tag" /\ phase[e] = "starting"
  BY DEF TagRule, Lone, RequestInv, StartSteps
<1>2. PICK p \in left[e] :
        \/ /\ tag' = [tag EXCEPT ![p.rule] = e]
           /\ left' = [left EXCEPT ![e] = @ \ {p}]
           /\ GoTo(e, IF left[e] = {p} THEN "shift" ELSE "tag")
           /\ UNCHANGED <<phase, suspect, plan, unread, history>>
        \/ tag' = [tag EXCEPT ![p.rule] = e] /\ Return(e, FALSE)
        \/ Return(e, FALSE) /\ UNCHANGED tag
  BY Zenon DEF TagRule, TagValue, Fails
<1>3. CASE Return(e, FALSE) /\ UNCHANGED tag
  BY <1>1, <1>3, FailureKeeps
<1>4. /\ \A u \in UserRules : prio[u] = home[u]
      /\ \A q \in plan[e] : q.rule \in Block /\ q.prio = home[q.rule] + 1 /\ (q \in left[e] \/ tag[q.rule] = e)
      /\ left[e] \subseteq plan[e] /\ Tagged(e) \subseteq Moved(plan[e])
      /\ ~Exists(e)
  BY <1>1 DEF Lone, AttackInv, StartInv, OwnRuleInv, StartSteps
<1>5. p \in plan[e] /\ p.rule \in Block /\ p.rule \in UserRules /\ Block' = Block
  BY <1>2, <1>4 DEF Block
<1>6. Moved(plan[e]) \subseteq Block
  BY <1>4 DEF Moved
<1>7. CASE tag' = [tag EXCEPT ![p.rule] = e]
  <2>1. Tagged(e)' \subseteq Moved(plan[e])
    BY <1>4, <1>5, <1>7 DEF Tagged, Moved, Lone, TypeOK
  <2>2. OwnRuleInv(e)'
    BY <1>1, <1>4, <1>5, <1>7, ConstantsAssumption DEF OwnRuleInv, Exists, Lone, AttackInv, TypeOK
  <2>3. ASSUME step'[e] \notin {"untag", "restore"} PROVE Untouched(e)' /\ DownInv(e)'
    BY <1>1, <1>4, <1>5, <1>6, <2>1, <2>3 DEF Untouched, Marked, DownInv
  <2>4. CASE Return(e, FALSE)
    <3>1. Ends(e) /\ phase'[e] \in {"startFailed", "stopFailed"}
      BY <2>4, ReturnEnds, Zenon DEF Lone
    <3> QED  BY <2>2, <2>3, <3>1, EndInv DEF Ends, CleanInv
  <2>5. CASE /\ left' = [left EXCEPT ![e] = @ \ {p}]
             /\ GoTo(e, IF left[e] = {p} THEN "shift" ELSE "tag")
             /\ UNCHANGED <<phase, suspect, plan, unread, history>>
    <3>1. /\ left'[e] = left[e] \ {p} /\ plan' = plan /\ phase'[e] = "starting"
          /\ step'[e] = IF left[e] = {p} THEN "shift" ELSE "tag"
      BY <1>1, <2>5 DEF GoTo, Lone, TypeOK
    <3>2. \A q \in plan[e] : q \in left'[e] \/ tag'[q.rule] = e
      <4> SUFFICES ASSUME NEW q \in plan[e], q \notin left'[e] PROVE tag'[q.rule] = e
        OBVIOUS
      <4>1. q.rule \in Rules /\ p.rule \in Rules
        BY <1>5 DEF Lone, TypeOK, Pair
      <4> QED  BY <1>4, <1>7, <3>1, <4>1 DEF Lone, TypeOK
    <3>3. StartInv(e)'
      BY <1>1, <1>4, <1>5, <2>1, <3>1, <3>2 DEF StartInv, Idle
    <3>4. StopInv(e)' /\ CleanInv(e)'
      BY <3>1 DEF StopInv, CleanInv
    <3> QED  BY <2>2, <2>3, <3>1, <3>3, <3>4 DEF AttackInv
  <2> QED  BY <1>2, <1>3, <2>4, <2>5
<1> QED  BY <1>2, <1>3, <1>7
\* Start moves all rules of its plan, and they are the tagged ones.
LEMMA ShiftRulesKeeps ==
    ASSUME NEW e \in Executions, Lone(e), home' = home, ShiftRules(e) PROVE AttackInv(e)'
<1>1. tag' = tag /\ step[e] = "shift" /\ phase[e] = "starting"
  BY DEF ShiftRules, Lone, RequestInv, StartSteps
<1>2. \/ CanSet(plan[e]) /\ Set(plan[e]) /\ GoTo(e, "create") /\ UNCHANGED <<phase, locals, history>>
      \/ CanSet(plan[e]) /\ Set(plan[e]) /\ Return(e, FALSE)
      \/ Return(e, FALSE) /\ UNCHANGED prio
  BY Zenon DEF ShiftRules, Fails
<1>3. CASE Return(e, FALSE) /\ UNCHANGED prio
  BY <1>1, <1>3, FailureKeeps
<1>4. CASE CanSet(plan[e]) /\ Set(plan[e])
  <2>1. /\ \A u \in UserRules : prio[u] = home[u]
        /\ \A p \in plan[e] : p.rule \in Block /\ p.prio = home[p.rule] + 1 /\ tag[p.rule] = e
        /\ Tagged(e) \subseteq Moved(plan[e])
        /\ ~Exists(e) /\ tag[e] # e
    BY <1>1 DEF Lone, AttackInv, StartInv, OwnRuleInv, StartSteps
  <2>2. \A r \in Rules : /\ Exists(r)' <=> Exists(r)
                         /\ r \notin Moved(plan[e]) => prio'[r] = prio[r]
                         /\ \A p \in plan[e] : p.rule = r =>
                              prio'[r] \in {q.prio : q \in {o \in plan[e] : o.rule = r}}
    BY <1>4, SetKeepsRules DEF Lone, TypeOK
  <2>3. \A u \in UserRules : u \in Moved(plan[e]) => prio'[u] = home[u] + 1 /\ u \in Tagged(e)
    BY <2>1, <2>2 DEF Moved, Tagged, Rules
  <2>4. \A u \in UserRules : u \notin Moved(plan[e]) => prio'[u] = home[u] /\ u \notin Tagged(e)
    BY <2>1, <2>2 DEF Rules
  <2>5. ASSUME step'[e] \notin {"untag", "restore"} PROVE Shifted(e)' /\ DownInv(e)'
    <3>1. Marked(e)' = Tagged(e)
      BY <1>1, <2>5 DEF Marked, Tagged
    <3> QED  BY <2>3, <2>4, <3>1 DEF Shifted, DownInv, Lone
  <2>6. OwnRuleInv(e)'
    <3>1. prio'[e] = Absent
      BY <2>1, <2>2 DEF Exists, Rules
    <3> QED  BY <1>1, <2>1, <3>1 DEF OwnRuleInv, Exists
  <2>7. CASE Return(e, FALSE)
    <3>1. Ends(e) /\ phase'[e] \in {"startFailed", "stopFailed"}
      BY <2>7, ReturnEnds, Zenon DEF Lone
    <3> QED  BY <2>5, <2>6, <3>1, EndInv DEF Ends, CleanInv
  <2>8. CASE GoTo(e, "create") /\ UNCHANGED <<phase, locals, history>>
    <3>1. step'[e] = "create" /\ phase'[e] = "starting"
      BY <1>1, <2>8 DEF GoTo, Lone, TypeOK
    <3> QED  BY <2>5, <2>6, <3>1 DEF AttackInv, StartInv, StopInv, CleanInv, Idle
  <2> QED  BY <1>2, <1>3, <2>7, <2>8
<1> QED  BY <1>2, <1>3, <1>4

\* Start makes its own rule at the priority that is free now.
LEMMA CreateRuleKeeps ==
    ASSUME NEW e \in Executions, Lone(e), home' = home, CreateRule(e) PROVE AttackInv(e)'
<1>1. tag' = tag /\ step[e] = "create" /\ phase[e] = "starting"
  BY DEF CreateRule, Lone, RequestInv, StartSteps
<1>2. \/ At(1) = {} /\ prio' = [prio EXCEPT ![e] = 1] /\ Return(e, TRUE)
      \/ At(1) = {} /\ prio' = [prio EXCEPT ![e] = 1] /\ Return(e, FALSE)
      \/ Return(e, FALSE) /\ UNCHANGED prio
  BY Zenon DEF CreateRule, Fails
<1>3. CASE Return(e, FALSE) /\ UNCHANGED prio
  BY <1>1, <1>3, FailureKeeps
<1>4. CASE At(1) = {} /\ prio' = [prio EXCEPT ![e] = 1]
  <2>1. /\ step'[e] = "none" /\ (cut[e] => cut'[e])
        /\ phase'[e] \in {"startFailed", "stopFailed", "active"}
    <3>1. CASE Return(e, TRUE)
      BY <1>1, <3>1, ReturnEnds, Zenon DEF Lone
    <3>2. CASE Return(e, FALSE)
      BY <3>2, ReturnEnds, Zenon DEF Lone, Ends
    <3> QED  BY <1>2, <1>3, <3>1, <3>2, Zenon
  <2>2. (\A u \in UserRules : prio'[u] = prio[u] /\ prio'[u] # 1) /\ prio'[e] = 1
    BY <1>4, ConstantsAssumption DEF At, Existing, Exists, Absent, Rules, Lone, TypeOK
  <2>3. Marked(e)' = Marked(e) /\ Block' = Block
    BY <1>1, <2>1 DEF Marked, Tagged, Block
  <2>4. Untouched(e)' \/ Shifted(e)'
    BY <2>2, <2>3 DEF Lone, AttackInv, Untouched, Shifted
  <2>5. OwnRuleInv(e)' /\ DownInv(e)' /\ CleanInv(e)'
    BY <1>1, <2>1, <2>2, <2>3 DEF Lone, AttackInv, OwnRuleInv, DownInv, CleanInv, StartSteps
  <2> QED  BY <2>1, <2>4, <2>5, EndInv
<1> QED  BY <1>2, <1>3, <1>4

\* A step of a Stop that reads: the listener stays as it is.
LEMMA ReadingKeeps ==
    ASSUME NEW e \in Executions, Lone(e), home' = home, UNCHANGED <<prio, tag, phase, cut>>,
           step[e] \in StopSteps \ {"untag", "restore"}, step'[e] \in StopSteps \ {"untag", "restore"},
           step'[e] \in {"list", "read"} => ~Exists(e),
           StopInv(e)'
    PROVE  AttackInv(e)'
<1>1. phase[e] = "stopping" /\ Marked(e)' = Marked(e) /\ Tagged(e)' = Tagged(e) /\ Block' = Block
  BY DEF Lone, RequestInv, Marked, Tagged, Block
<1>2. (Untouched(e) \/ Shifted(e))' /\ DownInv(e)' /\ CleanInv(e)'
  BY <1>1 DEF Lone, AttackInv, Untouched, Shifted, DownInv, CleanInv
<1>3. OwnRuleInv(e)'
  BY DEF Lone, AttackInv, OwnRuleInv, Exists, StopSteps, StartSteps
<1>4. StartInv(e)'
  BY <1>1 DEF StartInv, StopSteps, Idle
<1> QED  BY <1>2, <1>3, <1>4 DEF AttackInv

\* Stop takes the rule at priority 1, if there is one.
LEMMA FindRuleKeeps ==
    ASSUME NEW e \in Executions, Lone(e), home' = home, FindRule(e) PROVE AttackInv(e)'
<1>1. UNCHANGED <<prio, tag>> /\ step[e] = "find"
  BY DEF FindRule, aws
<1>2. CASE Return(e, FALSE)
  BY <1>1, <1>2, FailureKeeps
<1>3. CASE At(1) = {} /\ GoTo(e, "list") /\ UNCHANGED <<phase, history>>
  <2>1. step'[e] = "list" /\ UNCHANGED <<phase, cut>>
    BY <1>3 DEF GoTo, Lone, TypeOK, history
  <2>2. ~Exists(e)
    BY <1>3 DEF At, Existing, Rules, Exists, Lone, AttackInv, OwnRuleInv
  <2> QED  BY <1>1, <2>1, <2>2, ReadingKeeps DEF StopSteps, StopInv
<1>4. ASSUME NEW r \in At(1), suspect' = [suspect EXCEPT ![e] = r], GoTo(e, "check"),
             UNCHANGED <<phase, history>>
      PROVE  AttackInv(e)'
  <2>1. step'[e] = "check" /\ suspect'[e] = r /\ UNCHANGED <<phase, cut>>
    BY <1>4 DEF GoTo, Lone, TypeOK, history
  <2>2. r \in Rules /\ prio[r] = 1
    BY DEF At, Existing
  <2> QED  BY <1>1, <2>1, <2>2, ReadingKeeps DEF StopSteps, StopInv
<1> QED  BY <1>2, <1>3, <1>4 DEF FindRule

\* Only the attack's rule is deleted, and it is not there when Stop goes on.
LEMMA CheckRuleKeeps ==
    ASSUME NEW e \in Executions, Lone(e), home' = home, CheckRule(e) PROVE AttackInv(e)'
<1>1. UNCHANGED <<prio, tag>> /\ step[e] = "check"
  BY DEF CheckRule, aws
<1>2. \/ /\ GoTo(e, IF CreatedBySteadybit(suspect[e]) THEN "delete" ELSE "list")
         /\ UNCHANGED <<phase, locals, history>>
      \/ Return(e, FALSE)
  BY Zenon DEF CheckRule, Fails
<1>3. CASE Return(e, FALSE)
  BY <1>1, <1>3, FailureKeeps
<1>4. CASE /\ GoTo(e, IF CreatedBySteadybit(suspect[e]) THEN "delete" ELSE "list")
           /\ UNCHANGED <<phase, locals, history>>
  <2>1. /\ step'[e] = IF CreatedBySteadybit(suspect[e]) THEN "delete" ELSE "list"
        /\ UNCHANGED <<phase, suspect, cut>>
    BY <1>4 DEF GoTo, Lone, TypeOK, locals, history
  <2>2. suspect[e] \in Rules /\ prio[suspect[e]] = 1
    BY <1>1 DEF Lone, AttackInv, StopInv
  <2>3. CASE suspect[e] \in Executions
    <3>1. suspect[e] = e
      BY <2>2, <2>3 DEF Lone, Exists, Absent
    <3> QED  BY <1>1, <2>1, <2>3, <3>1, ReadingKeeps DEF StopSteps, StopInv, CreatedBySteadybit
  <2>4. CASE suspect[e] \notin Executions
    <3>1. ~Exists(e)
      BY <2>2, <2>4 DEF Rules, Lone, AttackInv, OwnRuleInv
    <3> QED  BY <1>1, <2>1, <2>4, <3>1, ReadingKeeps DEF StopSteps, StopInv, CreatedBySteadybit
  <2> QED  BY <2>3, <2>4
<1> QED  BY <1>2, <1>3, <1>4

\* The attack's rule goes, and the owner's rules stay.
LEMMA DeleteRuleKeeps ==
    ASSUME NEW e \in Executions, Lone(e), home' = home, DeleteRule(e) PROVE AttackInv(e)'
<1>1. step[e] = "delete" /\ suspect[e] = e /\ phase[e] = "stopping"
  BY DEF DeleteRule, Lone, AttackInv, StopInv, RequestInv, StopSteps
<1>2. \/ /\ prio' = [prio EXCEPT ![suspect[e]] = Absent] /\ tag' = [tag EXCEPT ![suspect[e]] = None]
         /\ GoTo(e, "list") /\ UNCHANGED <<phase, locals, history>>
      \/ /\ prio' = [prio EXCEPT ![suspect[e]] = Absent] /\ tag' = [tag EXCEPT ![suspect[e]] = None]
         /\ Return(e, FALSE)
      \/ Return(e, FALSE) /\ UNCHANGED <<prio, tag>>
  BY Zenon DEF DeleteRule, Fails
<1>3. CASE Return(e, FALSE) /\ UNCHANGED <<prio, tag>>
  BY <1>3, FailureKeeps
<1>4. CASE /\ prio' = [prio EXCEPT ![suspect[e]] = Absent]
           /\ tag' = [tag EXCEPT ![suspect[e]] = None]
  <2>1. /\ \A u \in UserRules : prio'[u] = prio[u] /\ tag'[u] = tag[u]
        /\ prio'[e] = Absent /\ tag'[e] = None
    BY <1>1, <1>4, ConstantsAssumption DEF Lone, TypeOK, Rules
  <2>2. None # e
    BY ConstantsAssumption DEF Rules
  <2>3. Tagged(e)' = Tagged(e) /\ Block' = Block
    BY <2>1 DEF Tagged, Block
  <2>4. OwnRuleInv(e)'
    BY <2>1, <2>2 DEF OwnRuleInv, Exists
  <2>5. ASSUME step'[e] \notin {"untag", "restore"}, cut[e] => cut'[e]
        PROVE  (Untouched(e)' \/ Shifted(e)') /\ DownInv(e)'
    <3>1. Marked(e)' = Marked(e)
      BY <1>1, <2>3, <2>5 DEF Marked
    <3> QED  BY <2>1, <2>3, <2>5, <3>1 DEF Lone, AttackInv, Untouched, Shifted, DownInv
  <2>6. CASE Return(e, FALSE)
    <3>1. Ends(e) /\ phase'[e] \in {"startFailed", "stopFailed"}
      BY <2>6, ReturnEnds, Zenon DEF Lone
    <3> QED  BY <2>4, <2>5, <3>1, EndInv DEF Ends, CleanInv
  <2>7. CASE GoTo(e, "list") /\ UNCHANGED <<phase, locals, history>>
    <3>1. step'[e] = "list" /\ phase'[e] = "stopping" /\ cut' = cut
      BY <1>1, <2>7 DEF GoTo, Lone, TypeOK, history
    <3> QED  BY <2>4, <2>5, <3>1 DEF AttackInv, StartInv, StopInv, CleanInv, Idle
  <2> QED  BY <1>2, <1>3, <2>6, <2>7
<1> QED  BY <1>2, <1>3, <1>4

\* Every tagged rule is on the list, as a rule that is gone has no tag.
LEMMA ListRulesKeeps ==
    ASSUME NEW e \in Executions, Lone(e), home' = home, ListRules(e) PROVE AttackInv(e)'
<1>1. UNCHANGED <<prio, tag>> /\ step[e] = "list"
  BY DEF ListRules, aws
<1>2. CASE Return(e, FALSE)
  BY <1>1, <1>2, FailureKeeps
<1>3. CASE /\ unread' = [unread EXCEPT ![e] = Described]
           /\ GoTo(e, "read") /\ UNCHANGED <<phase, suspect, plan, left, history>>
  <2>1. /\ unread'[e] = Described /\ step'[e] = "read" /\ UNCHANGED <<phase, cut>>
        /\ plan'[e] = {} /\ left'[e] = {}
    BY <1>1, <1>3 DEF GoTo, Lone, RequestInv, TypeOK, history
  <2>2. ~Exists(e)
    BY <1>1 DEF Lone, AttackInv, OwnRuleInv
  <2>3. \A q \in Described : q.prio = prio[q.rule]
    BY DEF Described
  <2>4. \A u \in Tagged(e) : u \in {q.rule : q \in Described}
    <3> SUFFICES ASSUME NEW u \in Tagged(e) PROVE u \in {q.rule : q \in Described}
      OBVIOUS
    <3>1. u \in Rules /\ tag[u] = e
      BY DEF Tagged, Rules
    <3>2. u \in Existing
      BY <3>1, TaggedAreUsers DEF Existing
    <3>3. [rule |-> u, prio |-> prio[u]] \in Described
      BY <3>2 DEF Described
    <3> QED  BY <3>3
  <2>5. Tagged(e)' = Tagged(e)
    BY <1>1 DEF Tagged
  <2>6. StopInv(e)'
    BY <1>1, <2>1, <2>3, <2>4, <2>5 DEF StopInv
  <2> QED  BY <1>1, <2>1, <2>2, <2>6, ReadingKeeps DEF StopSteps
<1> QED  BY <1>2, <1>3 DEF ListRules
\* The tagged rules of a page are planned.
LEMMA ReadTagsKeeps ==
    ASSUME NEW e \in Executions, Lone(e), home' = home, ReadTags(e) PROVE AttackInv(e)'
<1>1. UNCHANGED <<prio, tag>> /\ step[e] = "read"
  BY DEF ReadTags, aws
<1>2. PICK page \in SUBSET unread[e] :
        \/ /\ plan' = [plan EXCEPT ![e] = @ \cup OldPriorities(page, e)]
           /\ left' = [left EXCEPT ![e] = @ \cup OldPriorities(page, e)]
           /\ unread' = [unread EXCEPT ![e] = @ \ page]
           /\ UNCHANGED <<phase, step, suspect, history>>
        \/ Return(e, FALSE)
  BY Zenon DEF ReadTags, Fails
<1>3. CASE Return(e, FALSE)
  BY <1>1, <1>3, FailureKeeps
<1>4. CASE /\ plan' = [plan EXCEPT ![e] = @ \cup OldPriorities(page, e)]
           /\ left' = [left EXCEPT ![e] = @ \cup OldPriorities(page, e)]
           /\ unread' = [unread EXCEPT ![e] = @ \ page]
           /\ UNCHANGED <<phase, step, suspect, history>>
  <2>1. /\ plan'[e] = plan[e] \cup OldPriorities(page, e)
        /\ left'[e] = left[e] \cup OldPriorities(page, e)
        /\ unread'[e] = unread[e] \ page
        /\ UNCHANGED <<phase, step, cut>>
    BY <1>4 DEF Lone, TypeOK, history
  <2>2. /\ ~Exists(e) /\ left[e] = plan[e]
        /\ \A q \in unread[e] : q.prio = prio[q.rule]
        /\ \A p \in plan[e] : tag[p.rule] = e /\ p.rule \in UserRules /\ p.prio = prio[p.rule] - 1
        /\ \A u \in Tagged(e) : u \in Moved(plan[e]) \cup {q.rule : q \in unread[e]}
    BY <1>1 DEF Lone, AttackInv, OwnRuleInv, StopInv
  <2>3. \A p \in OldPriorities(page, e) : tag[p.rule] = e /\ p.rule \in UserRules /\ p.prio = prio[p.rule] - 1
    <3> SUFFICES ASSUME NEW q \in page, tag[q.rule] = e
                 PROVE  q.rule \in UserRules /\ q.prio - 1 = prio[q.rule] - 1
      BY DEF OldPriorities
    <3>1. q \in unread[e] /\ q.rule \in Rules
      BY DEF Lone, TypeOK, Pair
    <3>2. q.rule \in UserRules
      BY <3>1, TaggedAreUsers
    <3> QED  BY <2>2, <3>1, <3>2
  <2>4. ASSUME NEW u \in Tagged(e) PROVE u \in Moved(plan'[e]) \cup {q.rule : q \in unread'[e]}
    <3>1. CASE u \in Moved(plan[e])
      BY <2>1, <3>1 DEF Moved
    <3>2. ASSUME NEW q \in page, u = q.rule PROVE u \in Moved(plan'[e])
      <4>1. [rule |-> q.rule, prio |-> q.prio - 1] \in OldPriorities(page, e)
        BY <2>4, <3>2 DEF OldPriorities, Tagged
      <4> QED  BY <2>1, <3>2, <4>1 DEF Moved
    <3>3. ASSUME NEW q \in unread[e] \ page, u = q.rule PROVE u \in {r.rule : r \in unread'[e]}
      BY <2>1, <3>3
    <3> QED  BY <2>2, <3>1, <3>2, <3>3
  <2>5. Tagged(e)' = Tagged(e)
    BY <1>1 DEF Tagged
  <2>6. StopInv(e)'
    <3>1. \A q \in unread'[e] : q.prio = prio'[q.rule]
      BY <1>1, <2>1, <2>2
    <3>2. \A p \in plan'[e] : tag'[p.rule] = e /\ p.rule \in UserRules /\ p.prio = prio'[p.rule] - 1
      BY <1>1, <2>1, <2>2, <2>3
    <3>3. left'[e] = plan'[e] /\ step'[e] = "read"
      BY <1>1, <2>1, <2>2
    <3>4. \A u \in Tagged(e)' : u \in Moved(plan'[e]) \cup {q.rule : q \in unread'[e]}
      BY <2>4, <2>5
    <3> QED  BY <3>1, <3>2, <3>3, <3>4 DEF StopInv
  <2> QED  BY <1>1, <2>1, <2>2, <2>6, ReadingKeeps DEF StopSteps
<1> QED  BY <1>2, <1>3, <1>4

\* All pages have been read: the plan has exactly the tagged rules.
LEMMA EndReadKeeps ==
    ASSUME NEW e \in Executions, Lone(e), home' = home, EndRead(e) PROVE AttackInv(e)'
<1>1. UNCHANGED <<prio, tag>> /\ step[e] = "read" /\ unread[e] = {} /\ phase[e] = "stopping"
  BY DEF EndRead, aws, Lone, RequestInv, StopSteps
<1>2. /\ ~Exists(e) /\ left[e] = plan[e]
      /\ \A p \in plan[e] : tag[p.rule] = e /\ p.rule \in UserRules /\ p.prio = prio[p.rule] - 1
      /\ Tagged(e) \subseteq Moved(plan[e]) /\ Moved(plan[e]) \subseteq Tagged(e)
      /\ Marked(e) = Tagged(e)
  BY <1>1 DEF Lone, AttackInv, OwnRuleInv, StopInv, Moved, Tagged, Marked
<1>3. Tagged(e)' = Tagged(e) /\ Block' = Block
  BY <1>1 DEF Tagged, Block
<1>4. OwnRuleInv(e)'
  BY <1>1, <1>2 DEF OwnRuleInv, Exists, Lone, AttackInv
<1>5. ASSUME Marked(e)' = Marked(e), cut[e] => cut'[e]
      PROVE  (Untouched(e)' \/ Shifted(e)') /\ DownInv(e)'
  BY <1>1, <1>3, <1>5 DEF Lone, AttackInv, Untouched, Shifted, DownInv
<1>6. CASE plan[e] = {} /\ Return(e, TRUE)
  <2>1. step'[e] = "none" /\ phase'[e] = "stopped" /\ (cut[e] => cut'[e])
    BY <1>1, <1>6, ReturnEnds, Zenon DEF Lone
  <2>2. Marked(e)' = Marked(e) /\ Tagged(e)' = {}
    BY <1>2, <1>3, <1>6, <2>1 DEF Marked, Moved
  <2>3. CleanInv(e)'
    BY <1>1, <1>2, <2>2 DEF CleanInv, Exists
  <2> QED  BY <1>4, <1>5, <2>1, <2>2, <2>3, EndInv
<1>7. CASE plan[e] # {} /\ GoTo(e, "untag") /\ UNCHANGED <<phase, locals, history>>
  <2>1. step'[e] = "untag" /\ plan' = plan /\ left' = left /\ UNCHANGED <<phase, cut>>
    BY <1>7 DEF GoTo, Lone, TypeOK, history, locals
  <2>2. Marked(e)' = Marked(e)
    BY <1>2, <1>3, <2>1 DEF Marked
  <2>3. StopInv(e)'
    BY <1>1, <1>2, <1>3, <1>7, <2>1 DEF StopInv
  <2>4. StartInv(e)' /\ CleanInv(e)'
    BY <1>1, <2>1 DEF StartInv, CleanInv, Idle
  <2> QED  BY <1>4, <1>5, <2>1, <2>2, <2>3, <2>4 DEF AttackInv
<1> QED  BY <1>6, <1>7 DEF EndRead

\* Stop removes the tag of a rule of its plan.
LEMMA UntagRuleKeeps ==
    ASSUME NEW e \in Executions, Lone(e), home' = home, UntagRule(e) PROVE AttackInv(e)'
<1>1. prio' = prio /\ step[e] = "untag" /\ phase[e] = "stopping"
  BY DEF UntagRule, Lone, RequestInv, StopSteps
<1>2. PICK p \in left[e] :
        \/ /\ tag' = [tag EXCEPT ![p.rule] = None]
           /\ left' = [left EXCEPT ![e] = @ \ {p}]
           /\ GoTo(e, IF left[e] = {p} THEN "restore" ELSE "untag")
           /\ UNCHANGED <<phase, suspect, plan, unread, history>>
        \/ tag' = [tag EXCEPT ![p.rule] = None] /\ Return(e, FALSE)
        \/ Return(e, FALSE) /\ UNCHANGED tag
  BY Zenon DEF UntagRule, Fails
<1>3. CASE Return(e, FALSE) /\ UNCHANGED tag
  BY <1>1, <1>3, FailureKeeps
<1>4. /\ ~Exists(e) /\ tag[e] # e
      /\ \A q \in plan[e] : q.rule \in UserRules /\ q.prio = prio[q.rule] - 1
      /\ left[e] \subseteq plan[e] /\ Tagged(e) \subseteq Moved(left[e])
      /\ plan[e] # {}
  BY <1>1 DEF Lone, AttackInv, StopInv, OwnRuleInv
<1>5. p.rule \in UserRules /\ p.rule \in Rules
  BY <1>4 DEF Rules
<1>6. Moved(left[e]) \subseteq Moved(plan[e]) /\ Marked(e) = Moved(plan[e])
  BY <1>1, <1>4 DEF Moved, Marked
<1>7. CASE tag' = [tag EXCEPT ![p.rule] = None]
  <2>1. \A u \in Tagged(e)' : u \in Tagged(e) /\ u # p.rule
    BY <1>5, <1>7, ConstantsAssumption DEF Tagged, Lone, TypeOK, Rules
  <2>2. OwnRuleInv(e)'
    BY <1>1, <1>4, <1>5, <1>7, ConstantsAssumption DEF OwnRuleInv, Exists, Lone, AttackInv, TypeOK, Rules
  <2>3. ASSUME Marked(e)' \subseteq Marked(e) PROVE Untouched(e)' \/ Shifted(e)'
    <3>1. Block' = Block
      BY DEF Block
    <3> QED  BY <1>1, <2>3, <3>1 DEF Lone, AttackInv, Untouched, Shifted
  <2>4. CASE Return(e, FALSE)
    <3>1. Ends(e) /\ phase'[e] \in {"startFailed", "stopFailed"}
      BY <2>4, ReturnEnds, Zenon DEF Lone
    <3>2. Marked(e)' \subseteq Marked(e) /\ cut'[e]
      BY <1>1, <2>1, <3>1 DEF Marked, Ends
    <3> QED  BY <2>2, <2>3, <3>1, <3>2, EndInv DEF Ends, CleanInv, DownInv
  <2>5. CASE /\ left' = [left EXCEPT ![e] = @ \ {p}]
             /\ GoTo(e, IF left[e] = {p} THEN "restore" ELSE "untag")
             /\ UNCHANGED <<phase, suspect, plan, unread, history>>
    <3>1. /\ left'[e] = left[e] \ {p} /\ plan' = plan /\ phase'[e] = "stopping" /\ cut' = cut
          /\ step'[e] = IF left[e] = {p} THEN "restore" ELSE "untag"
      BY <1>1, <2>5 DEF GoTo, Lone, TypeOK, history
    <3>2. Tagged(e)' \subseteq Moved(left'[e])
      BY <1>4, <2>1, <3>1 DEF Moved
    <3>3. Tagged(e)' \subseteq Moved(plan[e])
      BY <1>4, <1>6, <2>1
    <3>4. Marked(e)' = Marked(e)
      BY <1>6, <3>1, <3>3 DEF Marked
    <3>5. step'[e] = "restore" => Tagged(e)' = {}
      BY <3>1, <3>2 DEF Moved
    <3>6. StopInv(e)'
      <4>1. \A q \in plan'[e] : q.rule \in UserRules /\ q.prio = prio'[q.rule] - 1
        BY <1>1, <1>4, <3>1
      <4>2. left'[e] \subseteq plan'[e] /\ plan'[e] # {} /\ step'[e] \in {"untag", "restore"}
        BY <1>4, <3>1
      <4> QED  BY <3>2, <3>5, <4>1, <4>2 DEF StopInv
    <3>7. StartInv(e)' /\ CleanInv(e)'
      BY <3>1 DEF StartInv, CleanInv, Idle
    <3>8. DownInv(e)'
      BY <1>1, <3>1, <3>4 DEF DownInv, Lone, AttackInv
    <3> QED  BY <2>2, <2>3, <3>4, <3>6, <3>7, <3>8 DEF AttackInv
  <2> QED  BY <1>2, <1>3, <2>4, <2>5
<1> QED  BY <1>2, <1>3, <1>7

\* AWS refuses to pull up rules of the block that have never been pushed down:
\* the first of them would leave the priorities, or meet the rule before it.
LEMMA UntouchedIsRefused ==
    ASSUME NEW e \in Executions, Lone(e), step[e] = "restore", Untouched(e) PROVE ~CanSet(plan[e])
<1> SUFFICES ASSUME CanSet(plan[e]) PROVE FALSE
  OBVIOUS
<1>1. /\ plan[e] # {} /\ Moved(plan[e]) \subseteq Block
      /\ \A p \in plan[e] : p.rule \in UserRules /\ p.prio = home[p.rule] - 1
      /\ \A u \in UserRules : prio[u] = home[u] /\ home[u] \in Nat \ {0}
  BY DEF Lone, AttackInv, StopInv, Untouched, Marked
<1> DEFINE S == {home[p.rule] : p \in plan[e]}
<1>2. S \in SUBSET Nat /\ S # {}
  BY <1>1
<1>3. PICK m \in S : \A n \in S : m <= n
  BY <1>2, SmallestPriority
<1>4. PICK p \in plan[e] : home[p.rule] = m
  BY <1>3
<1>5. m \in Nat /\ p.prio = m - 1 /\ p.prio >= 1
  BY <1>1, <1>2, <1>4 DEF CanSet
<1>6. p.rule \in Block
  BY <1>1, <1>4 DEF Moved
<1>7. PICK v \in UserRules : home[v] = m - 1
  BY <1>4, <1>5, <1>6 DEF Block
<1>8. v \in At(p.prio)
  BY <1>1, <1>5, <1>7 DEF At, Existing, Exists, Absent, Rules
<1>9. v \in Moved(plan[e])
  BY <1>4, <1>8 DEF CanSet
<1>10. m - 1 \in S
  BY <1>7, <1>9 DEF Moved
<1> QED  BY <1>3, <1>5, <1>10

\* Stop pulls its rules up: to the priorities of the owner, or not at all.
LEMMA RestorePrioritiesKeeps ==
    ASSUME NEW e \in Executions, Lone(e), home' = home, RestorePriorities(e) PROVE AttackInv(e)'
<1>1. tag' = tag /\ step[e] = "restore" /\ phase[e] = "stopping"
  BY DEF RestorePriorities, Lone, RequestInv, StopSteps
<1>2. \/ CanSet(plan[e]) /\ Set(plan[e]) /\ Return(e, TRUE)
      \/ CanSet(plan[e]) /\ Set(plan[e]) /\ Return(e, FALSE)
      \/ Return(e, FALSE) /\ UNCHANGED prio
  BY Zenon DEF RestorePriorities, Fails
<1>3. CASE Return(e, FALSE) /\ UNCHANGED prio
  BY <1>1, <1>3, FailureKeeps
<1>4. CASE CanSet(plan[e]) /\ Set(plan[e])
  <2>1. Shifted(e)
    BY <1>1, <1>4, UntouchedIsRefused DEF Lone, AttackInv
  <2>2. /\ ~Exists(e) /\ tag[e] # e /\ Tagged(e) = {}
        /\ \A p \in plan[e] : p.rule \in UserRules /\ p.prio = prio[p.rule] - 1
        /\ Marked(e) = Moved(plan[e])
    BY <1>1 DEF Lone, AttackInv, StopInv, OwnRuleInv, Marked
  <2>3. \A r \in Rules : /\ Exists(r)' <=> Exists(r)
                         /\ r \notin Moved(plan[e]) => prio'[r] = prio[r]
                         /\ \A p \in plan[e] : p.rule = r =>
                              prio'[r] \in {q.prio : q \in {o \in plan[e] : o.rule = r}}
    BY <1>4, SetKeepsRules DEF Lone, TypeOK
  <2>4. \A u \in UserRules : u \in Moved(plan[e]) => prio'[u] = home[u]
    <3> SUFFICES ASSUME NEW u \in UserRules, NEW p \in plan[e], p.rule = u PROVE prio'[u] = home[u]
      BY DEF Moved
    <3>1. prio'[u] = prio[u] - 1
      BY <2>2, <2>3 DEF Rules
    <3>2. prio[u] = home[u] + 1 /\ home[u] \in Nat
      BY <2>1, <2>2 DEF Shifted, Moved, Lone
    <3> QED  BY <3>1, <3>2
  <2>5. \A u \in UserRules : u \notin Moved(plan[e]) => prio'[u] = prio[u]
    BY <2>3 DEF Rules
  <2>6. /\ step'[e] = "none" /\ (cut[e] => cut'[e])
        /\ phase'[e] \in {"startFailed", "stopFailed", "stopped"}
    <3>1. CASE Return(e, TRUE)
      BY <1>1, <3>1, ReturnEnds, Zenon DEF Lone
    <3>2. CASE Return(e, FALSE)
      BY <3>2, ReturnEnds, Zenon DEF Lone, Ends
    <3> QED  BY <1>2, <1>3, <3>1, <3>2, Zenon
  <2>7. Tagged(e)' = {} /\ Marked(e)' = {}
    BY <1>1, <2>2, <2>6 DEF Tagged, Marked
  <2>8. Shifted(e)'
    BY <2>1, <2>4, <2>5, <2>7 DEF Shifted
  <2>9. prio'[e] = Absent
    BY <2>2, <2>3 DEF Exists, Rules
  <2>10. OwnRuleInv(e)' /\ CleanInv(e)'
    BY <1>1, <2>2, <2>7, <2>9 DEF OwnRuleInv, CleanInv, Exists
  <2>11. DownInv(e)'
    BY <2>2, <2>4, <2>5, <2>6 DEF DownInv, Lone, AttackInv
  <2> QED  BY <2>6, <2>8, <2>10, <2>11, EndInv
<1> QED  BY <1>2, <1>3, <1>4

\* The process dies: every request fails where it is.
LEMMA CrashKeeps ==
    ASSUME NEW e \in Executions, Lone(e), home' = home, Crash PROVE AttackInv(e)'
<1>1. /\ UNCHANGED <<prio, tag>> /\ step'[e] = "none" /\ plan'[e] = {} /\ left'[e] = {}
      /\ cut'[e] = (cut[e] \/ step[e] \in {"untag", "restore"})
      /\ phase'[e] = IF step[e] = "none" THEN phase[e] ELSE Outcome(e, FALSE)
  BY DEF Crash, aws
<1>2. CASE step[e] = "none"
  <2>1. phase'[e] = phase[e] /\ cut'[e] = cut[e]
    BY <1>1, <1>2 DEF Lone, TypeOK
  <2> QED
    BY <1>1, <1>2, <2>1
    DEF Lone, AttackInv, Untouched, Shifted, OwnRuleInv, StartInv, StopInv, DownInv, CleanInv, Marked, Tagged,
        Exists, Block
<1>3. CASE step[e] # "none"
  <2>1. Outcome(e, FALSE) \in {"startFailed", "stopFailed"}
    BY DEF Outcome
  <2>2. Ends(e) /\ phase'[e] # "stopped"
    BY <1>1, <1>3, <2>1 DEF Ends
  <2> QED  BY <1>1, <2>2, EndKeeps
<1> QED  BY <1>2, <1>3
-----------------------------------------------------------------------------
(* The invariant holds                                                     *)

\* Before the first request nothing is moved or tagged.
LEMMA InitInv == Init => IInv
<1> SUFFICES ASSUME Init PROVE IInv
  OBVIOUS
<1>1. PICK own \in [UserRules -> 1 .. Top] :
        home = own /\ prio = [r \in Rules |-> IF r \in UserRules THEN own[r] ELSE Absent]
  BY DEF Init
<1>2. \A u \in UserRules : prio[u] = home[u] /\ home[u] \in 1 .. Top
  BY <1>1 DEF Rules
<1>3. \A e \in Executions : prio[e] = Absent
  BY <1>1, ConstantsAssumption DEF Rules
<1>4. \A r \in Rules : tag[r] = None
  BY DEF Init
<1>5. \A e \in Executions : /\ phase[e] = "new" /\ step[e] = "none"
                            /\ plan[e] = {} /\ left[e] = {} /\ cut[e] = FALSE
  BY DEF Init
<1>6. TypeOK
  BY InitTyped
<1>7. TagInv /\ HomeInv
  <2>1. \A u \in UserRules : home[u] \in Nat \ {0}
    BY <1>2, ConstantsAssumption
  <2> QED  BY <1>4, <2>1 DEF TagInv, HomeInv
<1>8. ASSUME NEW e \in Executions PROVE RequestInv(e) /\ AttackInv(e)
  <2>1. e \in Rules /\ e # None
    BY ConstantsAssumption DEF Rules
  <2>2. Tagged(e) = {} /\ Marked(e) = {}
    BY <1>4, <1>5, <2>1 DEF Tagged, Marked, Rules
  <2>3. RequestInv(e)
    BY <1>3, <1>5 DEF RequestInv, StartSteps, StopSteps, Exists
  <2>4. Untouched(e) /\ OwnRuleInv(e)
    BY <1>2, <1>3, <1>4, <2>1, <2>2 DEF Untouched, OwnRuleInv, Exists, Absent
  <2>5. StartInv(e) /\ StopInv(e) /\ DownInv(e) /\ CleanInv(e)
    BY <1>2, <1>5, <2>2 DEF StartInv, StopInv, DownInv, CleanInv
  <2> QED  BY <2>3, <2>4, <2>5 DEF AttackInv
<1> QED  BY <1>6, <1>7, <1>8 DEF IInv

\* A step of an attack that is alone.
LEMMA AttackStep ==
    ASSUME IInv, [Next]_vars, NEW e \in Executions, Alone(e)', moves' = 0
    PROVE  AttackInv(e)'
<1>1. Lone(e) /\ home' = home
  BY Solo
<1>2. CASE Handler(e)
  BY <1>1, <1>2, DescribeRulesKeeps, TagRuleKeeps, ShiftRulesKeeps, CreateRuleKeeps, FindRuleKeeps,
     CheckRuleKeeps, DeleteRuleKeeps, ListRulesKeeps, ReadTagsKeeps, EndReadKeeps, UntagRuleKeeps,
     RestorePrioritiesKeeps, Zenon
  DEF Handler
<1>3. CASE Prepare(e) \/ BeginStart(e) \/ BeginStop(e) \/ Crash
  BY <1>1, <1>3, PrepareKeeps, BeginStartKeeps, BeginStopKeeps, CrashKeeps, Zenon
<1>4. CASE UNCHANGED <<prio, tag, phase[e], step[e], suspect[e], plan[e], left[e], unread[e], cut[e]>>
  BY <1>1, <1>4, SameKeeps
<1> QED  BY <1>2, <1>3, <1>4, Solo

\* Every step keeps the invariant.
LEMMA InvStep == IInv /\ [Next]_vars => IInv'
<1> SUFFICES ASSUME IInv, [Next]_vars PROVE IInv'
  OBVIOUS
<1>1. TypeOK'
  BY TypedStep DEF IInv
<1>2. TagInv' /\ HomeInv'
  BY TagStep, HomeStep DEF IInv
<1>3. \A e \in Executions : RequestInv(e)'
  BY RequestStep DEF IInv
<1>4. \A e \in Executions : Alone(e)' /\ moves' = 0 => AttackInv(e)'
  BY AttackStep
<1> QED  BY <1>1, <1>2, <1>3, <1>4 DEF IInv

\* The invariant holds in every behaviour.
LEMMA Invariance == Spec => []IInv
BY InitInv, InvStep, PTL DEF Spec

\* StoppedIsClean: when a Stop has succeeded and the attack is alone on its
\* listener, neither its rule nor a tag of it is left, however often Start and
\* Stop failed before.
THEOREM StopIsClean == Spec => []StoppedIsClean
<1>1. IInv => StoppedIsClean
  <2> SUFFICES ASSUME IInv, NEW e \in Executions, phase[e] = "stopped", Alone(e), moves = 0
               PROVE  ~Exists(e) /\ \A r \in Rules : tag[r] # e
    BY DEF StoppedIsClean
  <2>1. AttackInv(e) /\ TagInv
    BY DEF IInv
  <2>2. ~Exists(e) /\ Tagged(e) = {}
    BY <2>1 DEF AttackInv, CleanInv
  <2>3. \A f \in Executions : ~Exists(f)
    BY <2>2 DEF IInv, RequestInv, Alone, Idle
  <2>4. ASSUME NEW r \in Rules, tag[r] = e PROVE FALSE
    <3>1. Exists(r)
      BY <2>1, <2>4, ConstantsAssumption DEF TagInv, Rules
    <3>2. r \in UserRules
      BY <2>3, <3>1 DEF Rules
    <3> QED  BY <2>2, <2>4, <3>2 DEF Tagged
  <2> QED  BY <2>2, <2>4
<1> QED  BY <1>1, Invariance, PTL

\* PrioritiesRestored: when a Stop has succeeded and the attack is alone, every
\* rule of the owner is back, unless a Stop was cut off while it restored.
THEOREM PrioritiesAreRestored == Spec => []PrioritiesRestored
<1>1. IInv => PrioritiesRestored
  <2> SUFFICES ASSUME IInv, NEW e \in Executions, phase[e] = "stopped", Alone(e), moves = 0, ~cut[e],
                      NEW u \in UserRules
               PROVE  prio[u] = home[u]
    BY DEF PrioritiesRestored
  <2>1. AttackInv(e) /\ RequestInv(e)
    BY DEF IInv
  <2>2. Marked(e) = {}
    BY <2>1 DEF AttackInv, CleanInv, Marked, RequestInv, StopSteps
  <2> QED  BY <2>1, <2>2 DEF AttackInv, DownInv
<1> QED  BY <1>1, Invariance, PTL

\* AtMostOneDown: at every moment of an attack that is alone, each rule of the
\* owner is on its priority or on the next one.
THEOREM AtMostOnePlaceDown == Spec => []AtMostOneDown
<1>1. IInv => AtMostOneDown
  <2> SUFFICES ASSUME IInv, NEW e \in Executions, Alone(e), moves = 0, NEW u \in UserRules
               PROVE  prio[u] - home[u] \in {0, 1}
    BY DEF AtMostOneDown
  <2>1. AttackInv(e) /\ home[u] \in Nat
    BY DEF IInv, HomeInv
  <2>2. prio[u] \in {home[u], home[u] + 1}
    BY <2>1 DEF AttackInv, Untouched, Shifted
  <2> QED  BY <2>1, <2>2
<1> QED  BY <1>1, Invariance, PTL
-----------------------------------------------------------------------------
(* The order of the owner's rules                                          *)
(*                                                                         *)
(* Nothing here needs an attack to be alone: any number of executions may  *)
(* be active on the listener, and any of their calls may have failed.      *)
(* What is needed is that the request which sets priorities has described  *)
(* them itself, with nobody in between: its plan moves rules by exactly    *)
(* one place, all in the same direction.                                   *)

\* Requests that have never overlapped run one at a time.
TurnInv == ~raced => \A e, f \in Executions : step[e] # "none" /\ step[f] # "none" => e = f

\* A rule is deleted only after its tag was found to be an attack's.
DeleteInv(e) == step[e] = "delete" => suspect[e] \in Executions

\* What a request has described is still so; Start pushes down by one, Stop
\* pulls up by one.
DescribedInv(e) ==
    /\ step[e] \in {"tag", "shift"} => \A p \in plan[e] : p.prio = prio[p.rule] + 1
    /\ step[e] = "read" => \A q \in unread[e] : q.prio = prio[q.rule]
    /\ step[e] \in {"read", "untag", "restore"} => \A p \in plan[e] : p.prio = prio[p.rule] - 1

OrderInv ==
    /\ TurnInv
    /\ \A e \in Executions : DeleteInv(e) /\ (moves = 0 /\ ~raced => DescribedInv(e))

\* A step of a running request disturbs no other request, when requests run
\* one at a time.
LEMMA TurnKeeps ==
    ASSUME TypeOK, OrderInv, NEW e \in Executions, step[e] # "none", NEW st,
           step' = [step EXCEPT ![e] = st],
           \A f \in Executions \ {e} : suspect'[f] = suspect[f],
           moves' = moves, raced' = raced,
           DeleteInv(e)', moves = 0 /\ ~raced => DescribedInv(e)'
    PROVE  OrderInv'
<1>1. \A f \in Executions \ {e} : step'[f] = step[f]
  BY DEF TypeOK
<1>2. TurnInv'
  BY <1>1 DEF OrderInv, TurnInv
<1>3. ASSUME NEW f \in Executions, f # e PROVE DeleteInv(f)'
  BY <1>1, <1>3 DEF OrderInv, DeleteInv
<1>4. ASSUME NEW f \in Executions, f # e, moves = 0, ~raced PROVE DescribedInv(f)'
  <2>1. step'[f] = "none"
    BY <1>1, <1>4 DEF OrderInv, TurnInv
  <2> QED  BY <2>1 DEF DescribedInv
<1> QED  BY <1>2, <1>3, <1>4 DEF OrderInv

\* A request that ends leaves nothing to say.
LEMMA ReturnKeepsOrder ==
    ASSUME TypeOK, OrderInv, NEW e \in Executions, step[e] # "none", NEW ok,
           Return(e, ok), moves' = moves
    PROVE  OrderInv'
<1>1. /\ step' = [step EXCEPT ![e] = "none"] /\ raced' = raced
      /\ suspect' = [suspect EXCEPT ![e] = None]
  BY DEF Return
<1>2. step'[e] = "none" /\ \A f \in Executions \ {e} : suspect'[f] = suspect[f]
  BY <1>1 DEF TypeOK
<1>3. DeleteInv(e)' /\ DescribedInv(e)'
  BY <1>2 DEF DeleteInv, DescribedInv
<1> QED  BY <1>1, <1>2, <1>3, TurnKeeps

\* So does one that fails.
LEMMA FailureKeepsOrder ==
    ASSUME TypeOK, OrderInv, NEW e \in Executions, step[e] # "none", NEW accepted,
           Fails(e, accepted), moves' = moves
    PROVE  OrderInv'
<1>1. Return(e, FALSE)
  BY Zenon DEF Fails
<1> QED  BY <1>1, ReturnKeepsOrder, Zenon

\* What the three calls that read rules find is what the rules are.
LEMMA PlansAreByOne ==
    ASSUME TypeOK, NEW e \in Executions
    PROVE  /\ \A p \in NewPriorityPairs : p.prio = prio[p.rule] + 1
           /\ \A q \in Described : q.prio = prio[q.rule]
           /\ \A page : (\A q \in page : q.prio = prio[q.rule]) =>
                \A p \in OldPriorities(page, e) : p.prio = prio[p.rule] - 1
<1>1. \A p \in NewPriorityPairs : p.prio = prio[p.rule] + 1
  BY DEF NewPriorityPairs
<1>2. \A q \in Described : q.prio = prio[q.rule]
  BY DEF Described
<1>3. ASSUME NEW page, \A q \in page : q.prio = prio[q.rule], NEW p \in OldPriorities(page, e)
      PROVE  p.prio = prio[p.rule] - 1
  BY <1>3 DEF OldPriorities
<1> QED  BY <1>1, <1>2, <1>3

\* Initially no request runs.
LEMMA InitOrder == Init => OrderInv
BY DEF Init, OrderInv, TurnInv, DeleteInv, DescribedInv

\* The platform's requests: the first one after another keeps its turn.
LEMMA PlatformKeepsOrder ==
    ASSUME TypeOK, OrderInv, NEW e \in Executions, Platform(e)
    PROVE  OrderInv'
<1>1. CASE step' = step /\ raced' = raced /\ UNCHANGED <<prio, suspect, plan, unread, moves>>
  BY <1>1 DEF OrderInv, TurnInv, DeleteInv, DescribedInv
<1>2. ASSUME NEW st \in {"describe", "find"},
             step' = [step EXCEPT ![e] = st],
             raced' = (raced \/ \E f \in Executions : step[f] # "none"),
             UNCHANGED <<prio, suspect, plan, unread, moves>>
      PROVE  OrderInv'
  <2>1. step'[e] = st /\ \A f \in Executions \ {e} : step'[f] = step[f]
    BY <1>2 DEF TypeOK
  <2>2. TurnInv'
    BY <1>2, <2>1 DEF TurnInv
  <2>3. ASSUME NEW f \in Executions PROVE DeleteInv(f)'
    BY <1>2, <2>1 DEF OrderInv, DeleteInv
  <2>4. ASSUME NEW f \in Executions, moves' = 0, ~raced' PROVE DescribedInv(f)'
    BY <1>2, <2>1, <2>4 DEF OrderInv, DescribedInv
  <2> QED  BY <2>2, <2>3, <2>4 DEF OrderInv
<1>3. CASE Prepare(e)
  BY <1>1, <1>3 DEF Prepare, aws, locals, history
<1>4. CASE BeginStart(e)
  BY <1>1, <1>2, <1>4 DEF BeginStart, Receive, GoTo, aws, locals
<1>5. CASE BeginStop(e)
  BY <1>1, <1>2, <1>5 DEF BeginStop, Receive, GoTo, aws, locals
<1> QED  BY <1>3, <1>4, <1>5 DEF Platform

\* A call that changes a single request, and possibly the listener.
LEMMA HandlerKeepsOrder ==
    ASSUME IInv, OrderInv, NEW e \in Executions, Handler(e)
    PROVE  OrderInv'
<1> USE DEF GoTo
<1>0. TypeOK /\ RequestInv(e)
  BY DEF IInv
<1>1. ASSUME DescribeRules(e) PROVE OrderInv'
  <2>1. step[e] = "describe" /\ moves' = moves /\ prio' = prio
    BY <1>1 DEF DescribeRules, aws
  <2>2. CASE /\ plan' = [plan EXCEPT ![e] = NewPriorityPairs]
             /\ step' = [step EXCEPT ![e] = IF NewPriorityPairs = {} THEN "create" ELSE "tag"]
             /\ UNCHANGED <<suspect, raced>>
    <3>1. plan'[e] = NewPriorityPairs /\ step'[e] \in {"create", "tag"}
      BY <1>0, <2>2 DEF TypeOK
    <3>2. DeleteInv(e)' /\ DescribedInv(e)'
      BY <1>0, <2>1, <3>1, PlansAreByOne DEF DeleteInv, DescribedInv
    <3> QED  BY <1>0, <2>1, <2>2, <3>2, TurnKeeps
  <2> QED  BY <1>0, <1>1, <2>1, <2>2, ReturnKeepsOrder DEF DescribeRules, history
<1>2. ASSUME TagRule(e) PROVE OrderInv'
  <2>1. step[e] = "tag" /\ moves' = moves /\ prio' = prio
    BY <1>2 DEF TagRule
  <2>2. PICK p \in left[e] :
          \/ /\ step' = [step EXCEPT ![e] = IF left[e] = {p} THEN "shift" ELSE "tag"]
             /\ UNCHANGED <<suspect, plan, raced>>
          \/ Return(e, FALSE)
          \/ Fails(e, Exists(p.rule))
    BY <1>2, Zenon DEF TagRule, history
  <2>3. CASE /\ step' = [step EXCEPT ![e] = IF left[e] = {p} THEN "shift" ELSE "tag"]
             /\ UNCHANGED <<suspect, plan, raced>>
    <3>1. step'[e] \in {"shift", "tag"}
      BY <1>0, <2>3 DEF TypeOK
    <3>2. DeleteInv(e)' /\ (moves = 0 /\ ~raced => DescribedInv(e)')
      BY <2>1, <2>3, <3>1 DEF OrderInv, DeleteInv, DescribedInv
    <3> QED  BY <1>0, <2>1, <2>3, <3>2, TurnKeeps
  <2> QED  BY <1>0, <2>1, <2>2, <2>3, ReturnKeepsOrder, FailureKeepsOrder
<1>3. ASSUME ShiftRules(e) PROVE OrderInv'
  <2>1. step[e] = "shift" /\ moves' = moves
    BY <1>3 DEF ShiftRules
  <2>2. \/ step' = [step EXCEPT ![e] = "create"] /\ UNCHANGED <<suspect, raced>>
        \/ Return(e, FALSE)
        \/ Fails(e, CanSet(plan[e]))
    BY <1>3, Zenon DEF ShiftRules, locals, history
  <2>3. CASE step' = [step EXCEPT ![e] = "create"] /\ UNCHANGED <<suspect, raced>>
    <3>1. step'[e] = "create"
      BY <1>0, <2>3 DEF TypeOK
    <3>2. DeleteInv(e)' /\ DescribedInv(e)'
      BY <3>1 DEF DeleteInv, DescribedInv
    <3> QED  BY <1>0, <2>1, <2>3, <3>2, TurnKeeps
  <2> QED  BY <1>0, <2>1, <2>2, <2>3, ReturnKeepsOrder, FailureKeepsOrder
<1>4. ASSUME CreateRule(e) PROVE OrderInv'
  <2>1. step[e] = "create" /\ moves' = moves
    BY <1>4 DEF CreateRule
  <2>2. Return(e, TRUE) \/ Return(e, FALSE) \/ Fails(e, At(1) = {})
    BY <1>4, Zenon DEF CreateRule
  <2> QED  BY <1>0, <2>1, <2>2, ReturnKeepsOrder, FailureKeepsOrder
<1>5. ASSUME FindRule(e) PROVE OrderInv'
  <2>1. step[e] = "find" /\ moves' = moves
    BY <1>5 DEF FindRule
  <2>2. CASE Return(e, FALSE)
    BY <1>0, <2>1, <2>2, ReturnKeepsOrder
  <2>3. ASSUME NEW st \in {"list", "check"}, step' = [step EXCEPT ![e] = st], raced' = raced,
               NEW r, suspect' = suspect \/ suspect' = [suspect EXCEPT ![e] = r]
        PROVE  OrderInv'
    <3>1. step'[e] = st /\ \A f \in Executions \ {e} : suspect'[f] = suspect[f]
      BY <1>0, <2>3 DEF TypeOK
    <3>2. DeleteInv(e)' /\ DescribedInv(e)'
      BY <2>3, <3>1 DEF DeleteInv, DescribedInv
    <3> QED  BY <1>0, <2>1, <2>3, <3>1, <3>2, TurnKeeps
  <2> QED  BY <1>5, <2>2, <2>3 DEF FindRule, history
<1>6. ASSUME CheckRule(e) PROVE OrderInv'
  <2>1. step[e] = "check" /\ moves' = moves
    BY <1>6 DEF CheckRule
  <2>2. CASE /\ step' = [step EXCEPT ![e] = IF CreatedBySteadybit(suspect[e]) THEN "delete" ELSE "list"]
             /\ UNCHANGED <<suspect, raced>>
    <3>1. step'[e] = IF CreatedBySteadybit(suspect[e]) THEN "delete" ELSE "list"
      BY <1>0, <2>2 DEF TypeOK
    <3>2. DeleteInv(e)' /\ DescribedInv(e)'
      BY <2>2, <3>1 DEF DeleteInv, DescribedInv, CreatedBySteadybit
    <3> QED  BY <1>0, <2>1, <2>2, <3>2, TurnKeeps
  <2> QED  BY <1>0, <1>6, <2>1, <2>2, FailureKeepsOrder DEF CheckRule, locals, history
<1>7. ASSUME DeleteRule(e) PROVE OrderInv'
  <2>1. step[e] = "delete" /\ moves' = moves
    BY <1>7 DEF DeleteRule
  <2>2. \/ step' = [step EXCEPT ![e] = "list"] /\ UNCHANGED <<suspect, raced>>
        \/ Return(e, FALSE)
        \/ Fails(e, Exists(suspect[e]))
    BY <1>7, Zenon DEF DeleteRule, locals, history
  <2>3. CASE step' = [step EXCEPT ![e] = "list"] /\ UNCHANGED <<suspect, raced>>
    <3>1. step'[e] = "list"
      BY <1>0, <2>3 DEF TypeOK
    <3>2. DeleteInv(e)' /\ DescribedInv(e)'
      BY <3>1 DEF DeleteInv, DescribedInv
    <3> QED  BY <1>0, <2>1, <2>3, <3>2, TurnKeeps
  <2> QED  BY <1>0, <2>1, <2>2, <2>3, ReturnKeepsOrder, FailureKeepsOrder
<1>8. ASSUME ListRules(e) PROVE OrderInv'
  <2>1. step[e] = "list" /\ moves' = moves /\ prio' = prio
    BY <1>8 DEF ListRules, aws
  <2>2. CASE /\ unread' = [unread EXCEPT ![e] = Described] /\ step' = [step EXCEPT ![e] = "read"]
             /\ UNCHANGED <<suspect, plan, raced>>
    <3>1. step'[e] = "read" /\ unread'[e] = Described /\ plan'[e] = {}
      BY <1>0, <2>1, <2>2 DEF TypeOK, RequestInv
    <3>2. DeleteInv(e)' /\ DescribedInv(e)'
      BY <1>0, <2>1, <3>1, PlansAreByOne DEF DeleteInv, DescribedInv
    <3> QED  BY <1>0, <2>1, <2>2, <3>2, TurnKeeps
  <2> QED  BY <1>0, <1>8, <2>1, <2>2, ReturnKeepsOrder DEF ListRules, history
<1>9. ASSUME ReadTags(e) PROVE OrderInv'
  <2>1. step[e] = "read" /\ moves' = moves /\ prio' = prio
    BY <1>9 DEF ReadTags, aws
  <2>2. PICK page \in SUBSET unread[e] :
          \/ /\ plan' = [plan EXCEPT ![e] = @ \cup OldPriorities(page, e)]
             /\ unread' = [unread EXCEPT ![e] = @ \ page]
             /\ UNCHANGED <<step, suspect, raced>>
          \/ Fails(e, \A r \in page : Exists(r.rule))
    BY <1>9, Zenon DEF ReadTags, history
  <2>3. CASE /\ plan' = [plan EXCEPT ![e] = @ \cup OldPriorities(page, e)]
             /\ unread' = [unread EXCEPT ![e] = @ \ page]
             /\ UNCHANGED <<step, suspect, raced>>
    <3>1. /\ plan'[e] = plan[e] \cup OldPriorities(page, e)
          /\ unread'[e] = unread[e] \ page
          /\ step' = [step EXCEPT ![e] = "read"]
      BY <1>0, <2>1, <2>3 DEF TypeOK
    <3>2. ASSUME moves = 0, ~raced PROVE DescribedInv(e)'
      <4>1. /\ \A q \in unread[e] : q.prio = prio[q.rule]
            /\ \A p \in plan[e] : p.prio = prio[p.rule] - 1
        BY <2>1, <3>2 DEF OrderInv, DescribedInv
      <4>2. \A p \in OldPriorities(page, e) : p.prio = prio[p.rule] - 1
        BY <1>0, <4>1, PlansAreByOne
      <4> QED  BY <2>1, <2>3, <3>1, <4>1, <4>2 DEF DescribedInv
    <3>3. DeleteInv(e)'
      BY <2>1, <2>3 DEF DeleteInv
    <3> QED  BY <1>0, <2>1, <2>3, <3>1, <3>2, <3>3, TurnKeeps
  <2> QED  BY <1>0, <2>1, <2>2, <2>3, FailureKeepsOrder
<1>10. ASSUME EndRead(e) PROVE OrderInv'
  <2>1. step[e] = "read" /\ moves' = moves /\ prio' = prio
    BY <1>10 DEF EndRead, aws
  <2>2. Return(e, TRUE) \/ (step' = [step EXCEPT ![e] = "untag"] /\ UNCHANGED <<suspect, plan, raced>>)
    BY <1>10 DEF EndRead, locals, history
  <2>3. CASE step' = [step EXCEPT ![e] = "untag"] /\ UNCHANGED <<suspect, plan, raced>>
    <3>1. step'[e] = "untag"
      BY <1>0, <2>3 DEF TypeOK
    <3>2. DeleteInv(e)' /\ (moves = 0 /\ ~raced => DescribedInv(e)')
      BY <2>1, <2>3, <3>1 DEF OrderInv, DeleteInv, DescribedInv
    <3> QED  BY <1>0, <2>1, <2>3, <3>2, TurnKeeps
  <2> QED  BY <1>0, <2>1, <2>2, <2>3, ReturnKeepsOrder
<1>11. ASSUME UntagRule(e) PROVE OrderInv'
  <2>1. step[e] = "untag" /\ moves' = moves /\ prio' = prio
    BY <1>11 DEF UntagRule
  <2>2. PICK p \in left[e] :
          \/ /\ step' = [step EXCEPT ![e] = IF left[e] = {p} THEN "restore" ELSE "untag"]
             /\ UNCHANGED <<suspect, plan, raced>>
          \/ Return(e, FALSE)
          \/ Fails(e, Exists(p.rule))
    BY <1>11, Zenon DEF UntagRule, history
  <2>3. CASE /\ step' = [step EXCEPT ![e] = IF left[e] = {p} THEN "restore" ELSE "untag"]
             /\ UNCHANGED <<suspect, plan, raced>>
    <3>1. step'[e] \in {"restore", "untag"}
      BY <1>0, <2>3 DEF TypeOK
    <3>2. DeleteInv(e)' /\ (moves = 0 /\ ~raced => DescribedInv(e)')
      BY <2>1, <2>3, <3>1 DEF OrderInv, DeleteInv, DescribedInv
    <3> QED  BY <1>0, <2>1, <2>3, <3>2, TurnKeeps
  <2> QED  BY <1>0, <2>1, <2>2, <2>3, ReturnKeepsOrder, FailureKeepsOrder
<1>12. ASSUME RestorePriorities(e) PROVE OrderInv'
  <2>1. step[e] = "restore" /\ moves' = moves
    BY <1>12 DEF RestorePriorities
  <2>2. Return(e, TRUE) \/ Return(e, FALSE) \/ Fails(e, CanSet(plan[e]))
    BY <1>12, Zenon DEF RestorePriorities
  <2> QED  BY <1>0, <2>1, <2>2, ReturnKeepsOrder, FailureKeepsOrder
<1> QED
  BY <1>1, <1>2, <1>3, <1>4, <1>5, <1>6, <1>7, <1>8, <1>9, <1>10, <1>11, <1>12 DEF Handler

\* Every step keeps the order's invariant.
LEMMA OrderStep == IInv /\ OrderInv /\ [Next]_vars => OrderInv'
<1> SUFFICES ASSUME IInv, OrderInv, [Next]_vars PROVE OrderInv'
  OBVIOUS
<1>1. TypeOK
  BY DEF IInv
<1>2. ASSUME NEW e \in Executions, Platform(e) \/ Handler(e) PROVE OrderInv'
  BY <1>1, <1>2, PlatformKeepsOrder, HandlerKeepsOrder
<1>3. ASSUME NEW r \in UserRules, OwnerMoves(r) \/ OwnerDeletes(r) PROVE OrderInv'
  <2>1. moves' # 0 /\ UNCHANGED <<step, suspect, raced>>
    BY <1>1, <1>3 DEF OwnerMoves, OwnerDeletes, TypeOK, locals, history
  <2> QED  BY <2>1 DEF OrderInv, TurnInv, DeleteInv
<1>4. ASSUME Crash PROVE OrderInv'
  BY <1>4 DEF Crash, OrderInv, TurnInv, DeleteInv, DescribedInv
<1>5. ASSUME UNCHANGED vars PROVE OrderInv'
  BY <1>5 DEF vars, OrderInv, TurnInv, DeleteInv, DescribedInv
<1> QED  BY <1>2, <1>3, <1>4, <1>5 DEF Next

\* Moving a set of rules by one place, all in the same direction, when AWS
\* accepts it, keeps the order of any two rules: a rule that does not move
\* cannot be where a moved one goes.
LEMMA ByOneKeepsOrder ==
    ASSUME TypeOK, NEW P \in SUBSET Pair, CanSet(P), Set(P), NEW d \in {-1, 1},
           \A p \in P : p.prio = prio[p.rule] + d,
           NEW r \in Rules, NEW s \in Rules, prio[r] < prio[s]
    PROVE  prio'[r] < prio'[s]
<1>1. prio[r] \in Nat /\ prio[s] \in Nat
  BY DEF TypeOK
<1>2. ASSUME NEW u \in Rules, u \in Moved(P)
      PROVE  /\ prio'[u] = prio[u] + d /\ prio'[u] >= 1
             /\ At(prio'[u]) \subseteq Moved(P)
  <2>1. PICK p \in P : p.rule = u
    BY <1>2 DEF Moved
  <2>2. (CHOOSE q \in P : q.rule = u) \in P /\ (CHOOSE q \in P : q.rule = u).rule = u
    BY <2>1
  <2>3. prio'[u] = (CHOOSE q \in P : q.rule = u).prio
    BY <1>2 DEF Set
  <2> QED  BY <2>2, <2>3 DEF CanSet
<1>3. ASSUME NEW u \in Rules, u \notin Moved(P) PROVE prio'[u] = prio[u]
  BY <1>3 DEF Set
<1>4. ASSUME NEW u \in Rules, NEW v \in Rules, u \in Moved(P), v \notin Moved(P)
      PROVE  prio[v] # prio'[u]
  <2>1. v \notin At(prio'[u]) /\ prio'[u] >= 1
    BY <1>2, <1>4
  <2>2. SUFFICES ASSUME prio[v] = prio'[u] PROVE FALSE
    OBVIOUS
  <2>3. prio[v] # Absent
    BY <2>1, <2>2, <1>4 DEF Absent, TypeOK
  <2> QED  BY <2>1, <2>2, <2>3 DEF At, Existing, Exists
<1>5. CASE r \in Moved(P) /\ s \in Moved(P)
  BY <1>1, <1>2, <1>5
<1>6. CASE r \in Moved(P) /\ s \notin Moved(P)
  BY <1>1, <1>2, <1>3, <1>4, <1>6
<1>7. CASE r \notin Moved(P) /\ s \in Moved(P)
  BY <1>1, <1>2, <1>3, <1>4, <1>7
<1>8. CASE r \notin Moved(P) /\ s \notin Moved(P)
  BY <1>3, <1>8
<1> QED  BY <1>5, <1>6, <1>7, <1>8

\* What a step of an execution does to the rules of the owner.
LEMMA HandlerKeepsRules ==
    ASSUME IInv, OrderInv, NEW e \in Executions, Platform(e) \/ Handler(e),
           NEW r \in UserRules, NEW s \in UserRules
    PROVE  /\ Exists(r) => prio'[r] # Absent
           /\ moves = 0 /\ ~raced /\ prio[r] < prio[s] => prio'[r] < prio'[s]
<1> USE DEF Exists
<1>1. /\ TypeOK /\ r \in Rules /\ s \in Rules /\ r \notin Executions /\ s \notin Executions
      /\ plan[e] \in SUBSET Pair
  BY ConstantsAssumption DEF IInv, TypeOK, Rules
<1>2. CASE prio'[r] = prio[r] /\ prio'[s] = prio[s]
  BY <1>2
<1>3. ASSUME NEW x \in Executions, NEW p, prio' = prio \/ prio' = [prio EXCEPT ![x] = p]
      PROVE  prio'[r] = prio[r] /\ prio'[s] = prio[s]
  BY <1>1, <1>3 DEF TypeOK
<1>4. ASSUME CanSet(plan[e]), Set(plan[e]), NEW d \in {-1, 1},
             moves = 0 /\ ~raced => \A p \in plan[e] : p.prio = prio[p.rule] + d
      PROVE  /\ Exists(r) => prio'[r] # Absent
             /\ moves = 0 /\ ~raced /\ prio[r] < prio[s] => prio'[r] < prio'[s]
  <2>1. Exists(r) => prio'[r] # Absent
    BY <1>1, <1>4, SetKeepsRules
  <2>2. ASSUME moves = 0, ~raced, prio[r] < prio[s] PROVE prio'[r] < prio'[s]
    BY <1>1, <1>4, <2>2, ByOneKeepsOrder
  <2> QED  BY <2>1, <2>2
<1>5. CASE Platform(e)
  BY <1>2, <1>5 DEF Platform, Prepare, BeginStart, BeginStop, aws
<1>6. CASE DescribeRules(e) \/ FindRule(e) \/ CheckRule(e) \/ ListRules(e) \/ ReadTags(e) \/ EndRead(e)
  <2>1. prio' = prio
    BY <1>6 DEF DescribeRules, FindRule, CheckRule, ListRules, ReadTags, EndRead, aws
  <2> QED  BY <1>2, <2>1
<1>7. CASE TagRule(e) \/ UntagRule(e)
  <2>1. prio' = prio
    BY <1>7 DEF TagRule, UntagRule
  <2> QED  BY <1>2, <2>1
<1>8. CASE CreateRule(e)
  <2>1. prio' = prio \/ prio' = [prio EXCEPT ![e] = 1]
    BY <1>8 DEF CreateRule
  <2> QED  BY <1>2, <1>3, <2>1
<1>9. CASE DeleteRule(e)
  <2>1. suspect[e] \in Executions /\ (prio' = prio \/ prio' = [prio EXCEPT ![suspect[e]] = Absent])
    BY <1>9 DEF DeleteRule, OrderInv, DeleteInv
  <2> QED  BY <1>2, <1>3, <2>1
<1>10. CASE ShiftRules(e)
  <2>1. moves = 0 /\ ~raced => \A p \in plan[e] : p.prio = prio[p.rule] + 1
    BY <1>10 DEF ShiftRules, OrderInv, DescribedInv
  <2>2. prio' = prio \/ (CanSet(plan[e]) /\ Set(plan[e]))
    BY <1>10, Zenon DEF ShiftRules
  <2>3. CASE prio' = prio
    BY <1>2, <2>3
  <2> QED  BY <1>4, <2>1, <2>2, <2>3
<1>11. CASE RestorePriorities(e)
  <2>1. moves = 0 /\ ~raced => \A p \in plan[e] : p.prio = prio[p.rule] - 1
    BY <1>11 DEF RestorePriorities, OrderInv, DescribedInv
  <2>2. moves = 0 /\ ~raced => \A p \in plan[e] : p.prio = prio[p.rule] + (-1)
    BY <1>1, <2>1 DEF TypeOK, Pair
  <2>3. prio' = prio \/ (CanSet(plan[e]) /\ Set(plan[e]))
    BY <1>11, Zenon DEF RestorePriorities
  <2>4. CASE prio' = prio
    BY <1>2, <2>4
  <2> QED  BY <1>4, <2>2, <2>3, <2>4
<1> QED
  BY <1>5, <1>6, <1>7, <1>8, <1>9, <1>10, <1>11 DEF Handler

\* OwnerRulesKept: attacks never delete a rule of the owner, however they
\* overlap, and never change the order of two of them as long as requests to
\* the listener come one after the other.
THEOREM OwnersRulesAreKept == Spec => OwnerRulesKept
<1>1. IInv /\ OrderInv /\ [Next]_vars =>
        [moves' = moves =>
           \A r, s \in UserRules :
               /\ Exists(r) => prio'[r] # Absent
               /\ moves = 0 /\ ~raced /\ prio[r] < prio[s] => prio'[r] < prio'[s]]_vars
  <2> SUFFICES ASSUME IInv, OrderInv, Next, moves' = moves, NEW r \in UserRules, NEW s \in UserRules
               PROVE  /\ Exists(r) => prio'[r] # Absent
                      /\ moves = 0 /\ ~raced /\ prio[r] < prio[s] => prio'[r] < prio'[s]
    OBVIOUS
  <2>1. ASSUME NEW e \in Executions, Platform(e) \/ Handler(e)
        PROVE  /\ Exists(r) => prio'[r] # Absent
               /\ moves = 0 /\ ~raced /\ prio[r] < prio[s] => prio'[r] < prio'[s]
    BY <2>1, HandlerKeepsRules
  <2>2. CASE Crash
    BY <2>2 DEF Crash, aws, Exists
  <2>3. ASSUME NEW u \in UserRules, OwnerMoves(u) \/ OwnerDeletes(u) PROVE FALSE
    BY <2>3 DEF OwnerMoves, OwnerDeletes, IInv, TypeOK
  <2> QED  BY <2>1, <2>2, <2>3 DEF Next
<1> QED  BY <1>1, Invariance, InitOrder, OrderStep, InitInv, PTL DEF Spec, OwnerRulesKept
=============================================================================
