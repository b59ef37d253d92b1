--------------------------- MODULE BlackholeProofs ---------------------------
(***************************************************************************)
(* What Blackhole guarantees for every number of executions, subnets and   *)
(* VPCs, of faults, of moves by the owner and of Stop requests.            *)
(***************************************************************************)
EXTENDS Blackhole, TLAPS

-----------------------------------------------------------------------------
(* The inductive invariant                                                  *)

\* A record of a subnet, an ACL and a point in the owner's history is sound
\* when the ACL is what the owner had chosen at that point, or an attack's ACL
\* whose own tags for the subnet go back to the same point.
Sound(s, a, at) ==
    /\ at \in 1..Age(s)
    /\ a \in UserAcls => a = chosen[s][at]
    /\ a \in AttackAcls =>
         /\ \E t \in tags[a] : t.subnet = s
         /\ \A t \in tags[a] : t.subnet = s => t.at = at

\* What was read of an association is current or its id is stale.
Fresh(r) ==
    /\ r.id <= assoc[r.subnet].id
    /\ r.id = assoc[r.subnet].id => r.at = Age(r.subnet)

\* A record kept by or for execution e.
OfExecution(e, r) ==
    /\ Sound(r.subnet, r.acl, r.at)
    /\ r.subnet \in targets[e]
    /\ r.acl \in AttackAcls => r.acl[1] # e /\ Overlapped(e, r.subnet)

TagsInv ==
    \A n \in AttackAcls : \A t \in tags[n] :
        OfExecution(n[1], t) /\ VpcOf[t.subnet] = n[2]

DesiredInv ==
    \A e \in Executions : \A d \in desired[e] :
        /\ OfExecution(e, d) /\ Fresh(d) /\ VpcOf[d.subnet] = vpc[e]
        /\ \A c \in desired[e] : c.subnet = d.subnet => c = d
        /\ step[e] = "replace" =>
             /\ \E t \in tags[<<e, vpc[e]>>] : t.subnet = d.subnet
             /\ \A t \in tags[<<e, vpc[e]>>] : t.subnet = d.subnet => t.at = d.at

UndoInv ==
    \A e \in Executions : \A u \in undo[e] : OfExecution(e, u) /\ Fresh(u)

AssocInv ==
    \A s \in Subnets :
        /\ Sound(s, assoc[s].acl, Age(s))
        /\ Blackholed(s) => assoc[s].acl \in nacls

\* An ACL that is still to be created has no tags yet.
TodoInv ==
    \A e \in Executions :
        /\ phase[e] \in {"new", "refused", "prepared"} =>
             \A v \in Vpcs : tags[<<e, v>>] = {}
        /\ \A v \in todo[e] :
             (step[e] = "replace" /\ v = vpc[e]) \/ tags[<<e, v>>] = {}
        /\ step[e] = "create" => vpc[e] \in todo[e]
        /\ step[e] \in {"describe", "create", "replace"} => phase[e] = "starting"

\* A rollback without an error deletes all of its execution's ACLs, and it
\* deletes only when no association is left to put back.
RollbackInv ==
    \A e \in Executions :
        /\ \A n \in doomed[e] : n[1] = e
        /\ step[e] \in {"restore", "delete"} /\ ~errs[e] => NaclsOf(e) \subseteq doomed[e]
        /\ phase[e] = "stopped" => NaclsOf(e) = {}
        /\ (step[e] = "restore" /\ ~errs[e]) \/ step[e] = "delete" =>
             \A s \in Subnets :
                 Blackholed(s) /\ assoc[s].acl[1] = e =>
                     \/ Overlapped(e, s)
                     \/ step[e] = "restore" /\ \E u \in undo[e] : u.subnet = s

\* Whether e may attack a VPC of this account.
MayAttack(e, account) ==
    /\ account \notin {RootAccount, AgentAccount}
    /\ account = HostAccount => e \in silent

LockoutInv ==
    /\ \A e \in Executions :
         /\ \A s \in targets[e] : MayAttack(e, AccountOf[VpcOf[s]])
         /\ \A v \in todo[e] : \E s \in targets[e] : VpcOf[s] = v
         /\ phase[e] = "new" => targets[e] = {}
    /\ \A n \in nacls : MayAttack(n[1], AccountOf[n[2]])

IInv ==
    /\ TypeOK /\ TagsInv /\ DesiredInv /\ UndoInv /\ AssocInv /\ TodoInv
    /\ RollbackInv /\ LockoutInv

-----------------------------------------------------------------------------
(* Types                                                                    *)

\* At first every variable has its type.
LEMMA InitType == Init => TypeOK
<1> SUFFICES ASSUME Init PROVE TypeOK
  OBVIOUS
<1>1. vpc \in [Executions -> Vpcs]
  BY ConstantsAssumption DEF Init
<1>2. PICK own \in [Subnets -> UserAcls] :
        /\ assoc = [s \in Subnets |-> [id |-> 0, acl |-> own[s]]]
        /\ chosen = [s \in Subnets |-> <<own[s]>>]
  BY DEF Init
<1>3. assoc \in [Subnets -> [id : Nat, acl : Acls]]
  BY <1>2 DEF Acls
<1>4. chosen \in [Subnets -> Seq(UserAcls)]
  BY <1>2
<1> QED
  BY <1>1, <1>3, <1>4 DEF Init, TypeOK, Phases, Steps

\* Replacing an association keeps the type of the associations.
LEMMA AssociateType ==
    ASSUME TypeOK, NEW s \in Subnets, NEW a \in Acls, Associate(s, a)
    PROVE  assoc' \in [Subnets -> [id : Nat, acl : Acls]]
<1> DEFINE new == [id |-> assoc[s].id + 1, acl |-> a]
<1>1. assoc' = [assoc EXCEPT ![s] = new]
  BY DEF Associate
<1>2. assoc \in [Subnets -> [id : Nat, acl : Acls]]
  BY DEF TypeOK
<1>3. new \in [id : Nat, acl : Acls]
  BY <1>2
<1> QED
  BY <1>1, <1>2, <1>3

\* The counters of faults keep their type.
LEMMA FaultsType ==
    ASSUME TypeOK, Fault \/ NoFault PROVE faults' \in Nat
<1> QED
  BY DEF TypeOK, Fault, NoFault

\* Every step keeps the types: no handler leaves a local variable that the
\* next step could not read.
LEMMA NextType == TypeOK /\ [Next]_vars => TypeOK'
<1> SUFFICES ASSUME TypeOK, [Next]_vars PROVE TypeOK'
  OBVIOUS
<1> USE FaultsType DEF TypeOK, Phases, Steps, aws, locals
<1>1. ASSUME NEW e \in Executions, Prepare(e) PROVE TypeOK'
  <2>1. PICK T \in TargetSets :
          \/ phase' = [phase EXCEPT ![e] = "refused"] /\ UNCHANGED targets
          \/ /\ phase' = [phase EXCEPT ![e] = "prepared"]
             /\ targets' = [targets EXCEPT ![e] = T]
    BY <1>1 DEF Prepare
  <2>2. T \subseteq Subnets
    BY ConstantsAssumption
  <2>3. UNCHANGED <<aws, step, locals, faults, moves, stops>>
    BY <1>1 DEF Prepare
  <2>4. silent' \subseteq Executions
    BY <1>1 DEF Prepare
  <2> QED
    BY <2>1, <2>2, <2>3, <2>4
<1>2. ASSUME NEW e \in Executions, BeginStart(e) PROVE TypeOK'
  BY <1>2, ConstantsAssumption DEF BeginStart
<1>3. ASSUME NEW e \in Executions, StartWithoutClient(e) PROVE TypeOK'
  BY <1>3 DEF StartWithoutClient
<1>4. ASSUME NEW e \in Executions, BeginStop(e) PROVE TypeOK'
  <2>1. stops' \in [Executions -> Nat]
    BY <1>4 DEF BeginStop
  <2>2. phase' \in [Executions -> Phases] /\ step' \in [Executions -> Steps]
    BY <1>4 DEF BeginStop
  <2> QED
    BY <1>4, <2>1, <2>2 DEF BeginStop
<1>5. ASSUME NEW e \in Executions, DescribeAssociations(e) PROVE TypeOK'
  <2>1. ASSUME NEW S \in SUBSET Subnets PROVE Associations(S) \subseteq Snapshot
    <3> SUFFICES ASSUME NEW s \in S
                 PROVE  [subnet |-> s, id |-> assoc[s].id, acl |-> assoc[s].acl,
                         at |-> Age(s)] \in Snapshot
      BY DEF Associations
    <3>1. assoc[s].id \in Nat /\ assoc[s].acl \in Acls
      OBVIOUS
    <3>2. Age(s) \in Nat
      BY DEF Age
    <3> QED
      BY <3>1, <3>2 DEF Snapshot
  <2>2. faults' \in Nat
    BY <1>5 DEF DescribeAssociations
  <2>3. PICK v \in todo[e] :
          \/ /\ vpc' = [vpc EXCEPT ![e] = v]
             /\ desired' = [desired EXCEPT ![e] = Associations({s \in targets[e] : VpcOf[s] = v})]
             /\ step' = [step EXCEPT ![e] = "create"]
             /\ UNCHANGED todo
          \/ Break(e) /\ UNCHANGED vpc
    BY <1>5 DEF DescribeAssociations
  <2>4. Associations({s \in targets[e] : VpcOf[s] = v}) \subseteq Snapshot
    BY <2>1
  <2>5. desired' \in [Executions -> SUBSET Snapshot]
    BY <2>3, <2>4 DEF Break
  <2>6. vpc' \in [Executions -> Vpcs]
    <3>1. v \in Vpcs
      OBVIOUS
    <3>2. vpc' = [vpc EXCEPT ![e] = v] \/ vpc' = vpc
      BY <2>3
    <3> QED
      BY <3>1, <3>2
  <2>7. todo' \in [Executions -> SUBSET Vpcs] /\ step' \in [Executions -> Steps]
    BY <2>3 DEF Break
  <2> QED
    BY <1>5, <2>2, <2>5, <2>6, <2>7 DEF DescribeAssociations
<1>6. ASSUME NEW e \in Executions, CreateNacl(e) PROVE TypeOK'
  <2>1. TagsFor(desired[e]) \subseteq Tag
    <3> SUFFICES ASSUME NEW d \in desired[e]
                 PROVE  [subnet |-> d.subnet, acl |-> d.acl, at |-> d.at] \in Tag
      BY DEF TagsFor
    <3>1. d \in Snapshot
      OBVIOUS
    <3> QED
      BY <3>1 DEF Snapshot, Tag
  <2>2. <<e, vpc[e]>> \in AttackAcls
    BY DEF AttackAcls
  <2>3. nacls' \subseteq AttackAcls
    BY <1>6, <2>2 DEF CreateNacl
  <2>4. tags' \in [AttackAcls -> SUBSET Tag]
    BY <1>6, <2>1 DEF CreateNacl
  <2>5. /\ todo' \in [Executions -> SUBSET Vpcs] /\ desired' \in [Executions -> SUBSET Snapshot]
        /\ step' \in [Executions -> Steps]
    BY <1>6 DEF CreateNacl, Break
  <2>6. faults' \in Nat
    BY <1>6 DEF CreateNacl
  <2> QED
    BY <1>6, <2>3, <2>4, <2>5, <2>6 DEF CreateNacl
<1>7. ASSUME NEW e \in Executions, ReplaceAssociation(e) PROVE TypeOK'
  <2>1. <<e, vpc[e]>> \in Acls
    BY DEF AttackAcls, Acls
  <2>2. assoc' \in [Subnets -> [id : Nat, acl : Acls]]
    <3>1. PICK d \in desired[e] : Associate(d.subnet, <<e, vpc[e]>>) \/ UNCHANGED assoc
      BY <1>7 DEF ReplaceAssociation
    <3>2. d.subnet \in Subnets
      BY DEF Snapshot
    <3> QED
      BY <3>1, <3>2, <2>1, AssociateType
  <2>3. /\ todo' \in [Executions -> SUBSET Vpcs] /\ desired' \in [Executions -> SUBSET Snapshot]
        /\ step' \in [Executions -> Steps]
    <3>1. PICK d \in desired[e] :
            \/ desired' = [desired EXCEPT ![e] = @ \ {d}] /\ UNCHANGED <<step, todo>>
            \/ Break(e)
      BY <1>7 DEF ReplaceAssociation
    <3>2. CASE desired' = [desired EXCEPT ![e] = @ \ {d}] /\ UNCHANGED <<step, todo>>
      <4>1. desired[e] \ {d} \in SUBSET Snapshot
        OBVIOUS
      <4> QED
        BY <3>2, <4>1
    <3>3. CASE Break(e)
      BY <3>3 DEF Break, Steps
    <3> QED
      BY <3>1, <3>2, <3>3
  <2>4. faults' \in Nat
    BY <1>7 DEF ReplaceAssociation
  <2> QED
    BY <1>7, <2>2, <2>3, <2>4 DEF ReplaceAssociation
<1>8. ASSUME NEW e \in Executions, NextVpc(e) PROVE TypeOK'
  BY <1>8 DEF NextVpc, Starting
<1>9. ASSUME NEW e \in Executions, EndStart(e) PROVE TypeOK'
  BY <1>9 DEF EndStart, Starting
<1>10. ASSUME NEW e \in Executions, ListNacls(e) PROVE TypeOK'
  <2>1. ToRestore(e) \subseteq Snapshot
    <3> SUFFICES ASSUME NEW r \in ToRestore(e) PROVE r \in Snapshot
      OBVIOUS
    <3> PICK n \in NaclsOf(e) : \E t \in tags[n] :
          r = [subnet |-> t.subnet, id |-> assoc[t.subnet].id, acl |-> t.acl, at |-> t.at]
      BY DEF ToRestore
    <3> PICK t \in tags[n] :
          r = [subnet |-> t.subnet, id |-> assoc[t.subnet].id, acl |-> t.acl, at |-> t.at]
      OBVIOUS
    <3>1. t \in Tag
      BY DEF NaclsOf
    <3>2. t.subnet \in Subnets /\ t.acl \in Acls /\ t.at \in Nat
      BY <3>1 DEF Tag
    <3>3. assoc[t.subnet].id \in Nat
      BY <3>2
    <3> QED
      BY <3>2, <3>3 DEF Snapshot
  <2>2. NaclsOf(e) \subseteq AttackAcls
    BY DEF NaclsOf
  <2>3. /\ undo' \in [Executions -> SUBSET Snapshot]
        /\ doomed' \in [Executions -> SUBSET AttackAcls]
    <3>1. \/ /\ undo' = [undo EXCEPT ![e] = ToRestore(e)]
             /\ doomed' = [doomed EXCEPT ![e] = NaclsOf(e)]
          \/ undo' = [undo EXCEPT ![e] = {}] /\ doomed' = [doomed EXCEPT ![e] = {}]
      BY <1>10 DEF ListNacls, Return
    <3>2. undo' \in [Executions -> SUBSET Snapshot]
      BY <3>1, <2>1
    <3>3. doomed' \in [Executions -> SUBSET AttackAcls]
      BY <3>1, <2>2
    <3> QED
      BY <3>2, <3>3
  <2>4. errs' \in [Executions -> BOOLEAN]
    BY <1>10 DEF ListNacls, Return
  <2>5. phase' \in [Executions -> Phases] /\ step' \in [Executions -> Steps]
    BY <1>10 DEF ListNacls, Return, Outcome
  <2>6. faults' \in Nat
    BY <1>10 DEF ListNacls
  <2> QED
    BY <1>10, <2>3, <2>4, <2>5, <2>6 DEF ListNacls
<1>11. ASSUME NEW e \in Executions, RestoreAssociation(e) PROVE TypeOK'
  <2>1. assoc' \in [Subnets -> [id : Nat, acl : Acls]]
    <3>1. PICK u \in undo[e] : Associate(u.subnet, u.acl) \/ UNCHANGED assoc
      BY <1>11 DEF RestoreAssociation
    <3>2. u.subnet \in Subnets /\ u.acl \in Acls
      BY DEF Snapshot
    <3> QED
      BY <3>1, <3>2, AssociateType
  <2>2. undo' \in [Executions -> SUBSET Snapshot]
    BY <1>11 DEF RestoreAssociation
  <2>4. errs' \in [Executions -> BOOLEAN]
    BY <1>11 DEF RestoreAssociation
  <2>3. faults' \in Nat
    BY <1>11 DEF RestoreAssociation
  <2> QED
    BY <1>11, <2>1, <2>2, <2>3, <2>4 DEF RestoreAssociation
<1>12. ASSUME NEW e \in Executions, EndRestore(e) PROVE TypeOK'
  BY <1>12 DEF EndRestore, Return, Outcome
<1>13. ASSUME NEW e \in Executions, DeleteNacl(e) PROVE TypeOK'
  <2>1. nacls' \subseteq AttackAcls /\ doomed' \in [Executions -> SUBSET AttackAcls]
    BY <1>13 DEF DeleteNacl
  <2>2. errs' \in [Executions -> BOOLEAN]
    BY <1>13 DEF DeleteNacl
  <2>3. faults' \in Nat
    BY <1>13 DEF DeleteNacl
  <2> QED
    BY <1>13, <2>1, <2>2, <2>3 DEF DeleteNacl
<1>14. ASSUME NEW e \in Executions, EndDelete(e) PROVE TypeOK'
  BY <1>14 DEF EndDelete, Return, Outcome
<1>15. ASSUME NEW s \in Subnets, OwnerMoves(s) PROVE TypeOK'
  <2>1. PICK a \in UserAcls : Associate(s, a) /\ chosen' = [chosen EXCEPT ![s] = Append(@, a)]
    BY <1>15 DEF OwnerMoves
  <2>2. assoc' \in [Subnets -> [id : Nat, acl : Acls]]
    BY <2>1, AssociateType DEF Acls
  <2>3. chosen' \in [Subnets -> Seq(UserAcls)]
    BY <2>1
  <2> QED
    BY <1>15, <2>2, <2>3 DEF OwnerMoves
<1>16. CASE Crash
  BY <1>16 DEF Crash, Outcome
<1>17. CASE UNCHANGED vars
  BY <1>17 DEF vars
<1> QED
  BY <1>1, <1>2, <1>3, <1>4, <1>5, <1>6, <1>7, <1>8, <1>9, <1>10, <1>11, <1>12, <1>13,
     <1>14, <1>15, <1>16, <1>17 DEF Next, Platform, Handler

\* Every variable of the blackhole attacks keeps its type.
THEOREM TypeCorrect == Spec => []TypeOK
<1> QED
  BY InitType, NextType, PTL DEF Spec

-----------------------------------------------------------------------------
(* What a step may do to the state of AWS and to the targets                *)

\* Which actions change the ACLs, their tags, the associations, the owner's
\* choices and the targets: every other one leaves them alone.
LEMMA Writers ==
    ASSUME [Next]_vars
    PROVE  /\ UNCHANGED tags \/ \E e \in Executions : CreateNacl(e)
           /\ \/ UNCHANGED nacls
              \/ \E e \in Executions : CreateNacl(e) \/ DeleteNacl(e)
           /\ \/ UNCHANGED assoc
              \/ \E e \in Executions : ReplaceAssociation(e) \/ RestoreAssociation(e)
              \/ \E s \in Subnets : OwnerMoves(s)
           /\ UNCHANGED chosen \/ \E s \in Subnets : OwnerMoves(s)
           /\ UNCHANGED targets \/ \E e \in Executions : Prepare(e)
<1> USE DEF aws, locals
<1>1. ASSUME NEW e \in Executions, Prepare(e) PROVE UNCHANGED aws
  BY <1>1 DEF Prepare
<1>2. ASSUME NEW e \in Executions, BeginStart(e) \/ StartWithoutClient(e) \/ BeginStop(e)
      PROVE  UNCHANGED <<aws, targets>>
  BY <1>2 DEF BeginStart, StartWithoutClient, BeginStop
<1>3. ASSUME NEW e \in Executions, DescribeAssociations(e) \/ NextVpc(e) \/ EndStart(e)
      PROVE  UNCHANGED <<aws, targets>>
  BY <1>3 DEF DescribeAssociations, NextVpc, EndStart
<1>4. ASSUME NEW e \in Executions, ListNacls(e) \/ EndRestore(e) \/ EndDelete(e)
      PROVE  UNCHANGED <<aws, targets>>
  BY <1>4 DEF ListNacls, EndRestore, EndDelete
<1>5. ASSUME NEW e \in Executions, CreateNacl(e) PROVE UNCHANGED <<assoc, chosen, targets>>
  BY <1>5 DEF CreateNacl
<1>6. ASSUME NEW e \in Executions, ReplaceAssociation(e) \/ RestoreAssociation(e)
      PROVE  UNCHANGED <<nacls, tags, chosen, targets>>
  BY <1>6 DEF ReplaceAssociation, RestoreAssociation
<1>7. ASSUME NEW e \in Executions, DeleteNacl(e)
      PROVE  UNCHANGED <<tags, assoc, chosen, targets>>
  BY <1>7 DEF DeleteNacl
<1>8. ASSUME NEW s \in Subnets, OwnerMoves(s) PROVE UNCHANGED <<nacls, tags, targets>>
  BY <1>8 DEF OwnerMoves
<1>9. CASE Crash
  BY <1>9 DEF Crash
<1>10. CASE UNCHANGED vars
  BY <1>10 DEF vars
<1> QED
  BY <1>1, <1>2, <1>3, <1>4, <1>5, <1>6, <1>7, <1>8, <1>9, <1>10 DEF Next, Platform, Handler

\* An association gets a new id with every change, the owner's history only
\* grows, tags are written once and targets are set once.
Evolves ==
    /\ \A s \in Subnets :
         /\ Len(chosen[s]) <= Len(chosen'[s])
         /\ \A i \in 1..Len(chosen[s]) : chosen'[s][i] = chosen[s][i]
         /\ \/ assoc'[s] = assoc[s] /\ chosen'[s] = chosen[s]
            \/ assoc'[s].id = assoc[s].id + 1
    /\ \A n \in AttackAcls : tags[n] = {} \/ tags'[n] = tags[n]
    /\ \A e \in Executions : targets[e] \subseteq targets'[e]

\* Replacing the association of a subnet gives it a new id and leaves the other
\* subnets alone.
LEMMA AssociateEffect ==
    ASSUME TypeOK, NEW s \in Subnets, NEW a, Associate(s, a)
    PROVE  /\ assoc'[s].id = assoc[s].id + 1 /\ assoc'[s].acl = a
           /\ \A r \in Subnets \ {s} : assoc'[r] = assoc[r]
<1> QED
  BY DEF TypeOK, Associate

\* What every step does to AWS, as far as the lemmas below need it.
LEMMA Evolution ==
    ASSUME IInv, [Next]_vars PROVE Evolves
<1> USE DEF IInv
<1>1. \A n \in AttackAcls : tags[n] = {} \/ tags'[n] = tags[n]
  <2>1. ASSUME NEW e \in Executions, CreateNacl(e)
        PROVE  \A n \in AttackAcls : tags[n] = {} \/ tags'[n] = tags[n]
    <3>1. tags[<<e, vpc[e]>>] = {}
      BY <2>1 DEF CreateNacl, Starting, TodoInv
    <3> QED
      BY <2>1, <3>1 DEF CreateNacl, TypeOK
  <2> QED
    BY <2>1, Writers
<1>2. \A e \in Executions : targets[e] \subseteq targets'[e]
  <2>1. ASSUME NEW e \in Executions, Prepare(e)
        PROVE  \A f \in Executions : targets[f] \subseteq targets'[f]
    <3>1. targets[e] = {}
      BY <2>1 DEF Prepare, LockoutInv
    <3> QED
      BY <2>1, <3>1 DEF Prepare, TypeOK
  <2> QED
    BY <2>1, Writers
<1>3. ASSUME NEW s \in Subnets
      PROVE  /\ Len(chosen[s]) <= Len(chosen'[s])
             /\ \A i \in 1..Len(chosen[s]) : chosen'[s][i] = chosen[s][i]
             /\ \/ assoc'[s] = assoc[s] /\ chosen'[s] = chosen[s]
                \/ assoc'[s].id = assoc[s].id + 1
  <2>0. chosen[s] \in Seq(UserAcls)
    BY DEF TypeOK
  <2>1. CASE \E r \in Subnets : OwnerMoves(r)
    <3> PICK r \in Subnets : OwnerMoves(r)
      BY <2>1
    <3>1. PICK a \in UserAcls :
            Associate(r, a) /\ chosen' = [chosen EXCEPT ![r] = Append(@, a)]
      BY DEF OwnerMoves
    <3>2. CASE r = s
      <4>1. chosen'[s] = Append(chosen[s], a)
        BY <3>1, <3>2 DEF TypeOK
      <4>2. assoc'[s].id = assoc[s].id + 1
        BY <3>1, <3>2, AssociateEffect
      <4> QED
        BY <4>1, <4>2, <2>0
    <3>3. CASE r # s
      BY <3>1, <3>3, <2>0, AssociateEffect DEF TypeOK
    <3> QED
      BY <3>2, <3>3
  <2>2. CASE UNCHANGED chosen
    <3>1. assoc'[s] = assoc[s] \/ assoc'[s].id = assoc[s].id + 1
      <4>1. ASSUME NEW e \in Executions, ReplaceAssociation(e)
            PROVE  assoc'[s] = assoc[s] \/ assoc'[s].id = assoc[s].id + 1
        <5>1. PICK d \in desired[e] :
                Associate(d.subnet, <<e, vpc[e]>>) \/ UNCHANGED assoc
          BY <4>1 DEF ReplaceAssociation
        <5>2. d.subnet \in Subnets
          BY DEF TypeOK, Snapshot
        <5> QED
          BY <5>1, <5>2, AssociateEffect
      <4>2. ASSUME NEW e \in Executions, RestoreAssociation(e)
            PROVE  assoc'[s] = assoc[s] \/ assoc'[s].id = assoc[s].id + 1
        <5>1. PICK u \in undo[e] : Associate(u.subnet, u.acl) \/ UNCHANGED assoc
          BY <4>2 DEF RestoreAssociation
        <5>2. u.subnet \in Subnets
          BY DEF TypeOK, Snapshot
        <5> QED
          BY <5>1, <5>2, AssociateEffect
      <4>3. ASSUME NEW r \in Subnets, OwnerMoves(r)
            PROVE  assoc'[s] = assoc[s] \/ assoc'[s].id = assoc[s].id + 1
        BY <4>3, AssociateEffect DEF OwnerMoves
      <4> QED
        BY <4>1, <4>2, <4>3, Writers
    <3> QED
      BY <2>0, <2>2, <3>1
  <2> QED
    BY <2>1, <2>2, Writers
<1> QED
  BY <1>1, <1>2, <1>3 DEF Evolves

\* A sound record stays sound: tags and choices are only added.
LEMMA SoundLasts ==
    ASSUME TypeOK, Evolves, NEW s \in Subnets, NEW a \in Acls, NEW at, Sound(s, a, at)
    PROVE  Sound(s, a, at)'
<1>1. at \in 1..Age(s) /\ at \in 1..Age(s)'
  BY DEF Sound, Age, Evolves, TypeOK
<1>2. a \in UserAcls => a = chosen'[s][at]
  BY <1>1 DEF Sound, Age, Evolves
<1>3. a \in AttackAcls => tags'[a] = tags[a]
  BY DEF Sound, Evolves
<1> QED
  BY <1>1, <1>2, <1>3 DEF Sound

\* A record of an execution stays one.
LEMMA OfExecutionLasts ==
    ASSUME TypeOK, Evolves, NEW e \in Executions, NEW r,
           r.subnet \in Subnets, r.acl \in Acls, OfExecution(e, r)
    PROVE  OfExecution(e, r)'
<1>1. Sound(r.subnet, r.acl, r.at)'
  BY SoundLasts DEF OfExecution
<1>2. Overlapped(e, r.subnet) => Overlapped(e, r.subnet)'
  BY DEF Overlapped, Evolves
<1> QED
  BY <1>1, <1>2 DEF OfExecution, Evolves

\* A record stays fresh: the subnet is as it was, or its association has a new id
\* and the record's is stale.
LEMMA FreshLasts ==
    ASSUME TypeOK, Evolves, NEW r, r.subnet \in Subnets, r.id \in Nat, Fresh(r)
    PROVE  Fresh(r)'
<1>1. assoc[r.subnet].id \in Nat
  BY DEF TypeOK
<1>2. CASE assoc'[r.subnet] = assoc[r.subnet] /\ chosen'[r.subnet] = chosen[r.subnet]
  BY <1>2 DEF Fresh, Age
<1>3. CASE assoc'[r.subnet].id = assoc[r.subnet].id + 1
  BY <1>1, <1>3 DEF Fresh
<1> QED
  BY <1>2, <1>3 DEF Evolves

-----------------------------------------------------------------------------
(* The parts of the invariant, one lemma each                               *)

\* Every step keeps what is known of the tags of the ACLs.
LEMMA TagsStep ==
    ASSUME IInv, [Next]_vars, Evolves PROVE TagsInv'
<1> SUFFICES ASSUME NEW n \in AttackAcls, NEW t \in tags'[n]
             PROVE  OfExecution(n[1], t)' /\ VpcOf[t.subnet] = n[2]
  BY DEF TagsInv
<1> USE DEF IInv
<1>0. n[1] \in Executions
  BY DEF AttackAcls
<1>1. CASE tags'[n] = tags[n]
  <2>1. t \in Tag
    BY <1>1 DEF TypeOK
  <2>2. t.subnet \in Subnets /\ t.acl \in Acls
    BY <2>1 DEF Tag
  <2>3. OfExecution(n[1], t) /\ VpcOf[t.subnet] = n[2]
    BY <1>1 DEF TagsInv
  <2> QED
    BY <1>0, <2>2, <2>3, OfExecutionLasts
<1>2. CASE tags'[n] # tags[n]
  <2>1. PICK e \in Executions : CreateNacl(e)
    BY <1>2, Writers
  <2>2. n = <<e, vpc[e]>> /\ tags'[n] = TagsFor(desired[e])
    BY <1>2, <2>1 DEF CreateNacl, TypeOK
  <2>3. PICK d \in desired[e] : t = [subnet |-> d.subnet, acl |-> d.acl, at |-> d.at]
    BY <2>2 DEF TagsFor
  <2>4. d \in Snapshot
    BY DEF TypeOK
  <2>5. OfExecution(e, d) /\ VpcOf[d.subnet] = vpc[e]
    BY DEF DesiredInv
  <2>6. OfExecution(e, t)
    BY <2>3, <2>5 DEF OfExecution
  <2>7. t.subnet \in Subnets /\ t.acl \in Acls
    BY <2>3, <2>4 DEF Snapshot
  <2> QED
    BY <2>2, <2>3, <2>5, <2>6, <2>7, OfExecutionLasts
<1> QED
  BY <1>1, <1>2

\* What DescribeNetworkAcls returns of a target subnet of e, in a VPC e has
\* not done yet, is a sound record for e.
LEMMA DescribedIsSound ==
    ASSUME IInv, NEW e \in Executions, NEW s \in targets[e], tags[<<e, VpcOf[s]>>] = {},
           NEW d, d = [subnet |-> s, id |-> assoc[s].id, acl |-> assoc[s].acl, at |-> Age(s)]
    PROVE  OfExecution(e, d) /\ Fresh(d)
<1> USE DEF IInv
<1>0. s \in Subnets
  BY DEF TypeOK
<1>1. Sound(s, assoc[s].acl, Age(s))
  BY <1>0 DEF AssocInv
<1>2. ASSUME assoc[s].acl \in AttackAcls
      PROVE  assoc[s].acl[1] # e /\ Overlapped(e, s)
  <2>1. PICK t \in tags[assoc[s].acl] : t.subnet = s
    BY <1>1, <1>2 DEF Sound
  <2>2. s \in targets[assoc[s].acl[1]] /\ VpcOf[s] = assoc[s].acl[2]
    BY <1>2, <2>1 DEF TagsInv, OfExecution
  <2>3. assoc[s].acl = <<assoc[s].acl[1], assoc[s].acl[2]>> /\ assoc[s].acl[1] \in Executions
    BY <1>2 DEF AttackAcls
  <2> QED
    BY <2>1, <2>2, <2>3 DEF Overlapped
<1>3. assoc[s].id \in Nat
  BY <1>0 DEF TypeOK
<1> QED
  BY <1>1, <1>2, <1>3 DEF OfExecution, Fresh

\* Only DescribeAssociations adds to what Start has read.
LEMMA DesiredWriters ==
    ASSUME [Next]_vars, TypeOK, NEW e \in Executions, ~DescribeAssociations(e)
    PROVE  /\ desired'[e] \subseteq desired[e]
           /\ vpc'[e] = vpc[e]
           /\ step'[e] = "replace" => step[e] = "replace" \/ CreateNacl(e)
<1> USE DEF aws, locals, TypeOK
<1>1. ASSUME NEW f \in Executions, Platform(f)
      PROVE  /\ UNCHANGED <<desired, vpc>>
             /\ step'[e] = "replace" => step[e] = "replace"
  BY <1>1 DEF Platform, Prepare, BeginStart, StartWithoutClient, BeginStop
<1>2. ASSUME NEW f \in Executions, DescribeAssociations(f)
      PROVE  desired'[e] \subseteq desired[e] /\ vpc'[e] = vpc[e] /\ step'[e] = step[e]
  BY <1>2 DEF DescribeAssociations, Break
<1>3. ASSUME NEW f \in Executions, CreateNacl(f)
      PROVE  /\ desired'[e] \subseteq desired[e] /\ vpc'[e] = vpc[e]
             /\ f # e => step'[e] = step[e]
  BY <1>3 DEF CreateNacl, Break
<1>4. ASSUME NEW f \in Executions, ReplaceAssociation(f)
      PROVE  /\ desired'[e] \subseteq desired[e] /\ vpc'[e] = vpc[e]
             /\ step'[e] = "replace" => step[e] = "replace"
  BY <1>4 DEF ReplaceAssociation, Break
<1>5. ASSUME NEW f \in Executions, NextVpc(f) \/ EndStart(f)
      PROVE  /\ UNCHANGED <<desired, vpc>>
             /\ step'[e] = "replace" => step[e] = "replace"
  BY <1>5 DEF NextVpc, EndStart
<1>6. ASSUME NEW f \in Executions, ListNacls(f) \/ EndRestore(f) \/ EndDelete(f)
      PROVE  /\ UNCHANGED <<desired, vpc>>
             /\ step'[e] = "replace" => step[e] = "replace"
  BY <1>6 DEF ListNacls, EndRestore, EndDelete, Return
<1>7. ASSUME NEW f \in Executions, RestoreAssociation(f) \/ DeleteNacl(f)
      PROVE  UNCHANGED <<desired, vpc, step>>
  BY <1>7 DEF RestoreAssociation, DeleteNacl
<1>8. ASSUME NEW s \in Subnets, OwnerMoves(s) PROVE UNCHANGED <<desired, vpc, step>>
  BY <1>8 DEF OwnerMoves
<1>9. CASE Crash
  BY <1>9 DEF Crash
<1>10. CASE UNCHANGED vars
  BY <1>10 DEF vars
<1> QED
  BY <1>1, <1>2, <1>3, <1>4, <1>5, <1>6, <1>7, <1>8, <1>9, <1>10 DEF Next, Handler

\* Every step keeps what Start has read of the associations it replaces.
LEMMA DesiredStep ==
    ASSUME IInv, [Next]_vars, Evolves, TypeOK' PROVE DesiredInv'
<1> SUFFICES ASSUME NEW e \in Executions, NEW d \in desired'[e]
             PROVE  /\ OfExecution(e, d)' /\ Fresh(d)' /\ VpcOf[d.subnet] = vpc'[e]
                    /\ \A c \in desired'[e] : c.subnet = d.subnet => c = d
                    /\ step'[e] = "replace" =>
                         /\ \E t \in tags'[<<e, vpc'[e]>>] : t.subnet = d.subnet
                         /\ \A t \in tags'[<<e, vpc'[e]>>] : t.subnet = d.subnet => t.at = d.at
  BY DEF DesiredInv
<1> USE DEF IInv
<1>0. d.subnet \in Subnets /\ d.acl \in Acls /\ d.id \in Nat
  BY DEF TypeOK, Snapshot
<1>1. SUFFICES /\ OfExecution(e, d) /\ Fresh(d) /\ VpcOf[d.subnet] = vpc'[e]
               /\ \A c \in desired'[e] : c.subnet = d.subnet => c = d
               /\ step'[e] = "replace" =>
                    /\ \E t \in tags'[<<e, vpc'[e]>>] : t.subnet = d.subnet
                    /\ \A t \in tags'[<<e, vpc'[e]>>] : t.subnet = d.subnet => t.at = d.at
  BY <1>0, OfExecutionLasts, FreshLasts
<1>2. CASE DescribeAssociations(e)
  <2>1. PICK v \in todo[e] :
          /\ vpc' = [vpc EXCEPT ![e] = v]
          /\ desired' = [desired EXCEPT ![e] =
                            Associations({s \in targets[e] : VpcOf[s] = v})]
          /\ step' = [step EXCEPT ![e] = "create"]
    BY <1>2 DEF DescribeAssociations, Break, TypeOK
  <2>2. PICK s \in targets[e] :
          /\ VpcOf[s] = v
          /\ d = [subnet |-> s, id |-> assoc[s].id, acl |-> assoc[s].acl, at |-> Age(s)]
    BY <2>1 DEF Associations, TypeOK
  <2>3. tags[<<e, v>>] = {}
    BY <1>2, <2>1 DEF TodoInv, DescribeAssociations, Starting
  <2>4. step'[e] = "create" /\ vpc'[e] = v
    BY <2>1 DEF TypeOK
  <2>5. \A c \in desired'[e] : c.subnet = d.subnet => c = d
    BY <2>1, <2>2 DEF Associations, TypeOK
  <2> QED
    BY <2>2, <2>3, <2>4, <2>5, DescribedIsSound
<1>3. CASE ~DescribeAssociations(e)
  <2>1. /\ d \in desired[e] /\ vpc'[e] = vpc[e]
        /\ step'[e] = "replace" => step[e] = "replace" \/ CreateNacl(e)
    BY <1>3, DesiredWriters
  <2>2. /\ OfExecution(e, d) /\ Fresh(d) /\ VpcOf[d.subnet] = vpc[e]
        /\ \A c \in desired[e] : c.subnet = d.subnet => c = d
    BY <2>1 DEF DesiredInv
  <2>7. \A c \in desired'[e] : c.subnet = d.subnet => c = d
    BY <2>2, <1>3, DesiredWriters
  <2> DEFINE n == <<e, vpc[e]>>
  <2>3. n \in AttackAcls
    BY DEF AttackAcls, TypeOK
  <2>4. CASE step[e] = "replace"
    <3>1. /\ \E t \in tags[n] : t.subnet = d.subnet
          /\ \A t \in tags[n] : t.subnet = d.subnet => t.at = d.at
      BY <2>1, <2>4 DEF DesiredInv
    <3>2. tags'[n] = tags[n]
      BY <3>1, <2>3 DEF Evolves
    <3> QED
      BY <2>1, <2>2, <2>7, <3>1, <3>2
  <2>5. CASE step'[e] = "replace" /\ CreateNacl(e)
    <3>1. tags'[n] = TagsFor(desired[e])
      BY <2>5, <2>3 DEF CreateNacl, Break, TypeOK
    <3>2. \E t \in tags'[n] : t.subnet = d.subnet
      <4>1. [subnet |-> d.subnet, acl |-> d.acl, at |-> d.at] \in tags'[n]
        BY <3>1, <2>1 DEF TagsFor
      <4> QED
        BY <4>1
    <3>3. ASSUME NEW t \in tags'[n], t.subnet = d.subnet PROVE t.at = d.at
      <4>1. PICK c \in desired[e] : t = [subnet |-> c.subnet, acl |-> c.acl, at |-> c.at]
        BY <3>1 DEF TagsFor
      <4>2. c = d
        BY <3>3, <4>1, <2>2
      <4> QED
        BY <4>1, <4>2
    <3> QED
      BY <2>1, <2>2, <2>7, <3>2, <3>3
  <2>6. CASE step'[e] # "replace"
    BY <2>1, <2>2, <2>6, <2>7
  <2> QED
    BY <2>1, <2>4, <2>5, <2>6
<1> QED
  BY <1>2, <1>3

\* Only ListNacls adds to what a rollback puts back.
LEMMA UndoWriters ==
    ASSUME [Next]_vars, TypeOK, NEW e \in Executions, ~ListNacls(e)
    PROVE  undo'[e] \subseteq undo[e]
<1> USE DEF aws, locals, TypeOK
<1>1. ASSUME NEW f \in Executions, Platform(f) PROVE UNCHANGED undo
  BY <1>1 DEF Platform, Prepare, BeginStart, StartWithoutClient, BeginStop
<1>2. ASSUME NEW f \in Executions,
             \/ DescribeAssociations(f) \/ CreateNacl(f) \/ ReplaceAssociation(f)
             \/ NextVpc(f) \/ EndStart(f) \/ DeleteNacl(f)
      PROVE  UNCHANGED undo
  BY <1>2 DEF DescribeAssociations, CreateNacl, ReplaceAssociation, NextVpc, EndStart, DeleteNacl
<1>3. ASSUME NEW f \in Executions, EndRestore(f) \/ EndDelete(f)
      PROVE  undo'[e] \subseteq undo[e]
  BY <1>3 DEF EndRestore, EndDelete, Return
<1>4. ASSUME NEW f \in Executions, RestoreAssociation(f) PROVE undo'[e] \subseteq undo[e]
  BY <1>4 DEF RestoreAssociation
<1>5. ASSUME NEW f \in Executions, ListNacls(f) PROVE undo'[e] \subseteq undo[e]
  BY <1>5 DEF ListNacls, Return
<1>6. ASSUME NEW s \in Subnets, OwnerMoves(s) PROVE UNCHANGED undo
  BY <1>6 DEF OwnerMoves
<1>7. CASE Crash
  BY <1>7 DEF Crash
<1>8. CASE UNCHANGED vars
  BY <1>8 DEF vars
<1> QED
  BY <1>1, <1>2, <1>3, <1>4, <1>5, <1>6, <1>7, <1>8 DEF Next, Handler

\* What a rollback lists of its own ACLs is what their tags say, as of now.
LEMMA ListedIsSound ==
    ASSUME IInv, NEW e \in Executions, NEW u \in ToRestore(e)
    PROVE  OfExecution(e, u) /\ Fresh(u)
<1> USE DEF IInv
<1>1. PICK n \in NaclsOf(e) : \E t \in tags[n] :
        /\ assoc[t.subnet].acl = n
        /\ u = [subnet |-> t.subnet, id |-> assoc[t.subnet].id, acl |-> t.acl, at |-> t.at]
  BY DEF ToRestore
<1>2. PICK t \in tags[n] :
        /\ assoc[t.subnet].acl = n
        /\ u = [subnet |-> t.subnet, id |-> assoc[t.subnet].id, acl |-> t.acl, at |-> t.at]
  BY <1>1
<1>3. n \in AttackAcls /\ n[1] = e
  BY DEF NaclsOf, TypeOK
<1>4. OfExecution(e, t)
  BY <1>3 DEF TagsInv
<1>5. t.subnet \in Subnets
  BY <1>3 DEF TypeOK, Tag
<1>6. Sound(t.subnet, n, Age(t.subnet))
  BY <1>2, <1>5 DEF AssocInv
<1>7. t.at = Age(t.subnet)
  BY <1>3, <1>6 DEF Sound
<1>8. assoc[t.subnet].id \in Nat
  BY <1>5 DEF TypeOK
<1> QED
  BY <1>2, <1>4, <1>7, <1>8 DEF OfExecution, Fresh

\* Every step keeps what a rollback puts back.
LEMMA UndoStep ==
    ASSUME IInv, [Next]_vars, Evolves, TypeOK' PROVE UndoInv'
<1> SUFFICES ASSUME NEW e \in Executions, NEW u \in undo'[e]
             PROVE  OfExecution(e, u)' /\ Fresh(u)'
  BY DEF UndoInv
<1> USE DEF IInv
<1>1. u.subnet \in Subnets /\ u.acl \in Acls /\ u.id \in Nat
  BY DEF TypeOK, Snapshot
<1>2. CASE ListNacls(e)
  <2>1. u \in ToRestore(e)
    BY <1>2 DEF ListNacls, Return, TypeOK
  <2> QED
    BY <1>1, <2>1, ListedIsSound, OfExecutionLasts, FreshLasts
<1>3. CASE ~ListNacls(e)
  <2>1. u \in undo[e]
    BY <1>3, UndoWriters
  <2> QED
    BY <1>1, <2>1, OfExecutionLasts, FreshLasts DEF UndoInv
<1> QED
  BY <1>2, <1>3

\* The association of s is sound after a step when its ACL a was sound for s
\* before it and the owner did not move s.
LEMMA StillSound ==
    ASSUME TypeOK, Evolves, NEW s \in Subnets, NEW a \in Acls, Sound(s, a, Age(s)),
           assoc'[s].acl = a, chosen'[s] = chosen[s]
    PROVE  Sound(s, assoc[s].acl, Age(s))'
<1>1. PICK k : k = Age(s)
  OBVIOUS
<1>2. Sound(s, a, k)'
  BY <1>1, SoundLasts
<1>3. k = Age(s)'
  BY <1>1 DEF Age
<1> QED
  BY <1>2, <1>3 DEF Sound

\* Replacing an association keeps it sound: with an accepted association id
\* what was read of the subnet is still true.
LEMMA AssocStep ==
    ASSUME IInv, [Next]_vars, Evolves, TypeOK' PROVE AssocInv'
<1> SUFFICES ASSUME NEW s \in Subnets
             PROVE  /\ Sound(s, assoc[s].acl, Age(s))'
                    /\ assoc'[s].acl \in AttackAcls => assoc'[s].acl \in nacls'
  BY DEF AssocInv, Blackholed
<1> USE DEF IInv
<1>0. PICK a0 \in Acls : a0 = assoc[s].acl
  BY DEF TypeOK
<1>1. Sound(s, a0, Age(s)) /\ (a0 \in AttackAcls => a0 \in nacls)
  BY <1>0 DEF AssocInv, Blackholed
<1>2. ASSUME assoc'[s] = assoc[s], chosen'[s] = chosen[s]
      PROVE  Sound(s, assoc[s].acl, Age(s))'
  BY <1>0, <1>1, <1>2, StillSound
<1>3. CASE \E e \in Executions : DeleteNacl(e)
  <2> PICK e \in Executions : DeleteNacl(e)
    BY <1>3
  <2>1. assoc' = assoc /\ chosen' = chosen
    BY DEF DeleteNacl
  <2>2. a0 \in nacls => a0 \in nacls'
    BY <1>0 DEF DeleteNacl, CanDelete
  <2> QED
    BY <1>0, <1>1, <1>2, <2>1, <2>2
<1>4. ASSUME ~\E e \in Executions : DeleteNacl(e)
      PROVE  nacls \subseteq nacls'
  BY <1>4, Writers DEF CreateNacl
<1>5. CASE UNCHANGED <<assoc, chosen>> /\ ~\E e \in Executions : DeleteNacl(e)
  BY <1>0, <1>1, <1>2, <1>4, <1>5
<1>6. CASE \E e \in Executions : ReplaceAssociation(e)
  <2> PICK e \in Executions : ReplaceAssociation(e)
    BY <1>6
  <2>0. PICK n : n = <<e, vpc[e]>>
    OBVIOUS
  <2>1. PICK d \in desired[e] :
          UNCHANGED assoc \/ (CanAssociate(d, n) /\ Associate(d.subnet, n))
    BY <2>0 DEF ReplaceAssociation
  <2>2. UNCHANGED <<nacls, tags, chosen>> /\ step[e] = "replace"
    BY DEF ReplaceAssociation, Starting
  <2>3. d.subnet \in Subnets
    BY DEF TypeOK, Snapshot
  <2>4. CASE assoc'[s] = assoc[s]
    BY <1>0, <1>1, <1>2, <2>2, <2>4
  <2>5. CASE s = d.subnet /\ CanAssociate(d, n) /\ Associate(d.subnet, n)
    <3>1. n \in AttackAcls /\ n \in Acls
      BY <2>0 DEF AttackAcls, Acls, TypeOK
    <3>2. assoc'[s].acl = n
      BY <2>3, <2>5, AssociateEffect
    <3>3. n \in nacls
      BY <2>5, <3>1, ConstantsAssumption DEF CanAssociate
    <3>4. d.at = Age(s) /\ Sound(s, d.acl, d.at)
      <4>1. OfExecution(e, d) /\ Fresh(d)
        BY DEF DesiredInv
      <4>2. assoc[d.subnet].id = d.id
        BY <2>5 DEF CanAssociate
      <4> QED
        BY <2>5, <4>1, <4>2 DEF Fresh, OfExecution
    <3>5. /\ \E t \in tags[n] : t.subnet = s
          /\ \A t \in tags[n] : t.subnet = s => t.at = d.at
      BY <2>0, <2>2, <2>5 DEF DesiredInv
    <3>6. Sound(s, n, Age(s))
      BY <3>1, <3>4, <3>5, ConstantsAssumption DEF Sound
    <3> QED
      BY <2>2, <3>1, <3>2, <3>3, <3>6, StillSound
  <2> QED
    BY <2>1, <2>3, <2>4, <2>5, AssociateEffect
<1>7. CASE \E e \in Executions : RestoreAssociation(e)
  <2> PICK e \in Executions : RestoreAssociation(e)
    BY <1>7
  <2>1. PICK u \in undo[e] :
          UNCHANGED assoc \/ (CanAssociate(u, u.acl) /\ Associate(u.subnet, u.acl))
    BY DEF RestoreAssociation
  <2>2. UNCHANGED <<nacls, tags, chosen>>
    BY DEF RestoreAssociation
  <2>3. u.subnet \in Subnets /\ u.acl \in Acls
    BY DEF TypeOK, Snapshot
  <2>4. CASE assoc'[s] = assoc[s]
    BY <1>0, <1>1, <1>2, <2>2, <2>4
  <2>5. CASE s = u.subnet /\ CanAssociate(u, u.acl) /\ Associate(u.subnet, u.acl)
    <3>0. PICK a \in Acls : a = u.acl
      BY <2>3
    <3>1. assoc'[s].acl = a
      BY <2>3, <2>5, <3>0, AssociateEffect
    <3>2. a \in AttackAcls => a \in nacls
      BY <2>5, <3>0, ConstantsAssumption DEF CanAssociate
    <3>3. Sound(s, a, Age(s))
      BY <2>5, <3>0 DEF UndoInv, Fresh, CanAssociate, OfExecution
    <3> QED
      BY <2>2, <3>1, <3>2, <3>3, StillSound
  <2> QED
    BY <2>1, <2>3, <2>4, <2>5, AssociateEffect
<1>8. CASE \E r \in Subnets : OwnerMoves(r)
  <2> PICK r \in Subnets : OwnerMoves(r)
    BY <1>8
  <2>1. PICK a \in UserAcls :
          Associate(r, a) /\ chosen' = [chosen EXCEPT ![r] = Append(@, a)]
    BY DEF OwnerMoves
  <2>2. UNCHANGED <<nacls, tags>>
    BY DEF OwnerMoves
  <2>3. CASE s # r
    <3>1. assoc'[s] = assoc[s] /\ chosen'[s] = chosen[s]
      BY <2>1, <2>3, AssociateEffect DEF TypeOK
    <3> QED
      BY <1>0, <1>1, <1>2, <2>2, <3>1
  <2>4. CASE s = r
    <3>1. chosen[s] \in Seq(UserAcls) /\ chosen'[s] = Append(chosen[s], a)
      BY <2>1, <2>4 DEF TypeOK
    <3>2. assoc'[s].acl = a
      BY <2>1, <2>4, AssociateEffect
    <3>3. Len(chosen'[s]) \in 1..Len(chosen'[s]) /\ chosen'[s][Len(chosen'[s])] = a
      BY <3>1
    <3>4. a \notin AttackAcls
      BY ConstantsAssumption
    <3> QED
      BY <3>2, <3>3, <3>4 DEF Sound, Age
  <2> QED
    BY <2>3, <2>4
<1> QED
  BY <1>3, <1>5, <1>6, <1>7, <1>8, Writers

\* A request touches the handler's state, the tags and the ACLs of its own
\* execution only.
Untouched(e) ==
    /\ phase'[e] = phase[e] /\ step'[e] = step[e] /\ targets'[e] = targets[e]
    /\ todo'[e] = todo[e] /\ vpc'[e] = vpc[e] /\ undo'[e] = undo[e]
    /\ doomed'[e] = doomed[e] /\ errs'[e] = errs[e]
    /\ \A v \in Vpcs : tags'[<<e, v>>] = tags[<<e, v>>]
    /\ NaclsOf(e)' = NaclsOf(e)

\* A step of one execution leaves the ACLs and the local variables of the others
\* alone.
LEMMA Locality ==
    ASSUME IInv, NEW e \in Executions, NEW f \in Executions, f # e, Platform(f) \/ Handler(f)
    PROVE  Untouched(e)
<1> USE DEF IInv, TypeOK, aws, locals, Untouched
<1>1. CASE Prepare(f)
  BY <1>1 DEF Prepare, NaclsOf
<1>2. CASE BeginStart(f) \/ StartWithoutClient(f) \/ BeginStop(f)
  BY <1>2 DEF BeginStart, StartWithoutClient, BeginStop, NaclsOf
<1>3. CASE DescribeAssociations(f)
  BY <1>3 DEF DescribeAssociations, Break, NaclsOf
<1>4. CASE CreateNacl(f)
  <2>1. NaclsOf(e)' = NaclsOf(e)
    BY <1>4 DEF CreateNacl, NaclsOf
  <2>2. \A v \in Vpcs : tags'[<<e, v>>] = tags[<<e, v>>]
    BY <1>4 DEF CreateNacl, AttackAcls
  <2>3. step'[e] = step[e] /\ todo'[e] = todo[e]
    BY <1>4 DEF CreateNacl, Break
  <2> QED
    BY <1>4, <2>1, <2>2, <2>3 DEF CreateNacl
<1>5. CASE ReplaceAssociation(f)
  <2>1. step'[e] = step[e] /\ todo'[e] = todo[e]
    BY <1>5 DEF ReplaceAssociation, Break
  <2> QED
    BY <1>5, <2>1 DEF ReplaceAssociation, NaclsOf
<1>6. CASE NextVpc(f) \/ EndStart(f)
  BY <1>6 DEF NextVpc, EndStart, NaclsOf
<1>7. CASE ListNacls(f)
  BY <1>7 DEF ListNacls, Return, NaclsOf
<1>8. CASE RestoreAssociation(f)
  <2>1. undo'[e] = undo[e] /\ errs'[e] = errs[e]
    BY <1>8 DEF RestoreAssociation
  <2> QED
    BY <1>8, <2>1 DEF RestoreAssociation, NaclsOf
<1>9. CASE EndRestore(f) \/ EndDelete(f)
  BY <1>9 DEF EndRestore, EndDelete, Return, NaclsOf
<1>10. CASE DeleteNacl(f)
  <2>1. doomed'[e] = doomed[e] /\ errs'[e] = errs[e]
    BY <1>10 DEF DeleteNacl
  <2>2. NaclsOf(e)' = NaclsOf(e)
    <3>1. PICK n \in doomed[f] : UNCHANGED nacls \/ nacls' = nacls \ {n}
      BY <1>10 DEF DeleteNacl
    <3>2. n[1] = f
      BY DEF RollbackInv
    <3> QED
      BY <3>1, <3>2 DEF NaclsOf
  <2> QED
    BY <1>10, <2>1, <2>2 DEF DeleteNacl
<1> QED
  BY <1>1, <1>2, <1>3, <1>4, <1>5, <1>6, <1>7, <1>8, <1>9, <1>10 DEF Platform, Handler

\* So do the owner's steps.
LEMMA EnvironmentIsRemote ==
    ASSUME UNCHANGED vars \/ (\E s \in Subnets : OwnerMoves(s)), NEW e \in Executions
    PROVE  Untouched(e)
<1> QED
  BY DEF vars, locals, OwnerMoves, Untouched, NaclsOf

\* The part of TodoInv about one execution.
TodoOf(e) ==
    /\ phase[e] \in {"new", "refused", "prepared"} =>
         \A v \in Vpcs : tags[<<e, v>>] = {}
    /\ \A v \in todo[e] :
         (step[e] = "replace" /\ v = vpc[e]) \/ tags[<<e, v>>] = {}
    /\ step[e] = "create" => vpc[e] \in todo[e]
    /\ step[e] \in {"describe", "create", "replace"} => phase[e] = "starting"

\* Every step keeps the ACLs that are still to be created without tags.
LEMMA TodoStep ==
    ASSUME IInv, [Next]_vars, TypeOK' PROVE TodoInv'
<1> SUFFICES ASSUME NEW e \in Executions PROVE TodoOf(e)'
  BY DEF TodoInv, TodoOf
<1> USE DEF IInv, aws, locals
<1>0. TodoOf(e)
  BY DEF TodoInv, TodoOf
<1>1. ASSUME Untouched(e) PROVE TodoOf(e)'
  BY <1>0, <1>1 DEF TodoOf, Untouched, TypeOK
<1>2. CASE Prepare(e)
  BY <1>0, <1>2 DEF Prepare, TodoOf, TypeOK
<1>3. CASE BeginStart(e)
  BY <1>0, <1>3, ConstantsAssumption DEF BeginStart, TodoOf, TypeOK
<1>4. CASE StartWithoutClient(e) \/ BeginStop(e)
  <2>1. /\ UNCHANGED <<tags, todo, vpc>>
        /\ phase[e] # "starting"
        /\ phase'[e] \in {"startFailed", "stopping", "stopFailed"}
        /\ step'[e] \in {step[e], "list"}
    BY <1>4 DEF StartWithoutClient, BeginStop, MayStop, TypeOK
  <2> QED
    BY <1>0, <2>1 DEF TodoOf
<1>5. CASE DescribeAssociations(e)
  BY <1>0, <1>5 DEF DescribeAssociations, Starting, Break, TodoOf, TypeOK
<1>6. CASE CreateNacl(e)
  <2>1. phase'[e] = "starting"
    BY <1>6 DEF CreateNacl, Starting
  <2>2. CASE step'[e] = "replace"
    <3>1. todo'[e] = todo[e] /\ vpc'[e] = vpc[e]
      BY <1>6, <2>2 DEF CreateNacl, Break, TypeOK
    <3>2. \A v \in Vpcs : v # vpc[e] => tags'[<<e, v>>] = tags[<<e, v>>]
      BY <1>6 DEF CreateNacl, TypeOK, AttackAcls
    <3>3. step[e] # "replace"
      BY <1>6 DEF CreateNacl, Starting
    <3> QED
      BY <1>0, <2>1, <2>2, <3>1, <3>2, <3>3 DEF TodoOf, TypeOK
  <2>3. CASE step'[e] # "replace"
    <3>1. step'[e] = "list" /\ todo'[e] = {}
      BY <1>6, <2>3 DEF CreateNacl, Break, TypeOK
    <3> QED
      BY <2>1, <3>1 DEF TodoOf
  <2> QED
    BY <2>2, <2>3
<1>7. CASE ReplaceAssociation(e)
  <2>1. \/ todo' = todo /\ step' = step
        \/ todo'[e] = {} /\ step'[e] = "list"
    BY <1>7 DEF ReplaceAssociation, Break, TypeOK
  <2>2. UNCHANGED <<phase, tags, vpc>>
    BY <1>7 DEF ReplaceAssociation
  <2> QED
    BY <1>0, <2>1, <2>2 DEF TodoOf
<1>8. CASE NextVpc(e)
  BY <1>0, <1>8 DEF NextVpc, Starting, TodoOf, TypeOK
<1>9. CASE EndStart(e)
  BY <1>0, <1>9 DEF EndStart, Starting, TodoOf, TypeOK
<1>10. CASE ListNacls(e) \/ EndRestore(e) \/ EndDelete(e)
  <2>1. /\ UNCHANGED <<tags, todo, vpc>>
        /\ phase'[e] \in {phase[e], "startFailed", "stopped", "stopFailed"}
        /\ step[e] # "replace" /\ step'[e] \in {"none", "restore", "delete"}
    BY <1>10 DEF ListNacls, EndRestore, EndDelete, Return, Outcome, TypeOK
  <2> QED
    BY <1>0, <2>1 DEF TodoOf
<1>11. CASE RestoreAssociation(e) \/ DeleteNacl(e)
  BY <1>0, <1>11 DEF RestoreAssociation, DeleteNacl, TodoOf
<1>12. CASE Crash
  <2>1. todo'[e] = {} /\ step'[e] = "none" /\ UNCHANGED tags
    BY <1>12 DEF Crash
  <2>2. phase'[e] = phase[e] \/ phase'[e] \in {"startFailed", "stopFailed"}
    BY <1>12 DEF Crash, Outcome
  <2> QED
    BY <1>0, <2>1, <2>2 DEF TodoOf
<1> QED
  BY <1>1, <1>2, <1>3, <1>4, <1>5, <1>6, <1>7, <1>8, <1>9, <1>10, <1>11, <1>12, Locality,
     EnvironmentIsRemote DEF Next, Platform, Handler

\* The parts of RollbackInv about one execution.
RollbackOf(e) ==
    /\ \A n \in doomed[e] : n[1] = e
    /\ step[e] \in {"restore", "delete"} /\ ~errs[e] => NaclsOf(e) \subseteq doomed[e]
    /\ phase[e] = "stopped" => NaclsOf(e) = {}

ToDelete(e) == (step[e] = "restore" /\ ~errs[e]) \/ step[e] = "delete"

LeftBehind(e, s) ==
    Blackholed(s) /\ assoc[s].acl[1] = e =>
        \/ Overlapped(e, s)
        \/ step[e] = "restore" /\ \E u \in undo[e] : u.subnet = s

\* Whoever else moves a subnet onto an ACL of e overlaps e.
LEMMA OthersMoves ==
    ASSUME IInv, Evolves, TypeOK', NEW e \in Executions, NEW s \in Subnets,
           Untouched(e), LeftBehind(e, s),
           \/ \E f \in Executions \ {e} : Platform(f) \/ Handler(f)
           \/ UNCHANGED vars
           \/ \E r \in Subnets : OwnerMoves(r)
    PROVE  LeftBehind(e, s)'
<1> USE DEF IInv
<1>1. Overlapped(e, s) => Overlapped(e, s)'
  BY DEF Overlapped, Evolves
<1>2. CASE assoc'[s] = assoc[s]
  BY <1>1, <1>2 DEF LeftBehind, Blackholed, Untouched
<1>3. ASSUME NEW f \in Executions \ {e}, ReplaceAssociation(f)
      PROVE  LeftBehind(e, s)'
  <2>1. PICK d \in desired[f] : Associate(d.subnet, <<f, vpc[f]>>) \/ UNCHANGED assoc
    BY <1>3 DEF ReplaceAssociation
  <2>2. d.subnet \in Subnets
    BY DEF TypeOK, Snapshot
  <2>3. assoc'[s] = assoc[s] \/ assoc'[s].acl = <<f, vpc[f]>>
    BY <2>1, <2>2, AssociateEffect
  <2> QED
    BY <1>2, <2>3 DEF LeftBehind
<1>4. ASSUME NEW f \in Executions \ {e}, RestoreAssociation(f)
      PROVE  LeftBehind(e, s)'
  <2>1. PICK u \in undo[f] : Associate(u.subnet, u.acl) \/ UNCHANGED assoc
    BY <1>4 DEF RestoreAssociation
  <2>2. u.subnet \in Subnets /\ u.subnet \in targets[f]
    BY DEF TypeOK, Snapshot, UndoInv, OfExecution
  <2>3. assoc'[s] = assoc[s] \/ s = u.subnet
    BY <2>1, <2>2, AssociateEffect
  <2>4. s = u.subnet => Overlapped(e, s)
    BY <2>2 DEF Overlapped
  <2> QED
    BY <1>1, <1>2, <2>3, <2>4 DEF LeftBehind
<1>5. ASSUME NEW r \in Subnets, OwnerMoves(r) PROVE LeftBehind(e, s)'
  <2>1. PICK a \in UserAcls : Associate(r, a)
    BY <1>5 DEF OwnerMoves
  <2>2. assoc'[s] = assoc[s] \/ assoc'[s].acl = a
    BY <2>1, AssociateEffect
  <2>3. a \notin AttackAcls
    BY ConstantsAssumption
  <2> QED
    BY <1>2, <2>2, <2>3 DEF LeftBehind, Blackholed
<1>6. ASSUME NEW f \in Executions \ {e}, Platform(f) \/ Handler(f),
             ~ReplaceAssociation(f), ~RestoreAssociation(f)
      PROVE  UNCHANGED assoc
  BY <1>6 DEF Platform, Handler, Prepare, BeginStart, StartWithoutClient, BeginStop,
     DescribeAssociations, CreateNacl, NextVpc, EndStart, ListNacls, EndRestore,
     DeleteNacl, EndDelete, aws
<1>7. UNCHANGED vars => UNCHANGED assoc
  BY DEF vars
<1> QED
  BY <1>2, <1>3, <1>4, <1>5, <1>6, <1>7

\* Every step keeps what a rollback knows of the work that is left.
LEMMA RollbackStep ==
    ASSUME IInv, [Next]_vars, Evolves, TypeOK' PROVE RollbackInv'
<1> SUFFICES ASSUME NEW e \in Executions
             PROVE  /\ RollbackOf(e)'
                    /\ ToDelete(e)' => \A s \in Subnets : LeftBehind(e, s)'
  BY DEF RollbackInv, RollbackOf, ToDelete, LeftBehind
<1> USE DEF IInv, aws, locals
<1>0. RollbackOf(e) /\ (ToDelete(e) => \A s \in Subnets : LeftBehind(e, s))
  BY DEF RollbackInv, RollbackOf, ToDelete, LeftBehind
<1>1. ASSUME Untouched(e),
             \/ \E f \in Executions \ {e} : Platform(f) \/ Handler(f)
             \/ UNCHANGED vars
             \/ \E r \in Subnets : OwnerMoves(r)
      PROVE  RollbackOf(e)' /\ (ToDelete(e)' => \A s \in Subnets : LeftBehind(e, s)')
  <2>1. RollbackOf(e)'
    BY <1>0, <1>1 DEF RollbackOf, Untouched
  <2>2. ToDelete(e)' => ToDelete(e)
    BY <1>1 DEF ToDelete, Untouched
  <2> QED
    BY <1>0, <1>1, <2>1, <2>2, OthersMoves
<1>2. CASE Platform(e)
  <2>1. /\ UNCHANGED <<nacls, assoc, undo, doomed, errs>>
        /\ phase'[e] # "stopped"
        /\ step'[e] \in {step[e], "describe", "list"}
    BY <1>2 DEF Platform, Prepare, BeginStart, StartWithoutClient, BeginStop, TypeOK
  <2>2. \A s \in Subnets : Overlapped(e, s) => Overlapped(e, s)'
    BY DEF Overlapped, Evolves
  <2>3. RollbackOf(e)'
    BY <1>0, <2>1 DEF RollbackOf, NaclsOf
  <2>4. ASSUME ToDelete(e)', NEW s \in Subnets PROVE LeftBehind(e, s)'
    <3>1. step'[e] = step[e] /\ ToDelete(e)
      BY <2>1, <2>4 DEF ToDelete
    <3> QED
      BY <1>0, <2>1, <2>2, <3>1 DEF LeftBehind, Blackholed
  <2> QED
    BY <2>3, <2>4
<1>3. CASE \/ DescribeAssociations(e) \/ CreateNacl(e) \/ ReplaceAssociation(e)
           \/ NextVpc(e) \/ EndStart(e)
  <2>1. doomed' = doomed /\ phase'[e] # "stopped" /\ step'[e] \notin {"restore", "delete"}
    BY <1>3 DEF DescribeAssociations, CreateNacl, ReplaceAssociation, NextVpc, EndStart,
       Starting, Break, TypeOK
  <2> QED
    BY <1>0, <2>1 DEF RollbackOf, ToDelete
<1>4. CASE ListNacls(e)
  <2>1. CASE step'[e] = "restore"
    <3>1. /\ UNCHANGED <<nacls, assoc, targets, phase, tags>>
          /\ undo'[e] = ToRestore(e) /\ doomed'[e] = NaclsOf(e)
      BY <1>4, <2>1 DEF ListNacls, Return, TypeOK
    <3>2. RollbackOf(e)'
      BY <1>0, <3>1 DEF RollbackOf, NaclsOf
    <3>3. ASSUME NEW s \in Subnets, assoc[s].acl \in AttackAcls, assoc[s].acl[1] = e
          PROVE  \E u \in undo'[e] : u.subnet = s
      <4>1. assoc[s].acl \in NaclsOf(e)
        BY <3>3 DEF AssocInv, Blackholed, NaclsOf
      <4>2. PICK t \in tags[assoc[s].acl] : t.subnet = s
        BY <3>3 DEF AssocInv, Sound
      <4>3. [subnet |-> t.subnet, id |-> assoc[t.subnet].id, acl |-> t.acl, at |-> t.at]
              \in ToRestore(e)
        BY <4>1, <4>2 DEF ToRestore
      <4> QED
        BY <3>1, <4>2, <4>3
    <3> QED
      BY <2>1, <3>1, <3>2, <3>3 DEF LeftBehind, Blackholed
  <2>2. CASE step'[e] # "restore"
    <3>1. /\ UNCHANGED nacls /\ step'[e] = "none" /\ doomed'[e] = {}
          /\ phase'[e] # "stopped"
      BY <1>4, <2>2 DEF ListNacls, Return, Outcome, TypeOK
    <3> QED
      BY <3>1 DEF RollbackOf, ToDelete
  <2> QED
    BY <2>1, <2>2
<1>5. CASE RestoreAssociation(e)
  <2>1. UNCHANGED <<nacls, tags, chosen, phase, step, targets, doomed>> /\ step[e] = "restore"
    BY <1>5 DEF RestoreAssociation
  <2>2. errs[e] => errs'[e]
    BY <1>5 DEF RestoreAssociation, TypeOK
  <2>3. RollbackOf(e)'
    BY <1>0, <2>1, <2>2 DEF RollbackOf, NaclsOf
  <2>4. ASSUME ~errs'[e], NEW s \in Subnets PROVE LeftBehind(e, s)'
    <3>1. PICK u \in undo[e] :
            undo' = [undo EXCEPT ![e] = @ \ {u}] /\ Associate(u.subnet, u.acl)
      BY <1>5, <2>4 DEF RestoreAssociation, TypeOK
    <3>2. LeftBehind(e, s)
      BY <1>0, <2>1, <2>2, <2>4 DEF ToDelete
    <3>3. u.subnet \in Subnets
      BY DEF TypeOK, Snapshot
    <3>4. CASE s = u.subnet
      <4>1. assoc'[s].acl = u.acl
        BY <3>1, <3>3, <3>4, AssociateEffect
      <4>2. u.acl \in AttackAcls => u.acl[1] # e
        BY DEF UndoInv, OfExecution
      <4> QED
        BY <4>1, <4>2 DEF LeftBehind, Blackholed
    <3>5. CASE s # u.subnet
      <4>1. assoc'[s] = assoc[s]
        BY <3>1, <3>3, <3>5, AssociateEffect
      <4>2. \A w \in undo[e] : w.subnet = s => w \in undo'[e]
        BY <3>1, <3>5 DEF TypeOK
      <4> QED
        BY <2>1, <3>2, <4>1, <4>2 DEF LeftBehind, Blackholed, Overlapped
    <3> QED
      BY <3>4, <3>5
  <2> QED
    BY <2>1, <2>3, <2>4 DEF ToDelete
<1>6. CASE EndRestore(e)
  <2>1. UNCHANGED <<nacls, assoc, targets>> /\ undo[e] = {} /\ step[e] = "restore"
    BY <1>6 DEF EndRestore
  <2>2. CASE errs[e]
    <3>1. step'[e] = "none" /\ doomed'[e] = {} /\ phase'[e] # "stopped"
      BY <1>6, <2>2 DEF EndRestore, Return, Outcome, TypeOK
    <3> QED
      BY <3>1 DEF RollbackOf, ToDelete
  <2>3. CASE ~errs[e]
    <3>1. step'[e] = "delete" /\ UNCHANGED <<phase, undo, doomed, errs>>
      BY <1>6, <2>3 DEF EndRestore, TypeOK
    <3>2. RollbackOf(e)'
      BY <1>0, <2>1, <3>1 DEF RollbackOf, NaclsOf
    <3> QED
      BY <1>0, <2>1, <2>3, <3>1, <3>2 DEF ToDelete, LeftBehind, Blackholed, Overlapped
  <2> QED
    BY <2>2, <2>3
<1>7. CASE DeleteNacl(e)
  <2>1. UNCHANGED <<assoc, phase, step, targets, undo>> /\ step[e] = "delete"
    BY <1>7 DEF DeleteNacl
  <2>2. PICK n \in doomed[e] :
          /\ doomed' = [doomed EXCEPT ![e] = @ \ {n}]
          /\ \/ nacls' = nacls \ {n}
             \/ nacls' = nacls /\ errs' = [errs EXCEPT ![e] = TRUE]
    BY <1>7 DEF DeleteNacl
  <2>3. errs[e] => errs'[e]
    BY <1>7 DEF DeleteNacl, TypeOK
  <2>4. doomed'[e] = doomed[e] \ {n}
    BY <2>2 DEF TypeOK
  <2>5. ~errs'[e] => NaclsOf(e)' \subseteq doomed'[e]
    BY <1>0, <2>1, <2>2, <2>3, <2>4 DEF RollbackOf, NaclsOf, TypeOK
  <2>6. nacls' \subseteq nacls
    BY <2>2
  <2>7. RollbackOf(e)'
    BY <1>0, <2>1, <2>4, <2>5, <2>6 DEF RollbackOf, NaclsOf
  <2> QED
    BY <1>0, <2>1, <2>7 DEF ToDelete, LeftBehind, Blackholed, Overlapped
<1>8. CASE EndDelete(e)
  <2>1. UNCHANGED nacls /\ step[e] = "delete" /\ doomed[e] = {}
    BY <1>8 DEF EndDelete
  <2>2. /\ step'[e] = "none" /\ doomed'[e] = {}
        /\ phase'[e] = "stopped" => ~errs[e]
    BY <1>8 DEF EndDelete, Return, Outcome, TypeOK
  <2> QED
    BY <1>0, <2>1, <2>2 DEF RollbackOf, ToDelete, NaclsOf
<1>9. CASE Crash
  <2>1. /\ UNCHANGED nacls /\ step'[e] = "none" /\ doomed'[e] = {}
        /\ phase'[e] = "stopped" => phase[e] = "stopped"
    BY <1>9 DEF Crash, Outcome
  <2> QED
    BY <1>0, <2>1 DEF RollbackOf, ToDelete, NaclsOf
<1> QED
  BY <1>1, <1>2, <1>3, <1>4, <1>5, <1>6, <1>7, <1>8, <1>9, Locality, EnvironmentIsRemote
     DEF Next, Handler

\* The parts of LockoutInv about one execution.
LockoutOf(e) ==
    /\ \A s \in targets[e] : MayAttack(e, AccountOf[VpcOf[s]])
    /\ \A v \in todo[e] : \E s \in targets[e] : VpcOf[s] = v
    /\ phase[e] = "new" => targets[e] = {}

\* An execution that Prepare let pass without the metadata service stays one.
LEMMA SilentGrows ==
    ASSUME [Next]_vars PROVE silent \subseteq silent'
<1>1. ASSUME NEW e \in Executions, Prepare(e) PROVE silent \subseteq silent'
  BY <1>1 DEF Prepare
<1>2. ASSUME NEW e \in Executions, Handler(e) PROVE UNCHANGED silent
  BY <1>2 DEF Handler, DescribeAssociations, CreateNacl, ReplaceAssociation, NextVpc, EndStart,
              ListNacls, RestoreAssociation, EndRestore, DeleteNacl, EndDelete
<1>3. ASSUME NEW e \in Executions, BeginStart(e) \/ StartWithoutClient(e) \/ BeginStop(e)
      PROVE  UNCHANGED silent
  BY <1>3 DEF BeginStart, StartWithoutClient, BeginStop
<1>4. ASSUME Crash \/ (\E s \in Subnets : OwnerMoves(s)) \/ UNCHANGED vars
      PROVE  UNCHANGED silent
  BY <1>4 DEF Crash, OwnerMoves, vars
<1> QED
  BY <1>1, <1>2, <1>3, <1>4 DEF Next, Platform

\* What an execution may attack it may attack after any step.
LEMMA MayAttackStays ==
    ASSUME [Next]_vars, NEW e, NEW account, MayAttack(e, account)
    PROVE  MayAttack(e, account)'
<1> QED
  BY SilentGrows DEF MayAttack

\* Every step keeps attack ACLs out of the protected accounts.
LEMMA LockoutStep ==
    ASSUME IInv, [Next]_vars PROVE LockoutInv'
<1> USE DEF IInv, aws, locals
<1>1. ASSUME NEW n \in nacls'
      PROVE  MayAttack(n[1], AccountOf[n[2]])'
  <2>1. ASSUME NEW e \in Executions, CreateNacl(e), n = <<e, vpc[e]>>
        PROVE  MayAttack(n[1], AccountOf[n[2]])
    <3>1. vpc[e] \in todo[e]
      BY <2>1 DEF CreateNacl, Starting, TodoInv
    <3>2. PICK s \in targets[e] : VpcOf[s] = vpc[e]
      BY <3>1 DEF LockoutInv
    <3> QED
      BY <2>1, <3>2 DEF LockoutInv
  <2>2. n \in nacls \/ \E e \in Executions : CreateNacl(e) /\ n = <<e, vpc[e]>>
    BY Writers DEF CreateNacl, DeleteNacl
  <2>3. MayAttack(n[1], AccountOf[n[2]])
    BY <2>1, <2>2 DEF LockoutInv
  <2> QED
    BY <2>3, MayAttackStays
<1>2. ASSUME NEW e \in Executions PROVE LockoutOf(e)'
  <2>0. LockoutOf(e)
    BY DEF LockoutInv, LockoutOf
  <2>10. \A s \in targets[e] : MayAttack(e, AccountOf[VpcOf[s]])'
    BY <2>0, MayAttackStays DEF LockoutOf
  <2>1. ASSUME Untouched(e) PROVE LockoutOf(e)'
    BY <2>0, <2>1, <2>10 DEF LockoutOf, Untouched
  <2>2. CASE Prepare(e)
    <3>1. CASE targets'[e] = targets[e]
      BY <2>0, <2>2, <2>10, <3>1 DEF Prepare, LockoutOf, TypeOK
    <3>2. CASE targets'[e] # targets[e]
      <4>1. PICK T \in TargetSets, imds \in {HostAccount, NoAccount},
                 agent \in {AgentAccount, NoAccount} :
              \E account \in Accounts(T) :
                /\ Accounts(T) = {account}
                /\ ~Refused(account, imds, RootAccount, agent)
                /\ phase' = [phase EXCEPT ![e] = "prepared"]
                /\ targets' = [targets EXCEPT ![e] = T]
                /\ silent' = IF imds = NoAccount THEN silent \cup {e} ELSE silent
        BY <2>2, <3>2 DEF Prepare
      <4>2. PICK account \in Accounts(T) :
              /\ Accounts(T) = {account}
              /\ ~Refused(account, imds, RootAccount, agent)
              /\ phase' = [phase EXCEPT ![e] = "prepared"]
              /\ targets' = [targets EXCEPT ![e] = T]
              /\ silent' = IF imds = NoAccount THEN silent \cup {e} ELSE silent
        BY <4>1
      <4>3. MayAttack(e, account)'
        <5>1. account \notin {RootAccount, AgentAccount}
          BY <4>2, ConstantsAssumption DEF Refused, ProtectedAccounts
        <5>2. ASSUME account = HostAccount PROVE imds = NoAccount
          BY <4>2, <5>2 DEF Refused, ProtectedAccounts
        <5>3. account = HostAccount => e \in silent'
          BY <4>2, <5>2
        <5> QED
          BY <5>1, <5>3 DEF MayAttack
      <4>4. targets'[e] = T /\ phase'[e] = "prepared"
        BY <4>2 DEF TypeOK
      <4>5. \A s \in T : AccountOf[VpcOf[s]] = account
        BY <4>2 DEF Accounts
      <4>6. todo'[e] = todo[e] /\ targets[e] = {}
        BY <2>0, <2>2 DEF Prepare, LockoutOf
      <4> QED
        BY <2>0, <4>3, <4>4, <4>5, <4>6 DEF LockoutOf
    <3> QED
      BY <3>1, <3>2
  <2>3. CASE BeginStart(e)
    BY <2>0, <2>3, <2>10 DEF BeginStart, LockoutOf, TypeOK
  <2>4. CASE StartWithoutClient(e) \/ BeginStop(e)
    BY <2>0, <2>4, <2>10 DEF StartWithoutClient, BeginStop, LockoutOf, TypeOK
  <2>5. CASE DescribeAssociations(e) \/ CreateNacl(e) \/ ReplaceAssociation(e)
    <3>1. /\ todo'[e] \in {todo[e], {}}
          /\ UNCHANGED <<targets, phase>>
      BY <2>5 DEF DescribeAssociations, CreateNacl, ReplaceAssociation, Break, TypeOK
    <3> QED
      BY <2>0, <2>10, <3>1 DEF LockoutOf
  <2>6. CASE NextVpc(e) \/ EndStart(e)
    BY <2>0, <2>6, <2>10 DEF NextVpc, EndStart, LockoutOf, TypeOK
  <2>7. CASE ListNacls(e) \/ EndRestore(e) \/ EndDelete(e)
    <3>1. /\ UNCHANGED <<targets, todo>>
          /\ phase'[e] \in {phase[e], "startFailed", "stopped", "stopFailed"}
      BY <2>7 DEF ListNacls, EndRestore, EndDelete, Return, Outcome, TypeOK
    <3> QED
      BY <2>0, <2>10, <3>1 DEF LockoutOf
  <2>8. CASE RestoreAssociation(e) \/ DeleteNacl(e)
    BY <2>0, <2>8, <2>10 DEF RestoreAssociation, DeleteNacl, LockoutOf
  <2>9. CASE Crash
    BY <2>0, <2>9, <2>10 DEF Crash, Outcome, LockoutOf
  <2> QED
    BY <2>1, <2>2, <2>3, <2>4, <2>5, <2>6, <2>7, <2>8, <2>9, Locality, EnvironmentIsRemote
       DEF Next, Platform, Handler
<1> QED
  BY <1>1, <1>2 DEF LockoutInv, LockoutOf

-----------------------------------------------------------------------------
(* The theorems                                                             *)

\* The inductive invariant holds at first.
LEMMA InitInv == Init => IInv
<1> SUFFICES ASSUME Init PROVE IInv
  OBVIOUS
<1>1. TypeOK
  BY InitType
<1>2. AssocInv
  <2> SUFFICES ASSUME NEW s \in Subnets
               PROVE  Sound(s, assoc[s].acl, Age(s)) /\ ~Blackholed(s)
    BY DEF AssocInv
  <2>1. PICK a \in UserAcls : assoc[s].acl = a /\ chosen[s] = <<a>>
    BY DEF Init
  <2>2. a \notin AttackAcls
    BY ConstantsAssumption
  <2> QED
    BY <2>1, <2>2 DEF Sound, Age, Blackholed
<1>3. TagsInv /\ DesiredInv /\ UndoInv
  BY DEF Init, TagsInv, DesiredInv, UndoInv
<1>4. TodoInv
  BY DEF Init, TodoInv, AttackAcls
<1>5. RollbackInv
  BY DEF Init, RollbackInv, NaclsOf
<1>6. LockoutInv
  BY DEF Init, LockoutInv
<1> QED
  BY <1>1, <1>2, <1>3, <1>4, <1>5, <1>6 DEF IInv

\* The inductive invariant is one.
LEMMA NextInv == IInv /\ [Next]_vars => IInv'
<1> SUFFICES ASSUME IInv, [Next]_vars PROVE IInv'
  OBVIOUS
<1>1. Evolves
  BY Evolution
<1>2. TypeOK'
  BY NextType DEF IInv
<1> QED
  BY <1>1, <1>2, TagsStep, DesiredStep, UndoStep, AssocStep, TodoStep, RollbackStep,
     LockoutStep DEF IInv

\* The inductive invariant holds always: the tags, the associations and the
\* local variables of every running Start, Stop and rollback of
\* blackhole_common.go agree.
THEOREM Invariance == Spec => []IInv
<1> QED
  BY InitInv, NextInv, PTL DEF Spec

\* A subnet that is not blackholed is on the ACL its owner chose last, for any
\* number of overlapping attacks, faults, crashes and moves.
THEOREM OwnersChoiceIsKept == Spec => []OwnersChoiceKept
<1>1. IInv => OwnersChoiceKept
  <2> SUFFICES ASSUME IInv, NEW s \in Subnets, ~Blackholed(s) PROVE assoc[s].acl = Choice(s)
    BY DEF OwnersChoiceKept
  <2>1. assoc[s].acl \in UserAcls
    BY DEF IInv, TypeOK, Acls, Blackholed
  <2> QED
    BY <2>1 DEF IInv, AssocInv, Sound, Choice
<1> QED
  BY <1>1, Invariance, PTL

\* The ACL of a blackholed subnet exists and its tag leads back to the owner's
\* choice, or to the ACL of an execution that overlaps.
THEOREM WayBackIsKnown == Spec => []WayBackKnown
<1>1. IInv => WayBackKnown
  <2> SUFFICES ASSUME IInv, NEW s \in Subnets, NEW n \in AttackAcls, assoc[s].acl = n
               PROVE  /\ n \in nacls
                      /\ \E t \in tags[n] :
                           /\ t.subnet = s
                           /\ \/ t.acl = Choice(s)
                              \/ /\ t.acl \in AttackAcls /\ t.acl[1] # n[1]
                                 /\ Overlapped(n[1], s)
    BY DEF WayBackKnown
  <2>1. n \in nacls /\ Sound(s, n, Age(s))
    BY DEF IInv, AssocInv, Blackholed
  <2>2. PICK t \in tags[n] : t.subnet = s /\ t.at = Age(s)
    BY <2>1 DEF Sound
  <2>3. Sound(s, t.acl, t.at) /\ (t.acl \in AttackAcls => t.acl[1] # n[1] /\ Overlapped(n[1], s))
    BY <2>2 DEF IInv, TagsInv, OfExecution
  <2>4. t \in Tag
    BY DEF IInv, TypeOK
  <2>5. t.acl \in UserAcls \cup AttackAcls
    BY <2>4 DEF Tag, Acls
  <2>6. t.acl \in UserAcls => t.acl = Choice(s)
    BY <2>2, <2>3 DEF Sound, Choice
  <2> QED
    BY <2>1, <2>2, <2>3, <2>5, <2>6
<1> QED
  BY <1>1, Invariance, PTL

\* A successful Stop leaves nothing of its execution behind.
THEOREM StopIsClean == Spec => []StoppedIsClean
<1>1. IInv => StoppedIsClean
  BY DEF IInv, RollbackInv, AssocInv, Blackholed, NaclsOf, StoppedIsClean
<1> QED
  BY <1>1, Invariance, PTL

\* No attack ACL appears in the account of the extension's credentials or of
\* the agent, nor in another account the extension runs in, unless the
\* metadata service was silent when Prepare asked it.
THEOREM LockoutIsPrevented == Spec => []NoLockout
<1>1. IInv => NoLockout
  BY DEF IInv, LockoutInv, MayAttack, NoLockout
<1> QED
  BY <1>1, Invariance, PTL

\* An ACL is deleted only when its execution has left no subnet blackholed,
\* overlaps aside.
THEOREM DeletionIsSafe == Spec => DeletedOnlyWhenRestored
<1> DEFINE Safe ==
      \A e \in Executions :
          ~(NaclsOf(e) \subseteq nacls') =>
              \A s \in Subnets : Blackholed(s) /\ assoc[s].acl[1] = e => Overlapped(e, s)
<1>1. IInv /\ [Next]_vars => [Safe]_vars
  <2> SUFFICES ASSUME IInv, [Next]_vars, NEW e \in Executions, ~(NaclsOf(e) \subseteq nacls'),
                      NEW s \in Subnets, Blackholed(s), assoc[s].acl[1] = e
               PROVE  Overlapped(e, s)
    OBVIOUS
  <2>1. PICK f \in Executions : DeleteNacl(f)
    BY Writers DEF CreateNacl, NaclsOf
  <2>2. f = e
    BY <2>1 DEF DeleteNacl, IInv, RollbackInv, NaclsOf
  <2>3. step[e] = "delete"
    BY <2>1, <2>2 DEF DeleteNacl
  <2> QED
    BY <2>3 DEF IInv, RollbackInv
<1> QED
  BY <1>1, Invariance, PTL DEF Spec, DeletedOnlyWhenRestored
=============================================================================
