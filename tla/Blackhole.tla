------------------------------ MODULE Blackhole ------------------------------
(***************************************************************************)
(* The blackhole attacks of extec2 (subnet and availability zone): every   *)
(* execution puts a deny-all network ACL in front of its target subnets    *)
(* and promises to put the old ACLs back.                                  *)
(*                                                                         *)
(* One action is one call to AWS (or the local step between two of them),  *)
(* so the handlers of different executions interleave between any two AWS  *)
(* calls, and the account's owner may re-associate a subnet in between.    *)
(* An AWS call may be rejected, may fail without effect, or may take       *)
(* effect and still be reported as failed (its reply is lost).             *)
(*                                                                         *)
(* An execution creates at most one ACL per VPC, so the id AWS hands out   *)
(* is modelled by its creator: <<execution, vpc>>.  The two deny entries   *)
(* added to a new ACL are left out: a new ACL denies everything already    *)
(* and the code ignores their errors.                                      *)
(***************************************************************************)
EXTENDS Integers, Sequences

CONSTANTS
    Executions,         \* attack executions the platform runs
    Subnets, Vpcs,      \* VPCs are numbers: the code visits them sorted
    VpcOf,              \* the VPC of a subnet
    AccountOf,          \* the AWS account of a VPC
    UserAcls,           \* the ACLs of the account's owner
    TargetSets,         \* what a target may resolve to: sets of subnets
    HostAccount,        \* the account the extension runs in, NoAccount outside AWS
    RootAccount,        \* the account of the extension's credentials
    AgentAccount,       \* the account the platform's agent runs in
    NoAccount,          \* no account is known
    MaxFaults,          \* bound: failing AWS calls and crashes
    MaxMoves,           \* bound: re-associations by the owner
    MaxStops            \* bound: Stop requests per execution

AttackAcls == Executions \X Vpcs
Acls == UserAcls \cup AttackAcls

ASSUME ConstantsAssumption ==
    /\ VpcOf \in [Subnets -> Vpcs]
    /\ Vpcs \subseteq Nat /\ Vpcs # {}
    /\ UserAcls \cap AttackAcls = {}
    /\ TargetSets \subseteq SUBSET Subnets
    /\ MaxFaults \in Nat /\ MaxMoves \in Nat /\ MaxStops \in Nat
    /\ RootAccount # NoAccount

VARIABLES
    nacls,      \* AWS: the attack ACLs that exist
    tags,       \* AWS: the "steadybit-replaced <subnet>" tags an ACL was created with
    assoc,      \* AWS: the association of each subnet, its id and its ACL
    chosen,     \* history: the ACLs the owner chose for a subnet, in order
    phase,      \* platform: how far an execution is
    step,       \* handler: the next AWS call of the running request
    targets,    \* state.TargetSubnets
    silent,     \* history: the executions Prepare let pass without the metadata service
    todo,       \* startBlackhole: the VPCs still to do
    vpc,        \* startBlackhole: the VPC being done
    desired,    \* startBlackhole: desiredAclAssociations still to replace
    undo,       \* rollback: the associations still to put back
    doomed,     \* rollback: the ACLs still to delete
    errs,       \* rollback: errors is not nil
    faults, moves, stops

aws == <<nacls, tags, assoc, chosen>>
locals == <<todo, vpc, desired, undo, doomed, errs>>
vars == <<nacls, tags, assoc, chosen, phase, step, targets, silent, todo,
          vpc, desired, undo, doomed, errs, faults, moves, stops>>

-----------------------------------------------------------------------------
(* What AWS knows and what a request reads of it.                          *)

\* A reply of DescribeNetworkAcls read as: this subnet is associated through
\* this association id with this ACL.  "at" is history: the owner's choice
\* that was in force.
Snapshot == [subnet : Subnets, id : Nat, acl : Acls, at : Nat]
Tag == [subnet : Subnets, acl : Acls, at : Nat]

NaclsOf(e) == {n \in nacls : n[1] = e}
Age(s) == Len(chosen[s])

\* getNetworkAclAssociations: the associations of the target subnets of one VPC.
Associations(S) ==
    {[subnet |-> s, id |-> assoc[s].id, acl |-> assoc[s].acl, at |-> Age(s)] : s \in S}

\* Mutant: the new ACL gets no steadybit-replaced tags.
TagsForNothing(D) == {}

\* The tags createNetworkAcl puts on the new ACL.
TagsFor(D) == {[subnet |-> d.subnet, acl |-> d.acl, at |-> d.at] : d \in D}

\* Mutant: the rollback does not look at the ACL a subnet is associated with.
ToRestoreAnyway(e) ==
    UNION {{[subnet |-> t.subnet, id |-> assoc[t.subnet].id, acl |-> t.acl, at |-> t.at] :
            t \in tags[n]} : n \in NaclsOf(e)}

\* What the rollback of e will put back: each tag of each of its ACLs whose
\* subnet is associated with that very ACL.
ToRestore(e) ==
    UNION {{[subnet |-> t.subnet, id |-> assoc[t.subnet].id, acl |-> t.acl, at |-> t.at] :
            t \in {u \in tags[n] : assoc[u.subnet].acl = n}} : n \in NaclsOf(e)}

\* AWS refuses a stale association id and an ACL that is gone.
CanAssociate(r, a) == assoc[r.subnet].id = r.id /\ a \in UserAcls \cup nacls
Associate(s, a) == assoc' = [assoc EXCEPT ![s] = [id |-> @.id + 1, acl |-> a]]

\* AWS refuses to delete an ACL that is gone or in use.
CanDelete(n) == n \in nacls /\ \A s \in Subnets : assoc[s].acl # n

Fault == faults < MaxFaults /\ faults' = faults + 1
NoFault == UNCHANGED faults

-----------------------------------------------------------------------------
Init ==
    /\ nacls = {} /\ tags = [n \in AttackAcls |-> {}]
    /\ \E own \in [Subnets -> UserAcls] :
         /\ assoc = [s \in Subnets |-> [id |-> 0, acl |-> own[s]]]
         /\ chosen = [s \in Subnets |-> <<own[s]>>]
    /\ phase = [e \in Executions |-> "new"]
    /\ step = [e \in Executions |-> "none"]
    /\ targets = [e \in Executions |-> {}] /\ silent = {}
    /\ todo = [e \in Executions |-> {}]
    /\ vpc = [e \in Executions |-> CHOOSE v \in Vpcs : TRUE]
    /\ desired = [e \in Executions |-> {}]
    /\ undo = [e \in Executions |-> {}]
    /\ doomed = [e \in Executions |-> {}]
    /\ errs = [e \in Executions |-> FALSE]
    /\ faults = 0 /\ moves = 0 /\ stops = [e \in Executions |-> 0]

(* Prepare ---------------------------------------------------------------- *)

\* Mutant: the account of the credentials counts only when the metadata
\* service names none.
ProtectedByOne(imds, sts) == IF imds = NoAccount THEN {sts} ELSE {imds}

\* getProtectedAWSAccounts: the account the metadata service names now, if it
\* answers, and the one STS named when the extension started.
ProtectedAccounts(imds, sts) == {imds, sts} \ {NoAccount}

Accounts(T) == {AccountOf[VpcOf[s]] : s \in T}

\* The guards of prepareBlackhole before it resolves the target's subnets.
Refused(account, imds, sts, agent) ==
    \/ ProtectedAccounts(imds, sts) = {}
    \/ account \in ProtectedAccounts(imds, sts)
    \/ agent = NoAccount
    \/ account = agent

\* The metadata service may fail to answer, and the platform may not know its
\* agent's account.  STS has answered: the extension does not start otherwise.
Prepare(e) ==
    /\ phase[e] = "new"
    /\ \E T \in TargetSets, imds \in {HostAccount, NoAccount},
          agent \in {AgentAccount, NoAccount} :
         \E account \in Accounts(T) :
           /\ Accounts(T) = {account}
           /\ \/ /\ Refused(account, imds, RootAccount, agent)
                 /\ phase' = [phase EXCEPT ![e] = "refused"]
                 /\ UNCHANGED <<targets, silent>>
              \/ /\ ~Refused(account, imds, RootAccount, agent)
                 /\ phase' = [phase EXCEPT ![e] = "prepared"]
                 /\ targets' = [targets EXCEPT ![e] = T]
                 /\ silent' = IF imds = NoAccount THEN silent \cup {e} ELSE silent
    /\ UNCHANGED <<aws, step, locals, faults, moves, stops>>

(* Start ------------------------------------------------------------------ *)

\* An error in the loop: break, and roll back what was done so far.
Break(e) ==
    /\ step' = [step EXCEPT ![e] = "list"]
    /\ todo' = [todo EXCEPT ![e] = {}]
    /\ desired' = [desired EXCEPT ![e] = {}]

BeginStart(e) ==
    /\ phase[e] = "prepared"
    /\ phase' = [phase EXCEPT ![e] = "starting"]
    /\ step' = [step EXCEPT ![e] = "describe"]
    /\ todo' = [todo EXCEPT ![e] = {VpcOf[s] : s \in targets[e]}]
    /\ NoFault
    /\ UNCHANGED <<aws, targets, silent, vpc, desired, undo, doomed, errs, moves, stops>>

\* clientProvider fails: the request returns its error, nothing to roll back.
StartWithoutClient(e) ==
    /\ phase[e] = "prepared"
    /\ phase' = [phase EXCEPT ![e] = "startFailed"]
    /\ Fault
    /\ UNCHANGED <<aws, step, targets, silent, locals, moves, stops>>

Starting(e, st) == phase[e] = "starting" /\ step[e] = st

\* getNetworkAclAssociations for the next VPC in sorted order.
DescribeAssociations(e) ==
    /\ Starting(e, "describe")
    /\ \E v \in todo[e] :
         /\ \A w \in todo[e] : v <= w
         /\ \/ /\ vpc' = [vpc EXCEPT ![e] = v]
               /\ desired' = [desired EXCEPT ![e] =
                                 Associations({s \in targets[e] : VpcOf[s] = v})]
               /\ step' = [step EXCEPT ![e] = "create"]
               /\ NoFault
               /\ UNCHANGED todo
            \/ Fault /\ Break(e) /\ UNCHANGED vpc
    /\ UNCHANGED <<aws, phase, targets, silent, undo, doomed, errs, moves, stops>>

\* createNetworkAcl: the ACL appears together with its tags.
CreateNacl(e) ==
    LET n == <<e, vpc[e]>>
        Created == /\ nacls' = nacls \cup {n}
                   /\ tags' = [tags EXCEPT ![n] = TagsFor(desired[e])]
    IN
    /\ Starting(e, "create")
    /\ \/ /\ Created /\ NoFault
          /\ step' = [step EXCEPT ![e] = "replace"]
          /\ UNCHANGED <<todo, desired>>
       \/ Created /\ Fault /\ Break(e)
       \/ Fault /\ Break(e) /\ UNCHANGED <<nacls, tags>>
    /\ UNCHANGED <<assoc, chosen, phase, targets, silent, vpc, undo, doomed, errs,
                   moves, stops>>

\* replaceNetworkAclAssociations: one association after the other.
ReplaceAssociation(e) ==
    /\ Starting(e, "replace")
    /\ \E d \in desired[e] :
         LET n == <<e, vpc[e]>> IN
         \/ /\ CanAssociate(d, n) /\ Associate(d.subnet, n)
            /\ desired' = [desired EXCEPT ![e] = @ \ {d}]
            /\ NoFault
            /\ UNCHANGED <<step, todo>>
         \/ CanAssociate(d, n) /\ Associate(d.subnet, n) /\ Fault /\ Break(e)
         \/ ~CanAssociate(d, n) /\ NoFault /\ Break(e) /\ UNCHANGED assoc
         \/ Fault /\ Break(e) /\ UNCHANGED assoc
    /\ UNCHANGED <<nacls, tags, chosen, phase, targets, silent, vpc, undo, doomed, errs,
                   moves, stops>>

\* The loop goes on to the next VPC.
NextVpc(e) ==
    /\ Starting(e, "replace") /\ desired[e] = {}
    /\ todo' = [todo EXCEPT ![e] = @ \ {vpc[e]}]
    /\ step' = [step EXCEPT ![e] = "describe"]
    /\ UNCHANGED <<aws, phase, targets, silent, vpc, desired, undo, doomed, errs, faults,
                   moves, stops>>

EndStart(e) ==
    /\ Starting(e, "describe") /\ todo[e] = {}
    /\ phase' = [phase EXCEPT ![e] = "active"]
    /\ step' = [step EXCEPT ![e] = "none"]
    /\ UNCHANGED <<aws, targets, silent, locals, faults, moves, stops>>

(* Stop, and the rollback it shares with a failed Start -------------------- *)

\* The platform may stop what it prepared, and may stop again.
MayStop == {"prepared", "active", "startFailed", "stopFailed", "stopped"}

BeginStop(e) ==
    /\ phase[e] \in MayStop /\ stops[e] < MaxStops
    /\ stops' = [stops EXCEPT ![e] = @ + 1]
    /\ \/ /\ phase' = [phase EXCEPT ![e] = "stopping"]
          /\ step' = [step EXCEPT ![e] = "list"]
          /\ NoFault
       \/ phase' = [phase EXCEPT ![e] = "stopFailed"] /\ Fault /\ UNCHANGED step
    /\ UNCHANGED <<aws, targets, silent, locals, moves>>

\* A failed Start returns its own error, whatever the rollback's result.
Outcome(e, ok) ==
    IF phase[e] = "starting" THEN "startFailed" ELSE IF ok THEN "stopped" ELSE "stopFailed"

\* The rollback is over, its local variables are gone and the request returns.
Return(e, ok) ==
    /\ phase' = [phase EXCEPT ![e] = Outcome(e, ok)]
    /\ step' = [step EXCEPT ![e] = "none"]
    /\ undo' = [undo EXCEPT ![e] = {}]
    /\ doomed' = [doomed EXCEPT ![e] = {}]
    /\ errs' = [errs EXCEPT ![e] = FALSE]

\* getAllNACLsCreatedBySteadybit.
ListNacls(e) ==
    /\ step[e] = "list"
    /\ \/ /\ undo' = [undo EXCEPT ![e] = ToRestore(e)]
          /\ doomed' = [doomed EXCEPT ![e] = NaclsOf(e)]
          /\ errs' = [errs EXCEPT ![e] = FALSE]
          /\ step' = [step EXCEPT ![e] = "restore"]
          /\ NoFault
          /\ UNCHANGED phase
       \/ Fault /\ Return(e, FALSE)
    /\ UNCHANGED <<aws, targets, silent, todo, vpc, desired, moves, stops>>

\* An error is remembered and the loop goes on with the next association.
RestoreAssociation(e) ==
    /\ step[e] = "restore"
    /\ \E u \in undo[e] :
         /\ undo' = [undo EXCEPT ![e] = @ \ {u}]
         /\ \/ CanAssociate(u, u.acl) /\ Associate(u.subnet, u.acl) /\ NoFault /\ UNCHANGED errs
            \/ /\ \/ CanAssociate(u, u.acl) /\ Associate(u.subnet, u.acl) /\ Fault
                  \/ ~CanAssociate(u, u.acl) /\ NoFault /\ UNCHANGED assoc
                  \/ Fault /\ UNCHANGED assoc
               /\ errs' = [errs EXCEPT ![e] = TRUE]
    /\ UNCHANGED <<nacls, tags, chosen, phase, step, targets, silent, todo, vpc, desired,
                   doomed, moves, stops>>

\* Mutant: the errors of the restoring loop are ignored.
EndRestoreRegardless(e) ==
    /\ step[e] = "restore" /\ undo[e] = {}
    /\ step' = [step EXCEPT ![e] = "delete"]
    /\ UNCHANGED <<aws, phase, targets, silent, locals, faults, moves, stops>>

\* Mutant: a failed restore ends the rollback with a success.
EndRestoreSilently(e) ==
    /\ step[e] = "restore" /\ undo[e] = {}
    /\ \/ errs[e] /\ Return(e, TRUE)
       \/ /\ ~errs[e]
          /\ step' = [step EXCEPT ![e] = "delete"]
          /\ UNCHANGED <<phase, undo, doomed, errs>>
    /\ UNCHANGED <<aws, targets, silent, todo, vpc, desired, faults, moves, stops>>

\* Nothing is deleted when an association could not be put back.
EndRestore(e) ==
    /\ step[e] = "restore" /\ undo[e] = {}
    /\ \/ errs[e] /\ Return(e, FALSE)
       \/ /\ ~errs[e]
          /\ step' = [step EXCEPT ![e] = "delete"]
          /\ UNCHANGED <<phase, undo, doomed, errs>>
    /\ UNCHANGED <<aws, targets, silent, todo, vpc, desired, faults, moves, stops>>

DeleteNacl(e) ==
    /\ step[e] = "delete"
    /\ \E n \in doomed[e] :
         /\ doomed' = [doomed EXCEPT ![e] = @ \ {n}]
         /\ \/ CanDelete(n) /\ nacls' = nacls \ {n} /\ NoFault /\ UNCHANGED errs
            \/ /\ \/ CanDelete(n) /\ nacls' = nacls \ {n} /\ Fault
                  \/ ~CanDelete(n) /\ NoFault /\ UNCHANGED nacls
                  \/ Fault /\ UNCHANGED nacls
               /\ errs' = [errs EXCEPT ![e] = TRUE]
    /\ UNCHANGED <<tags, assoc, chosen, phase, step, targets, silent, todo, vpc, desired,
                   undo, moves, stops>>

\* Mutant: the errors of the deleting loop are not reported.
EndDeleteSilently(e) ==
    /\ step[e] = "delete" /\ doomed[e] = {}
    /\ Return(e, TRUE)
    /\ UNCHANGED <<aws, targets, silent, todo, vpc, desired, faults, moves, stops>>

EndDelete(e) ==
    /\ step[e] = "delete" /\ doomed[e] = {}
    /\ Return(e, ~errs[e])
    /\ UNCHANGED <<aws, targets, silent, todo, vpc, desired, faults, moves, stops>>

(* The environment ---------------------------------------------------------*)

\* The extension's process dies: every running request fails where it is.
Crash ==
    /\ \E e \in Executions : step[e] # "none"
    /\ phase' = [e \in Executions |->
                    IF step[e] = "none" THEN phase[e] ELSE Outcome(e, FALSE)]
    /\ step' = [e \in Executions |-> "none"]
    /\ todo' = [e \in Executions |-> {}]
    /\ desired' = [e \in Executions |-> {}]
    /\ undo' = [e \in Executions |-> {}]
    /\ doomed' = [e \in Executions |-> {}]
    /\ errs' = [e \in Executions |-> FALSE]
    /\ Fault
    /\ UNCHANGED <<aws, targets, silent, vpc, moves, stops>>

\* The owner of the account re-associates a subnet.
OwnerMoves(s) ==
    /\ moves < MaxMoves /\ moves' = moves + 1
    /\ \E a \in UserAcls \ {assoc[s].acl} :
         Associate(s, a) /\ chosen' = [chosen EXCEPT ![s] = Append(@, a)]
    /\ UNCHANGED <<nacls, tags, phase, step, targets, silent, locals, faults, stops>>

Handler(e) ==
    \/ DescribeAssociations(e) \/ CreateNacl(e) \/ ReplaceAssociation(e)
    \/ NextVpc(e) \/ EndStart(e)
    \/ ListNacls(e) \/ RestoreAssociation(e) \/ EndRestore(e)
    \/ DeleteNacl(e) \/ EndDelete(e)

Platform(e) == Prepare(e) \/ BeginStart(e) \/ StartWithoutClient(e) \/ BeginStop(e)

Next ==
    \/ \E e \in Executions : Platform(e) \/ Handler(e)
    \/ \E s \in Subnets : OwnerMoves(s)
    \/ Crash

Spec == Init /\ [][Next]_vars

\* A running request makes its next call; the platform stops what it prepared,
\* and stops again what answered with an error.
Fairness ==
    \A e \in Executions :
        /\ WF_vars(Handler(e))
        /\ WF_vars(phase[e] \in MayStop \ {"stopped"} /\ BeginStop(e))

FairSpec == Spec /\ Fairness

-----------------------------------------------------------------------------
(* Properties                                                              *)

Phases == {"new", "refused", "prepared", "starting", "active", "startFailed",
           "stopping", "stopFailed", "stopped"}
Steps == {"none", "describe", "create", "replace", "list", "restore", "delete"}

\* Every variable has its type: the state of the Start and Stop handlers in
\* extec2/blackhole_common.go and of AWS.
TypeOK ==
    /\ nacls \subseteq AttackAcls
    /\ tags \in [AttackAcls -> SUBSET Tag]
    /\ assoc \in [Subnets -> [id : Nat, acl : Acls]]
    /\ chosen \in [Subnets -> Seq(UserAcls)]
    /\ phase \in [Executions -> Phases]
    /\ step \in [Executions -> Steps]
    /\ targets \in [Executions -> SUBSET Subnets]
    /\ silent \subseteq Executions
    /\ todo \in [Executions -> SUBSET Vpcs]
    /\ vpc \in [Executions -> Vpcs]
    /\ desired \in [Executions -> SUBSET Snapshot]
    /\ undo \in [Executions -> SUBSET Snapshot]
    /\ doomed \in [Executions -> SUBSET AttackAcls]
    /\ errs \in [Executions -> BOOLEAN]
    /\ faults \in Nat /\ moves \in Nat
    /\ stops \in [Executions -> Nat]

Choice(s) == chosen[s][Age(s)]
Blackholed(s) == assoc[s].acl \in AttackAcls
Overlapped(e, s) == \E f \in Executions \ {e} : s \in targets[f]

\* A subnet that is not blackholed is on the ACL its owner chose last,
\* whatever attacks overlapped on it, failed half way or were rolled back:
\* neither replaceNetworkAclAssociations nor rollbackBlackholeViaTags ever
\* brings back an ACL the owner has moved the subnet away from.
OwnersChoiceKept == \A s \in Subnets : Blackholed(s) \/ assoc[s].acl = Choice(s)

\* The way back from a blackholed subnet is never lost by the attack itself:
\* its ACL exists and carries a tag that names the owner's ACL, or the ACL of
\* another execution; only if that execution has deleted its ACL meanwhile
\* does the tag dangle.  Without an overlap the tag names the owner's choice.
WayBackKnown ==
    \A s \in Subnets, n \in AttackAcls :
        assoc[s].acl = n =>
            /\ n \in nacls
            /\ \E t \in tags[n] :
                 /\ t.subnet = s
                 /\ \/ t.acl = Choice(s)
                    \/ t.acl \in AttackAcls /\ t.acl[1] # n[1] /\ Overlapped(n[1], s)

\* stopBlackhole reports success only when nothing of the execution is left:
\* no ACL it created exists, so no subnet is blackholed by it.
StoppedIsClean ==
    \A e \in Executions :
        phase[e] = "stopped" =>
            /\ NaclsOf(e) = {}
            /\ \A s \in Subnets : Blackholed(s) => assoc[s].acl[1] # e

\* "Attack is disabled to prevent an extension lockout": no attack ACL ever
\* appears in the account of the agent or of the extension's credentials, nor
\* in another account the extension runs in, unless the metadata service was
\* silent when prepareBlackhole asked: the credentials' account then stands
\* in for the one the extension runs in.
NoLockout ==
    \A n \in nacls :
        /\ AccountOf[n[2]] \notin {RootAccount, AgentAccount}
        /\ AccountOf[n[2]] = HostAccount => n[1] \in silent

\* "Don't delete any network ACLs if there are errors in rollback because
\* their tags contains information about the old network ACLs": an ACL of an
\* execution disappears only when none of its ACLs, in whatever VPC, is in
\* front of a subnet any more, unless an overlapping attack put it back there.
DeletedOnlyWhenRestored ==
    [][\A e \in Executions :
          ~(NaclsOf(e) \subseteq nacls') =>
              \A s \in Subnets :
                  Blackholed(s) /\ assoc[s].acl[1] = e => Overlapped(e, s)]_vars

\* An execution that started and is not overlapped by another one ends up
\* with all its subnets back on the owner's choice, in spite of failing
\* calls, lost replies and crashes, if failing Stops are repeated.
EventuallyRestored ==
    \A e \in Executions :
        phase[e] = "starting" ~>
            \/ phase[e] = "stopped" /\ \A s \in targets[e] : assoc[s].acl = Choice(s)
            \/ \E s \in targets[e] : Overlapped(e, s)
=============================================================================
