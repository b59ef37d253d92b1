------------------------------ MODULE Configuration ------------------------------
(***************************************************************************)
(* From the configuration to the AWS accesses of the process               *)
(* (config/config.go, utils/aws_access.go).                                *)
(*                                                                         *)
(* A specification has assumeRoles (ARNs), assumeRolesAdvanced (records    *)
(* with an ARN, regions and tag filters), regions and tagFilters.  Lists   *)
(* are sequences and tag filters sets; what is not given is Unset, which a *)
(* list given empty is not.  An ARN is a record: the account, the name and *)
(* whether the name has a path; an empty ARN is Unset.                     *)
(***************************************************************************)
EXTENDS Naturals, Sequences, Functions

CONSTANTS
    Unset,        \* nil: no value, no role
    RootAccount,  \* GetRootAccountNumber
    RootRegion    \* the region of the default AWS configuration

VARIABLE accounts \* utils.accounts

OrElse(value, default) == IF value = Unset THEN default ELSE value
Items(list) == IF list = Unset THEN {} ELSE {list[i] : i \in DOMAIN list}

\* The pattern has no "/" in the name of a role.
GetAccountNumberFromArn(arn) == IF arn.path THEN "unknown" ELSE arn.account

\* Roles without filters or regions of their own get those of the
\* specification; the simple roles become advanced ones.
TranslateToAssumeRolesAdvanced(spec, regions) ==
    LET Own(role) == [arn |-> role.arn,
                      regions |-> OrElse(role.regions, regions),
                      filters |-> OrElse(role.filters, spec.tagFilters)]
        Simple(arn) == [arn |-> arn, regions |-> regions, filters |-> spec.tagFilters]
    IN
    IF spec.assumeRolesAdvanced # Unset
    THEN [i \in DOMAIN spec.assumeRolesAdvanced |-> Own(spec.assumeRolesAdvanced[i])]
    ELSE [i \in DOMAIN OrElse(spec.assumeRoles, <<>>) |-> Simple(spec.assumeRoles[i])]

\* Mutant: roles of one account are not compared.
VerifyTheRolesAlone(roles) ==
    \A i, j \in DOMAIN roles : i < j =>
        ~(roles[i].arn = roles[j].arn /\ Items(roles[i].regions) \cap Items(roles[j].regions) # {})

\* Every role has an ARN and no region twice, no role is there twice in a region,
\* and a role that comes after another of the account and region has tag
\* filters.  The first needs none, and an empty list is one.
VerifyAssumeRolesAdvanced(roles) ==
    /\ \A i \in DOMAIN roles : roles[i].arn # Unset /\ IsInjective(roles[i].regions)
    /\ \A i, j \in DOMAIN roles :
        i < j /\ Items(roles[i].regions) \cap Items(roles[j].regions) # {} =>
            /\ roles[i].arn # roles[j].arn
            /\ GetAccountNumberFromArn(roles[i].arn) = GetAccountNumberFromArn(roles[j].arn)
                  => roles[j].filters # Unset

\* ParseConfiguration ends the process if not ok.
ParseConfiguration(spec) ==
    LET regions == IF Items(spec.regions) = {} THEN <<RootRegion>> ELSE spec.regions
        roles == TranslateToAssumeRolesAdvanced(spec, regions)
    IN
    [ok |-> /\ spec.assumeRoles = Unset \/ spec.assumeRolesAdvanced = Unset
            /\ VerifyAssumeRolesAdvanced(roles),
     roles |-> roles, regions |-> regions, filters |-> spec.tagFilters]

\* Mutant: the role is not part of the key.
GetMapKeyOfPlace(account, region, role) == <<account, region, Unset>>

GetMapKey(account, region, role) == <<account, region, role>>

\* The accesses of one role, or of the extension's own account.
PrepareRegionConfigs(role, account, regions, filters) ==
    {[account |-> account, region |-> region, role |-> role, filters |-> OrElse(filters, {})] :
        region \in Items(regions)}

\* The entries of the accounts map: without roles the extension's own account,
\* otherwise the roles, a role that cannot be assumed is ignored.
InitializeAwsAccess(config, failing) ==
    IF config.roles = <<>>
    THEN PrepareRegionConfigs(Unset, RootAccount, config.regions, config.filters)
    ELSE UNION {PrepareRegionConfigs(role.arn, role.arn.account, role.regions, role.filters) :
                    role \in {r \in Items(config.roles) : r.arn \notin failing}}

\* The map: one access for each key.
AccountsMap(accesses) ==
    [k \in {GetMapKey(x.account, x.region, x.role) : x \in accesses} |->
        CHOOSE x \in accesses : GetMapKey(x.account, x.region, x.role) = k]

\* The access of a target's account, region and role, or Unset.
GetAwsAccess(account, region, role) ==
    LET key == GetMapKey(account, region, role) IN
    IF key \in DOMAIN accounts THEN accounts[key] ELSE Unset
=============================================================================
