------------------------------- MODULE MCTriggers -------------------------------
(***************************************************************************)
(* Two roles of one account and region, separated by tag filters.          *)
(***************************************************************************)
EXTENDS Triggers, TLC

Role(name, team) ==
    [arn |-> [account |-> "111122223333", name |-> name, path |-> FALSE],
     regions |-> Unset, filters |-> {[key |-> "team", values |-> {team}]}]

MCConfig ==
    ParseConfiguration([assumeRoles |-> Unset, regions |-> <<>>, tagFilters |-> Unset,
                        assumeRolesAdvanced |-> <<Role("a", "a"), Role("b", "b")>>])

Symmetry == Permutations(Units)
=============================================================================
