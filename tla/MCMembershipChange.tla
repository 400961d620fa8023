------------------------- MODULE MCMembershipChange --------------------------
(***************************************************************************)
(* Instances of MembershipChange.                                          *)
(***************************************************************************)
EXTENDS MembershipChange

\* The voters are replaced by a part of them and back.
ShrinkAndBack ==
    {[kind |-> "ReplaceAllVoters", ids |-> {2}], [kind |-> "ReplaceAllVoters", ids |-> {1, 2, 3}]}

\* From {1, 2, 3} to {2}, and back by adding voters.
RemoveAndAdd ==
    {[kind |-> "RemoveVoters", ids |-> {1, 3}], [kind |-> "AddVoters", ids |-> {1, 3}]}
==============================================================================
