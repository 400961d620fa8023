--------------------------- MODULE MCProgressCalls ---------------------------
(***************************************************************************)
(* TLC instances of ProgressCalls: values are small naturals.              *)
(***************************************************************************)
EXTENDS ProgressCalls

CONSTANT MaxValue

NatLt(a, b) == a < b
NatValues == 0..MaxValue

\* Uniform configurations of up to three voters and the joint configurations of
\* up to two voters: in these at most one voter is ever above granted.
SmallConfigs == {<<{1}>>, <<{1}, {1, 2}>>, <<{1, 2}>>, <<{1, 2, 3}>>}
SmallLearners == {{}, {4}, {2, 3}}

\* A uniform configuration of four voters.
FourVoters == {<<{1, 2, 3, 4}>>}
NoLearners == {{}}
==============================================================================
