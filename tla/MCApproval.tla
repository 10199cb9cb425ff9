---------------------------- MODULE MCApproval ----------------------------
EXTENDS Approval, TLC

CONSTANTS author, anna, team, role

AnyOf(gates) == [all |-> FALSE, gates |-> gates]
AllOf(gates) == [all |-> TRUE, gates |-> gates]
OneStage  == {<<AllOf({role})>>}
OneOrTwo  == {<<AllOf({role})>>, <<AllOf({team, role}), AnyOf({team, role})>>}
===========================================================================
