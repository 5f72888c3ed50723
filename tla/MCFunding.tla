------------------------------ MODULE MCFunding ------------------------------
(***************************************************************************)
(* Instances of Funding for TLC: a label and two comments, two of them for *)
(* the same issue.                                                         *)
(***************************************************************************)
EXTENDS Funding

CONSTANTS i1, i2, r1, r2, r3

OneIssue == [r \in Requests |-> i1]
TwoIssues == [r \in Requests |-> IF r = r2 THEN i2 ELSE i1]
Amounts == [r \in Requests |-> IF r = r3 THEN 2 ELSE 1]
==============================================================================
