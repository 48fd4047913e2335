------------------------------ MODULE MCInvestorDb ------------------------------
(* Instances of InvestorDb for TLC. *)
EXTENDS InvestorDb

MCFunds   == <<"f1", "f2">>
MCManager == [f1 |-> "m1", f2 |-> "m2"]
MCExpiry  == [f1 |-> 1, f2 |-> 9]
=============================================================================
