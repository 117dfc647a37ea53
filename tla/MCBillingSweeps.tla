-------------------------- MODULE MCBillingSweeps --------------------------
EXTENDS BillingSweeps, TLC
CONSTANTS basic, pro
Prices == basic :> 2 @@ pro :> 7
Currencies == basic :> "INR" @@ pro :> "INR"
=============================================================================
