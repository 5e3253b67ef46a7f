--------------------------- MODULE MCApprovalGate ---------------------------
(* Two parallel Approval nodes and two reviewer calls about either of      *)
(* them, or about none.                                                    *)
EXTENDS ApprovalGate

DefaultRunTimeout == 900
=============================================================================
