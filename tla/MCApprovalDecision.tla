-------------------------- MODULE MCApprovalDecision --------------------------
(* The decision of an approval for TLC.                                    *)
EXTENDS ApprovalDecision

CONSTANTS d1, d2, d3

All == {{"scan", "expiry"}, {"expiry", "crash", "cancelled"}, {"crash", "marker_error"},
        {"expiry", "dispatch_error"}, {"crash", "dispatch_error"}, {"expiry", "crash"}}
Listing == {{"scan"}}
=============================================================================
