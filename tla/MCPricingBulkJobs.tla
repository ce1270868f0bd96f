-------------------------- MODULE MCPricingBulkJobs --------------------------
(* Small instances of PricingBulkJobs for TLC. *)
EXTENDS PricingBulkJobs

CONSTANTS w1, w2, i1, i2, i3
=============================================================================
