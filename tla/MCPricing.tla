----------------------------- MODULE MCPricing ------------------------------
(* Instances of Pricing for TLC. *)
EXTENDS Pricing

\* A branch may sell at less than nothing: branch_selling_price has no minimum.
MCBranchPrices == {-5, 5, 7}
=============================================================================
