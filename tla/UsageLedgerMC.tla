--------------------------- MODULE UsageLedgerMC ---------------------------
(* Small instances of UsageLedger for TLC. *)
EXTENDS UsageLedger, TLC

CONSTANTS tokens, costs, m1, none

\* One rule over all models counting tokens, one over model m1 counting
\* cost; m1 has a price, a request without a model does not.
TwoTypes   == tokens :> "total_tokens" @@ costs :> "cost_usd"
TwoWindows == tokens :> 2 @@ costs :> 3
TwoFilters == tokens :> none @@ costs :> m1
Prices     == m1 :> 1 @@ none :> 0

OneType    == tokens :> "total_tokens"
OneWindow  == tokens :> 2
OneFilter  == tokens :> none
NoPrices   == none :> 0

BudgetPairs == {<<1, 1>>}
UsagePairs  == {<<1, 0>>, <<2, 1>>}
UnderUsage  == {<<1, 0>>}
OverUsage   == {<<2, 1>>}

RequestSymmetry == Permutations(Requests)

=============================================================================
