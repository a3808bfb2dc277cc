----------------------------- MODULE MCLoadTest -----------------------------
(* The load tests for TLC: a whitelist of two currencies, or one pair for  *)
(* each of three bases.                                                    *)
EXTENDS LoadTest

UsdEur == <<"USD", "EUR">>

TwoPairs == <<UsdEur, <<"EUR", "USD">>>>
TwoBases == <<"EUR", "USD">>

ThreePairs == <<UsdEur, <<"EUR", "USD">>, <<"MXN", "USD">>>>
ThreeBases == <<"EUR", "MXN", "USD">>

Elements(seq) == {seq[i] : i \in DOMAIN seq}

TwoPairSet == Elements(TwoPairs)
ThreePairSet == Elements(ThreePairs)

(* An upstream that answers for every pair it knows, or for none. *)
AllOrNone == {{}, Pairs}

MCArrivals == <<2, 2, 3, 0, 1>>
MCMaxErrors == <<0, 1, 0, 0, 0>>
MCMaxFaults == <<0, 0, 0, 0, 1>>
None == <<0, 0, 0, 0, 0>>
=============================================================================
