---------------------------- MODULE MCHealthCheck ----------------------------
(***************************************************************************)
(* HealthCheck with two symbols.  "wide" is the one whose spread may be as *)
(* large as its price, as the limits for BTCUSD allow.                     *)
(***************************************************************************)
EXTENDS HealthCheck

MCSymbolList == <<"wide", "tight">>
MCSymbols == {"tight", "wide"}
MCCut == [s \in MCSymbols |-> s]
MCMids(s) == IF s = "wide" THEN {2} ELSE {3, 4}
MCHalfSpreads(s) == IF s = "wide" THEN {1, 2} ELSE {1}

\* Every tick the simulator can make, for Pipeline's feed.
MCTickKinds == [symbol : MCSymbols, price : 0 .. 5, volume : {1}, ts : Times, side : {0, 1}]
=============================================================================
