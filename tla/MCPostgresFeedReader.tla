------------------------- MODULE MCPostgresFeedReader -------------------------
(***************************************************************************)
(* PostgresFeedReader with two symbols, polled in this order.              *)
(***************************************************************************)
EXTENDS PostgresFeedReader

MCSymbolList == <<"A", "B">>
=============================================================================
