------------------------------ MODULE MCPipeline ------------------------------
(***************************************************************************)
(* Pipeline with two symbols, one of which has two spellings that agree in *)
(* the first seven characters.  The ticks are such that any can be a       *)
(* repetition, one is late after most others, two have one timestamp and   *)
(* different prices, one has a side to clamp and one is invalid.           *)
(***************************************************************************)
EXTENDS Pipeline

Spelling == {"long1", "long2", "short"}
MCCut == [n \in Spelling |-> IF n = "short" THEN "short" ELSE "long"]
MCSymbols == {"long", "short"}

Kind(n, p, t, s) == [symbol |-> n, price |-> p, volume |-> 1, ts |-> t, side |-> s]

MCTickKinds == {Kind("long1", 1, 2, 0), Kind("long2", 2, 2, 3),
                Kind("long1", 1, 1, 1), Kind("long1", 0, 2, 0), Kind("short", 1, 1, 2)}
=============================================================================
