----------------------------- MODULE MCTradeBus -----------------------------
(***************************************************************************)
(* Instances of TradeBus for TLC.                                          *)
(***************************************************************************)
EXTENDS TradeBus

CONSTANTS p1, p2, j1, j2, account

\* One account signs for all pools.
OneOperator == [p \in Pools |-> account]

\* Two jobs of one pool; the first is made of two calls, so that it fills a batch of
\* its own.
OnePoolOf == [j \in {j1, j2} |-> p1]
PairCalls == [j \in {j1, j2} |-> IF j = j1 THEN 2 ELSE 1]

\* Two jobs of two pools.
OwnPoolOf == [j \in {j1, j2} |-> IF j = j1 THEN p1 ELSE p2]
SingleCalls == [j \in {j1, j2} |-> 1]
=============================================================================
