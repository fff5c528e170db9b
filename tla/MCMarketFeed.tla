---------------------------- MODULE MCMarketFeed ----------------------------
(***************************************************************************)
(* Instances of MarketFeed for TLC: the stores that may fail.              *)
(***************************************************************************)
EXTENDS MarketFeed

BothStores == {"redis", "postgres"}
=============================================================================
