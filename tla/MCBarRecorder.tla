--------------------------- MODULE MCBarRecorder ---------------------------
(* Two symbols at Coinbase, which the engine trades, and one at Kraken.     *)
EXTENDS BarRecorder

CONSTANTS btc, eth, sol

MCCoinbaseSpot == <<btc, eth>>
MCKrakenSpot == <<sol>>
=============================================================================
