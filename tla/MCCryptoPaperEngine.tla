------------------------ MODULE MCCryptoPaperEngine ------------------------
(* Two instruments and targets below zero, flat, at the cap and over it.    *)
EXTENDS CryptoPaperEngine

MCSymbols == <<"BTC-USD", "ETH-USD">>

MCOneSymbol == <<"BTC-USD">>

MCTargets == {-1, 0, 2, 3}
=============================================================================
