------------------------ MODULE MCExchangeConnector ------------------------
(* ExchangeConnector with a spot symbol and its perpetual, whose own name   *)
(* has a colon.                                                             *)
EXTENDS ExchangeConnector

CONSTANTS spot, perp

MCCut == [s \in Symbols |-> spot]
MCKeys == {<<"ticker", spot>>, <<"ticker", perp>>}
============================================================================
