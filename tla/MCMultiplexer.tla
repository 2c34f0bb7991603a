---------------------------- MODULE MCMultiplexer ----------------------------
(* The instance of Multiplexer that TLC checks: two subscriptions, two      *)
(* overlapping publishes, filters that are open, on a channel, and on a     *)
(* symbol given in lower case.                                              *)
EXTENDS Multiplexer, TLC

CONSTANTS star, spot, tickers, trade, btc, BTC

MCWildcards == {star}
MCUpper == btc :> BTC @@ BTC :> BTC
MCEvents ==
    {[source |-> spot, channel |-> tickers, symbol |-> BTC],
     [source |-> spot, channel |-> trade, symbol |-> BTC]}
MCFilters ==
    {[source |-> spot, channel |-> tickers, symbol |-> star],
     [source |-> star, channel |-> star, symbol |-> btc]}
=============================================================================
