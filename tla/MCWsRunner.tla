------------------------------ MODULE MCWsRunner ------------------------------
(* The instance of WsRunner that TLC checks: one symbol the alerts admit and  *)
(* one they do not, two prices and the zero; frames with one object, with     *)
(* several, and with none that has both a symbol and a price.                 *)
EXTENDS WsRunner

CONSTANTS btc, eth

MCSymbols == {btc, eth}
MCAdmitted == {btc}
MCPrices == {0, 1, 2}
(* An object of `data`: a symbol or none, and the fields of its two prices. *)
Item(x, s, l) == [sym |-> x, spot |-> s, linear |-> l]
Same(x, fields) == Item(x, fields, fields)
Frame(topic, items) == [topic |-> topic, items |-> items]
MCFrames ==
    {Frame(None, <<Same(btc, <<1, None>>)>>), Frame(btc, <<Same(None, <<0, 2>>)>>),
     Frame(btc, <<Item(btc, <<None, 0>>, <<0, None>>)>>),
     Frame(None, <<Same(eth, <<2, 1>>), Same(btc, <<2, None>>), Item(btc, <<None, None>>, <<None, 0>>)>>),
     Frame(None, <<Same(None, <<1, None>>)>>)}
MCListings == {{}, {btc}}
=============================================================================
