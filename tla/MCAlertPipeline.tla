--------------------------- MODULE MCAlertPipeline ---------------------------
(* The instance of AlertPipeline that TLC checks: two admitted symbols and  *)
(* one on the deny list; prices on both sides of the minimum price and      *)
(* exactly at the threshold (100 -> 102 is 2%); cooldown 2, throttle 2.     *)
EXTENDS AlertPipeline

CONSTANTS btc, eth, doge

MCSymbols == {btc, eth, doge}
MCDeny == {doge}
MCSpotPrices == {40, 100}
MCMarkPrices == {102}
=============================================================================
