----------------------------- MODULE MCHttpRetry -----------------------------
(* The instance of HttpRetry that TLC checks: a signed call and one that   *)
(* is not, with the defaults: three retries, half a second a tick, a window *)
(* of five seconds.                                                         *)
EXTENDS HttpRetry

CONSTANTS order, ticker

MCRequests == {order, ticker}
MCPrivate == {order}

(* What freshness needs of the parameters holds of the defaults.            *)
ASSUME DefaultsFit == BackoffFits
=============================================================================
