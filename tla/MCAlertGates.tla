----------------------------- MODULE MCAlertGates -----------------------------
(* Two maybe_send calls for one symbol and three clients of the gate. *)
EXTENDS AlertGates, TLC

CONSTANTS c1, c2, k1, k2, k3, BTC

MCSymbolOf == c1 :> BTC @@ c2 :> BTC @@ k1 :> BTC @@ k2 :> BTC @@ k3 :> BTC
Sym == Permutations(Calls) \cup Permutations(Clients)
=============================================================================
