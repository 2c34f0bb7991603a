------------------------------- MODULE MCDigest -------------------------------
(* The instance of Digest that TLC checks: three runs of the script over two  *)
(* days, a listing of two pages with three attempts each; resets in the past, *)
(* within and past the cap, a Retry-After beyond it.                          *)
EXTENDS Digest, TLC

CONSTANTS p1, p2, p3

MCProcs == {p1, p2, p3}
MCDays == 1..2
MCBackoff(attempt) == 2^(attempt - 1)
MCResets == {-5, 10, 90}
MCRetryAfters == {0, 120}
Sym == Permutations(MCProcs)
=============================================================================
