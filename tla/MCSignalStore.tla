---------------------------- MODULE MCSignalStore ----------------------------
(* Two selectors on three symbols: one market where the largest basis is    *)
(* negative and its books cannot be fetched, one where its spot book has no *)
(* depth within the window and another symbol leads.                        *)
EXTENDS SignalStore, TLC

Sym == Permutations(Procs)

(* A book with depth next to the price, and one whose depth lies outside the window. *)
Deep(p) == [bids |-> {<<p, 2>>, <<p - 1, 1>>}, asks |-> {<<p + 1, 2>>}]
Far(p) == [bids |-> {<<p, 2>>, <<p - 9, 9>>}, asks |-> {<<p + 9, 9>>}]
Books(spot, linear) == [read |-> TRUE, spot |-> spot, linear |-> linear]
NoBooks ==
    LET none == [bids |-> {}, asks |-> {}] IN [read |-> FALSE, spot |-> none, linear |-> none]

Quote(s, f, b) == [spot |-> s, fut |-> f, vol |-> 10, books |-> b]
MCMarkets ==
    <<<<Quote(100, 103, Books(Deep(100), Deep(103))), Quote(100, 95, NoBooks),
       Quote(100, 102, Books(Deep(100), Deep(102)))>>,
     <<Quote(100, 103, Books(Deep(100), Deep(103))), Quote(100, 95, Books(Far(100), Deep(95))),
       Quote(100, 0, NoBooks)>>>>

(* The sort of each market has one outcome. *)
ASSUME OneRanking == \A m \in DOMAIN Markets : Cardinality(Rankings(Markets[m])) = 1
=============================================================================
