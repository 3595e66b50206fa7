---------------------------- MODULE MCAuctionCache ----------------------------
(* Values for model checking AuctionCache. *)
EXTENDS AuctionCache

(* Ids 1 and 3 are account 1's, id 2 is account 2's. *)
TwoSellers == [id \in 1 .. MaxIds |-> IF id = 2 THEN 2 ELSE 1]

(* One listing too big for a client's packet stands for the many that      *)
(* together are.                                                           *)
SecondTooBig == [id \in 1 .. MaxIds |-> IF id = 2 THEN 33000 ELSE 400]
=============================================================================
