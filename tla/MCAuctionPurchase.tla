-------------------------- MODULE MCAuctionPurchase --------------------------
(* Values for model checking AuctionPurchase. *)
EXTENDS AuctionPurchase

CONSTANTS hero, mage, seller

MCCharacters == {hero, mage, seller}

(* Account 1 sells; account 2 buys with two characters.  Both can pay for  *)
(* two of listing 1, one for two of listing 2, and neither for listing 2   *)
(* after listing 1.                                                        *)
TwoHeroes == [c \in MCCharacters |-> IF c = seller THEN 1 ELSE 2]
TwoPurses == [c \in MCCharacters |-> IF c = hero THEN 5 ELSE 2]

(* Bought two at a time, listing 1 is sold in part and then out, listing 2 *)
(* is sold out at once and listing 3, with a price Regist would not        *)
(* refuse, has too few left for a second buyer.  Different workers serve   *)
(* listings 1 and 2.                                                       *)
ThreeListings == <<[seller |-> 1, price |-> 1, qty |-> 4],
                   [seller |-> 1, price |-> 2, qty |-> 2],
                   [seller |-> 1, price |-> -1, qty |-> 3]>>

(* One listing, and one character for each account. *)
MCTraders == {hero, seller}
OneHero   == [c \in MCTraders |-> IF c = seller THEN 1 ELSE 2]
OnePurse  == [c \in MCTraders |-> 1]
OneListing == <<[seller |-> 1, price |-> 1, qty |-> 2]>>

(* The prices a registration may name. *)
AnyPrices == {-1, 1}
=============================================================================
