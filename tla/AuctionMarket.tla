---------------------------- MODULE AuctionMarket ----------------------------
(***************************************************************************)
(* What the auction promises its players, with every operation atomic: no  *)
(* workers, no statements, no locks, no retries.  A purchase request takes *)
(* effect at most once, and when it does the stock leaves the listing, the *)
(* gold leaves the buyer and the receipts appear, all in one step.  An     *)
(* answer of success is given only to a purchase that took effect or to a  *)
(* registration whose listing was made.  AuctionPurchase implements this.  *)
(***************************************************************************)
EXTENDS Integers, Sequences

CONSTANTS Players, Characters, AccountOf, ListIds

VARIABLES
    asked,      \* the requests the auction server received, in that order
    info,       \* what a listing was registered with: seller, price, qty
    done,       \* the requests that took effect
    answers,    \* the answers given: request and verdict
    stock,      \* the quantity still for sale, 0 where there is no listing
    gold,       \* the gold of each character
    delivered,  \* the quantity on the buyers' receipts, per listing
    paid        \* the gold on the sellers' receipts, per listing

vars == <<asked, info, done, answers, stock, gold, delivered, paid>>

(* A listing that was never registered. *)
Nothing == [seller |-> 0, price |-> 0, qty |-> 0]

Init ==
    /\ asked = <<>> /\ done = {} /\ answers = {}
    /\ info \in [ListIds -> [seller : Players \cup {0}, price : Int, qty : Int]]
    /\ stock = [l \in ListIds |-> info[l].qty]
    /\ gold \in [Characters -> Nat]
    /\ delivered = [l \in ListIds |-> 0]
    /\ paid = [l \in ListIds |-> 0]

Request == [kind : {"purchase", "regist"}, player : Players,
            list : ListIds \cup {0}, count : Int, price : Int]

Ask ==
    /\ asked' \in Seq(Request)
    /\ Len(asked') = Len(asked) + 1
    /\ \A r \in DOMAIN asked : asked'[r] = asked[r]
    /\ UNCHANGED <<info, done, answers, stock, gold, delivered, paid>>

(* The listing of registration r appears under an id never used before. *)
List(r, l) ==
    /\ r \in DOMAIN asked \ done
    /\ asked[r].kind = "regist"
    /\ info[l] = Nothing
    /\ info' = [info EXCEPT ![l] = [seller |-> asked[r].player,
                                    price  |-> asked[r].price,
                                    qty    |-> asked[r].count]]
    /\ stock' = [stock EXCEPT ![l] = asked[r].count]
    /\ done' = done \cup {r}
    /\ UNCHANGED <<asked, answers, gold, delivered, paid>>

(* Purchase r takes effect.  Every character it charges is the buyer's and *)
(* could afford the whole price; a negative price is a gift to each.       *)
Buy(r) ==
    /\ r \in DOMAIN asked \ done
    /\ asked[r].kind = "purchase"
    /\ LET l == asked[r].list
           n == asked[r].count
           p == asked[r].player
           cost == info[l].price * n
       IN  /\ l \in ListIds
           /\ n \in 1..stock[l]
           /\ info[l].seller # p
           /\ stock' = [stock EXCEPT ![l] = @ - n]
           /\ delivered' = [delivered EXCEPT ![l] = @ + n]
           /\ paid' = [paid EXCEPT ![l] = @ + cost]
           /\ \E charged \in SUBSET {c \in Characters :
                                       AccountOf[c] = p /\ gold[c] >= cost} :
                 /\ charged # {}
                 /\ gold' = [c \in Characters |->
                              IF c \in charged THEN gold[c] - cost ELSE gold[c]]
    /\ done' = done \cup {r}
    /\ UNCHANGED <<asked, info, answers>>

(* A request is answered once; success means it took effect. *)
Answer(r, ok) ==
    /\ r \in DOMAIN asked
    /\ \A a \in answers : a.req # r
    /\ ok => r \in done
    /\ answers' = answers \cup {[req |-> r, ok |-> ok]}
    /\ UNCHANGED <<asked, info, done, stock, gold, delivered, paid>>

Next ==
    \/ Ask
    \/ \E r \in DOMAIN asked, l \in ListIds : List(r, l)
    \/ \E r \in DOMAIN asked : Buy(r)
    \/ \E r \in DOMAIN asked, ok \in BOOLEAN : Answer(r, ok)

Spec == Init /\ [][Next]_vars
=============================================================================
