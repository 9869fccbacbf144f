-------------------------- MODULE PriceTimePriority --------------------------
(***************************************************************************)
(* What a price-time matching engine promises, without lists, cursors or   *)
(* an index: one order at a time is active; it trades with the resting     *)
(* order that has priority among those it may trade with, for as long as   *)
(* there is one; then it rests, if it is a limit order with something      *)
(* left, or is gone.  OrderBook implements this module.                    *)
(***************************************************************************)
EXTENDS Integers

CONSTANTS OrderId, Account, NoAccount, NoOrder, MaxPrice, MaxQty

VARIABLES
    resting,      \* resting[id]: the resting order, or NoOrder
    older,        \* pairs <<i, j>> at the same side and price: i arrived before j
    active        \* the order being executed, or NoOrder

vars == <<resting, older, active>>

Request ==
    [id : OrderId, account : Account \cup {NoAccount}, side : {"buy", "sell"},
     type : {"limit", "market"}, price : 0..MaxPrice, quantity : 1..MaxQty]

Init ==
    /\ resting = [i \in OrderId |-> NoOrder]
    /\ older = {}
    /\ active = NoOrder

Book(s) == {i \in OrderId : resting[i] # NoOrder /\ resting[i].side = s}

Submit(o) ==
    /\ active = NoOrder
    /\ resting[o.id] = NoOrder
    /\ o.type = "limit" => o.price > 0
    /\ active' = o
    /\ UNCHANGED <<resting, older>>

\* The orders the active one may trade with: on the other side, at a price
\* within its limit, and of another account.
Acceptable(p) ==
    \/ active.type = "market"
    \/ active.side = "buy" /\ p <= active.price
    \/ active.side = "sell" /\ p >= active.price

Eligible ==
    {m \in OrderId :
        /\ resting[m] # NoOrder
        /\ resting[m].side # active.side
        /\ Acceptable(resting[m].price)
        /\ active.account = NoAccount \/ active.account # resting[m].account}

Ahead(m, n) ==
    \/ active.side = "buy" /\ resting[m].price < resting[n].price
    \/ active.side = "sell" /\ resting[m].price > resting[n].price
    \/ <<m, n>> \in older

Without(i) == {pair \in older : pair[1] # i /\ pair[2] # i}

Trade(m) ==
    /\ active # NoOrder /\ active.quantity > 0
    /\ m \in Eligible
    /\ \A n \in Eligible \ {m} : Ahead(m, n)
    /\ IF resting[m].quantity > active.quantity
       THEN /\ resting' = [resting EXCEPT ![m].quantity = @ - active.quantity]
            /\ active' = [active EXCEPT !.quantity = 0]
            /\ UNCHANGED older
       ELSE /\ active' = [active EXCEPT !.quantity = @ - resting[m].quantity]
            /\ resting' = [resting EXCEPT ![m] = NoOrder]
            /\ older' = Without(m)

Rest ==
    /\ active # NoOrder /\ active.type = "limit" /\ active.quantity > 0
    /\ Eligible = {}
    /\ resting' = [resting EXCEPT ![active.id] = active]
    /\ older' = older \cup
          {<<i, active.id>> : i \in {j \in Book(active.side) :
                                        resting[j].price = active.price}}
    /\ active' = NoOrder

Finish ==
    /\ active # NoOrder
    /\ active.quantity = 0 \/ (active.type = "market" /\ Eligible = {})
    /\ active' = NoOrder
    /\ UNCHANGED <<resting, older>>

Cancel(i) ==
    /\ active = NoOrder
    /\ resting[i] # NoOrder
    /\ resting' = [resting EXCEPT ![i] = NoOrder]
    /\ older' = Without(i)
    /\ UNCHANGED active

Next ==
    \/ \E o \in Request : Submit(o)
    \/ \E m \in OrderId : Trade(m) \/ Cancel(m)
    \/ Rest
    \/ Finish

Spec == Init /\ [][Next]_vars
=============================================================================
