------------------------------ MODULE OrderBook ------------------------------
(***************************************************************************)
(* The price-time matching engine of pkg/orderbook (orderbook.cpp).        *)
(*                                                                         *)
(* Every public operation holds the mutex mu_ from its first line to its   *)
(* last.  add_order is a loop over the opposite side of the book, and the  *)
(* loop is modelled here one iteration at a time: pc says whether the      *)
(* mutex is free ("idle") or in which loop of match() its holder is.  No   *)
(* other operation runs while pc # "idle".                                 *)
(*                                                                         *)
(* An Order object lives in a std::list node.  The node is named by the    *)
(* order's id: node[id] is the object, level[s][p] the list of the ids in  *)
(* FIFO order, index[id] the OrderLocation that orders_ holds for the id.  *)
(* The three are separate structures in the code and are kept separate     *)
(* here; that they agree is an invariant and not a definition.             *)
(*                                                                         *)
(* The "Bug..." operators are seeded faults, used by no definition here.   *)
(***************************************************************************)
EXTENDS Integers, Sequences, FiniteSets, SequencesExt

CONSTANTS
    OrderId,      \* order identifiers, chosen by the caller of add_order
    Account,      \* non-empty account identifiers
    NoAccount,    \* the empty account_id, for which self-trade prevention is off
    NoOrder,      \* "no Order object": a freed node, or no call in progress
    NoLocation,   \* "id not in orders_"
    MaxPrice,     \* bound: highest price
    MaxQty        \* bound: highest quantity of one request

ASSUME ConstantAssumption ==
    /\ MaxPrice \in Nat \ {0}
    /\ MaxQty \in Nat \ {0}
    /\ NoAccount \notin Account

-----------------------------------------------------------------------------

Side  == {"buy", "sell"}
Price == 1..MaxPrice
End   == 0                           \* the end() iterator of bids_ and asks_

Owner == Account \cup {NoAccount}

\* A market order carries no price; 0 stands for it, and for every price and
\* quantity that is not positive.
Request ==
    [id : OrderId, account : Owner, side : Side, type : {"limit"},
     price : 0..MaxPrice, quantity : 0..MaxQty]
    \cup
    [id : OrderId, account : Owner, side : Side, type : {"market"},
     price : {0}, quantity : 0..MaxQty]

\* The Order objects that can rest: only limit orders, with something left.
RestingOrder ==
    [id : OrderId, account : Owner, side : Side, type : {"limit"},
     price : Price, quantity : 1..MaxQty]

Location == [side : Side, price : Price]

ASSUME SentinelAssumption == NoOrder \notin Request /\ NoLocation \notin Location

Opposite(s) == IF s = "buy" THEN "sell" ELSE "buy"

\* The order of the keys of bids_ (std::greater) and of asks_ (std::less).
Better(s, p, q) == IF s = "buy" THEN p > q ELSE p < q

Best(s, P) ==
    IF P = {} THEN End
    ELSE CHOOSE p \in P : \A q \in P : p = q \/ Better(s, p, q)

Least(a, b) == IF a <= b THEN a ELSE b

VARIABLES
    level,        \* level[s][p]: FIFO list of the ids resting at price p of side s
    total,        \* total[s][p]: LevelData::total_quantity
    keys,         \* keys[s]: the prices that have an entry in bids_ or asks_
    node,         \* node[id]: the resting Order object
    index,        \* index[id]: orders_
    pc,           \* "idle", "outer" or "inner": where the holder of mu_ is
    taker,        \* the order add_order is matching
    it,           \* the outer loop's iterator: a price, or End
    pos,          \* the inner loop's iterator: a position in level[.][it]
    fills,        \* the vector of fills the call returns
    asked         \* the quantity of the request, as its caller knows it

book == <<level, total, keys, node, index>>
call == <<pc, taker, it, pos, fills, asked>>
vars == <<level, total, keys, node, index, pc, taker, it, pos, fills, asked>>

Init ==
    /\ level = [s \in Side |-> [p \in Price |-> <<>>]]
    /\ total = [s \in Side |-> [p \in Price |-> 0]]
    /\ keys  = [s \in Side |-> {}]
    /\ node  = [i \in OrderId |-> NoOrder]
    /\ index = [i \in OrderId |-> NoLocation]
    /\ pc = "idle" /\ taker = NoOrder /\ it = End /\ pos = 0
    /\ fills = <<>> /\ asked = 0

-----------------------------------------------------------------------------
(* add_order: validation, then the walk of match().                        *)

BugValidAnyPrice(o) == o.quantity > 0 /\ index[o.id] = NoLocation

BugValidDuplicate(o) == o.quantity > 0 /\ (o.type = "limit" => o.price > 0)

Valid(o) ==
    /\ o.quantity > 0
    /\ o.type = "limit" => o.price > 0
    /\ index[o.id] = NoLocation

\* invalid_argument is thrown before anything is written.
RejectOrder(o) ==
    /\ pc = "idle"
    /\ ~ Valid(o)
    /\ UNCHANGED vars

AddOrder(o) ==
    /\ pc = "idle"
    /\ Valid(o)
    /\ pc' = "outer"
    /\ taker' = o
    /\ it' = Best(Opposite(o.side), keys[Opposite(o.side)])
    /\ pos' = 0
    /\ fills' = <<>>
    /\ asked' = o.quantity
    /\ UNCHANGED book

opp == Opposite(taker.side)          \* the side of the book being walked

\* "best ask is too expensive" / "best bid is too cheap"
BugTooFar(p) == taker.type = "limit" /\ (p = taker.price \/ Better(taker.side, p, taker.price))

TooFar(p) == taker.type = "limit" /\ Better(taker.side, p, taker.price)

MoreToMatch == taker.quantity > 0 /\ it # End /\ ~ TooFar(it)

EnterLevel ==
    /\ pc = "outer" /\ MoreToMatch
    /\ pc' = "inner"
    /\ pos' = 1
    /\ UNCHANGED <<book, taker, it, fills, asked>>

AtMaker == pc = "inner" /\ taker.quantity > 0 /\ pos <= Len(level[opp][it])
maker   == level[opp][it][pos]

\* Self-trade prevention: a maker of the taker's own account is stepped over.
SameAccount(t, m) == t.account # NoAccount /\ t.account = m.account

BugSkipOwn ==
    /\ AtMaker
    /\ SameAccount(taker, node[maker])
    /\ UNCHANGED vars

SkipOwn ==
    /\ AtMaker
    /\ SameAccount(taker, node[maker])
    /\ pos' = pos + 1
    /\ UNCHANGED <<book, pc, taker, it, fills, asked>>

BugFillOf(m, q) ==
    [maker |-> m, taker |-> taker.id, price |-> node[m].price, quantity |-> node[m].quantity]

FillOf(m, q) ==
    [maker |-> m, taker |-> taker.id, price |-> node[m].price, quantity |-> q]

\* The inner loop's iterator after a fill: list::erase already returns the
\* successor of a maker that is gone.
NextMaker(erased) == IF erased THEN pos ELSE pos + 1

FillMaker ==
    /\ AtMaker
    /\ ~ SameAccount(taker, node[maker])
    /\ LET m == maker
           q == Least(taker.quantity, node[m].quantity)
       IN  /\ fills' = Append(fills, FillOf(m, q))
           /\ taker' = [taker EXCEPT !.quantity = @ - q]
           /\ total' = [total EXCEPT ![opp][it] = @ - q]
           /\ IF node[m].quantity = q
              THEN /\ node'  = [node EXCEPT ![m] = NoOrder]
                   /\ index' = [index EXCEPT ![m] = NoLocation]
                   /\ level' = [level EXCEPT ![opp][it] = RemoveAt(@, pos)]
              ELSE /\ node' = [node EXCEPT ![m].quantity = @ - q]
                   /\ UNCHANGED <<index, level>>
           /\ pos' = NextMaker(node[m].quantity = q)
    /\ UNCHANGED <<keys, pc, it, asked>>

\* The inner loop is over: an empty level is erased from the map.
BugDropEmptyLevel(s, p) == keys

DropEmptyLevel(s, p) ==
    IF level[s][p] = <<>> THEN [keys EXCEPT ![s] = @ \ {p}] ELSE keys

LeaveLevel ==
    /\ pc = "inner" /\ ~ AtMaker
    /\ keys' = DropEmptyLevel(opp, it)
    /\ it' = Best(opp, {p \in keys[opp] : Better(opp, it, p)})
    /\ pos' = 0
    /\ pc' = "outer"
    /\ UNCHANGED <<level, total, node, index, taker, fills, asked>>

-----------------------------------------------------------------------------
(* add_order: what happens to the remainder once match() has returned.     *)

EndCall ==
    /\ pc' = "idle" /\ taker' = NoOrder /\ it' = End /\ pos' = 0
    /\ fills' = <<>> /\ asked' = 0

Rests(t) == t.quantity > 0 /\ t.type = "limit"

BugPushBack(q, i) == <<i>> \o q

PushBack(q, i) == Append(q, i)

RestRemainder ==
    /\ pc = "outer" /\ ~ MoreToMatch
    /\ Rests(taker)
    /\ LET s == taker.side
           p == taker.price
       IN  /\ level' = [level EXCEPT ![s][p] = PushBack(@, taker.id)]
           /\ total' = [total EXCEPT ![s][p] = @ + taker.quantity]
           /\ keys'  = [keys EXCEPT ![s] = @ \cup {p}]
           /\ node'  = [node EXCEPT ![taker.id] = taker]
           /\ index' = [index EXCEPT ![taker.id] = [side |-> s, price |-> p]]
    /\ EndCall

\* Nothing is left, or the remainder of a market order is dropped.
ReturnFills ==
    /\ pc = "outer" /\ ~ MoreToMatch
    /\ ~ Rests(taker)
    /\ EndCall
    /\ UNCHANGED book

-----------------------------------------------------------------------------
(* cancel_order                                                            *)

PositionOf(i, q) == CHOOSE k \in 1..Len(q) : q[k] = i

CancelOrder(i) ==
    /\ pc = "idle"
    /\ index[i] # NoLocation
    /\ index' = [index EXCEPT ![i] = NoLocation]
    /\ LET s == index[i].side
           p == index[i].price
           rest == RemoveAt(level[s][p], PositionOf(i, level[s][p]))
       IN  IF p \in keys[s]
           THEN /\ total' = [total EXCEPT ![s][p] = @ - node[i].quantity]
                /\ level' = [level EXCEPT ![s][p] = rest]
                /\ node'  = [node EXCEPT ![i] = NoOrder]
                /\ keys'  = IF rest = <<>> THEN [keys EXCEPT ![s] = @ \ {p}] ELSE keys
           ELSE UNCHANGED <<total, level, node, keys>>
    /\ UNCHANGED call

CancelUnknown(i) ==
    /\ pc = "idle"
    /\ index[i] = NoLocation
    /\ UNCHANGED vars

-----------------------------------------------------------------------------

MatchStep == EnterLevel \/ SkipOwn \/ FillMaker \/ LeaveLevel \/ RestRemainder \/ ReturnFills

Next ==
    \/ \E o \in Request : AddOrder(o) \/ RejectOrder(o)
    \/ \E i \in OrderId : CancelOrder(i) \/ CancelUnknown(i)
    \/ MatchStep

\* A thread inside add_order is never blocked and keeps running.
Fairness == WF_vars(MatchStep)

Spec == Init /\ [][Next]_vars /\ Fairness

-----------------------------------------------------------------------------
(* The readers, each under a shared lock: best_bid, best_ask, spread,      *)
(* order_count and get_snapshot.                                           *)

BestBid == Best("buy", keys["buy"])
BestAsk == Best("sell", keys["sell"])

\* The clamp is the code's ("Fix negative spread calculation").
SpreadKnown == keys["buy"] # {} /\ keys["sell"] # {}
Spread == IF BestAsk < BestBid THEN 0 ELSE BestAsk - BestBid

Resting == {i \in OrderId : index[i] # NoLocation}

Snapshot(s) ==
    {[price |-> p, quantity |-> total[s][p], count |-> Len(level[s][p])] :
        p \in {k \in keys[s] : level[s][k] # <<>>}}
-----------------------------------------------------------------------------
(* Properties                                                              *)

\* Every variable has the shape the code gives it; quantities of resting
\* orders are positive and never above what one request may ask.
TypeOK ==
    /\ level \in [Side -> [Price -> Seq(OrderId)]]
    /\ total \in [Side -> [Price -> Int]]
    /\ keys \in [Side -> SUBSET Price]
    /\ node \in [OrderId -> RestingOrder \cup {NoOrder}]
    /\ index \in [OrderId -> Location \cup {NoLocation}]
    /\ pc \in {"idle", "outer", "inner"}
    /\ taker \in Request \cup {NoOrder}
    /\ (taker = NoOrder) <=> (pc = "idle")
    /\ it \in Price \cup {End}
    /\ pos \in Nat
    /\ asked \in 0..MaxQty

\* orders_ and the lists never disagree (orderbook.hpp, OrderLocation): the
\* index knows exactly the orders that stand in a list, at the side and price
\* of that list, and no list holds an order twice.  A location that outlives
\* its list node is a dangling iterator, and cancel_order would use it.
Listed(i, s, p) == \E k \in 1..Len(level[s][p]) : level[s][p][k] = i

IndexMatchesLists ==
    /\ \A i \in OrderId : (index[i] = NoLocation) <=> (node[i] = NoOrder)
    /\ \A i \in OrderId : index[i] # NoLocation =>
          /\ Listed(i, index[i].side, index[i].price)
          /\ node[i].id = i
          /\ node[i].side = index[i].side
          /\ node[i].price = index[i].price
    /\ \A s \in Side, p \in Price : \A k \in 1..Len(level[s][p]) :
          index[level[s][p][k]] = [side |-> s, price |-> p]
    /\ \A s \in Side, p \in Price : \A j, k \in 1..Len(level[s][p]) :
          level[s][p][j] = level[s][p][k] => j = k

\* best_bid, best_ask, get_snapshot and order_count read the keys, the totals
\* and the list lengths, never the orders.  Whenever the mutex is free they
\* nevertheless report what the resting orders are: the best price is one at
\* which an order rests, a depth is the sum of the remaining quantities.
OrdersAt(s, p) == {i \in OrderId : node[i] # NoOrder /\ node[i].side = s /\ node[i].price = p}

Depth(s, p)      == SumFunction([i \in OrdersAt(s, p) |-> node[i].quantity])
CountInLevels(s) == SumFunction([l \in Snapshot(s) |-> l.count])
FilledTotal      == SumFunction([k \in DOMAIN fills |-> fills[k].quantity])

QuotesMatchOrders ==
    pc = "idle" =>
        \A s \in Side :
            /\ keys[s] = {p \in Price : OrdersAt(s, p) # {}}
            /\ Snapshot(s) =
                  {[price |-> p,
                    quantity |-> Depth(s, p),
                    count |-> Cardinality(OrdersAt(s, p))] : p \in keys[s]}
            /\ Cardinality(Resting) = CountInLevels("buy") + CountInLevels("sell")

\* Self-trade prevention steps over makers, so a book may stay crossed; it is
\* crossed only between orders of one and the same account.  This is why
\* spread() may clamp a negative difference, and all that the clamp can hide.
UncrossedExceptOwn ==
    \A b, a \in OrderId :
        (/\ node[b] # NoOrder /\ node[b].side = "buy"
         /\ node[a] # NoOrder /\ node[a].side = "sell"
         /\ node[b].price >= node[a].price)
        => SameAccount(node[b], node[a])

\* The walk leaves nothing behind: as long as the taker has something left,
\* every maker the two iterators have passed is an order of its own account.
\* The outer iterator is end() or a key of the map it walks, every order is
\* under a key, and an id that is being added stays out of the index.
OwnMaker(i) == SameAccount(taker, node[i])

WalkInv ==
    /\ \A s \in Side, p \in Price : level[s][p] # <<>> => p \in keys[s]
    /\ pc # "idle" =>
          /\ taker.type = "limit" => taker.price > 0
          /\ index[taker.id] = NoLocation
          /\ it # End => it \in keys[opp]
    /\ pc = "inner" => it # End /\ ~ TooFar(it) /\ pos >= 1
    /\ pc # "idle" /\ taker.quantity > 0 =>
          /\ \A p \in Price : (it = End \/ Better(opp, p, it)) =>
                \A k \in 1..Len(level[opp][p]) : OwnMaker(level[opp][p][k])
          /\ pc = "inner" =>
                \A k \in 1..Len(level[opp][it]) :
                    k < pos => OwnMaker(level[opp][it][k])

\* What add_order returns adds up: the quantity asked for is what is left of
\* the taker plus what the fills say, no fill is empty, and no maker is filled
\* twice by one call (a caller that sums the fills relies on it).
FillsAddUp ==
    pc # "idle" =>
        /\ asked = taker.quantity + FilledTotal
        /\ \A k \in DOMAIN fills : fills[k].quantity > 0 /\ fills[k].taker = taker.id
        /\ \A j, k \in DOMAIN fills : fills[j].maker = fills[k].maker => j = k

\* Price-time priority: seen from outside, the list walk always trades with
\* the order that has priority among those the taker may trade with, rests a
\* limit order only when no such order is left, and never rests a market order.
OlderPairs ==
    {pair \in OrderId \X OrderId :
        \E s \in Side, p \in Price : \E k, l \in 1..Len(level[s][p]) :
            k < l /\ level[s][p][k] = pair[1] /\ level[s][p][l] = pair[2]}

Promise == INSTANCE PriceTimePriority
               WITH resting <- node, older <- OlderPairs, active <- taker

PriceTimePriorityKept == Promise!Spec

\* The walk over the book always ends and the mutex is released, however many
\* makers of the taker's own account it has to step over.
CallReturns == (pc # "idle") ~> (pc = "idle")
=============================================================================
