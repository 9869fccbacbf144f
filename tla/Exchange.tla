------------------------------ MODULE Exchange ------------------------------
(***************************************************************************)
(* The exchange of templates/cpp-exchange: HTTP handlers that run          *)
(* concurrently over one matching engine (OrderBook, under its own mutex), *)
(* a map of books (books_mu) and order_index (index_mu), a second record   *)
(* of the resting orders that the reports and the cancels are served from. *)
(*                                                                         *)
(* A handler takes the three mutexes one after the other and never two at  *)
(* once, so between any two of its critical sections another handler may   *)
(* run.  One symbol is modelled: handlers of different symbols share       *)
(* nothing but the counter and order_index, under distinct keys.           *)
(*                                                                         *)
(* The "Bug..." operators are seeded faults, used by no definition here.   *)
(***************************************************************************)
EXTENDS Integers, Sequences, FiniteSets, SequencesExt

CONSTANTS
    Handler,        \* handler threads of the HTTP server
    MaxOrders,      \* bound: orders numbered in a run
    MaxPrice, MaxQty,
    NoAccount, NoOrder, NoLocation, NoTracker, NoRequest

OrderId == 1..MaxOrders
Account == {}       \* the template never sets account_id

VARIABLES level, total, keys, node, index, pc, taker, it, pos, fills, asked

Book == INSTANCE OrderBook

\* struct OrderTracker, of which the quantities matter here.
Tracker == [orig : 1..MaxQty, remaining : 1..MaxQty]

\* Some threads, some ids, at least one price and one quantity.
ASSUME BoundsAssumption ==
    /\ IsFiniteSet(Handler)
    /\ MaxOrders \in Nat
    /\ MaxPrice \in Nat \ {0}
    /\ MaxQty \in Nat \ {0}

\* The markers of what is absent are told from what may be there.
ASSUME MarkerAssumption ==
    /\ NoOrder \notin Book!Request
    /\ NoLocation \notin Book!Location
    /\ NoTracker \notin Tracker

VARIABLES
    order_index,    \* order_index[id]: OrderTracker or NoTracker
    order_counter,  \* the atomic counter behind next_order_id
    books,          \* orderbooks[symbol]: which book object; 0 while absent
    phase,          \* phase[h]: the next critical section of handler h
    req,            \* req[h]: the request h serves, with its id once it has one
    ptr,            \* ptr[h]: the book object get_or_create_book returned to h
    leaves,         \* leaves[h]: leaves_qty of the submission h serves
    todo,           \* todo[h]: the fills whose makers are still to be updated
    seen,           \* seen[h]: the tracker h copied when it looked an order up
    acked,          \* history: how often a cancel of id was answered 200
    executed        \* history: the quantity of id the fills have executed

bookVars == <<level, total, keys, node, index, pc, taker, it, pos, fills, asked>>
indexVars == <<order_index, acked>>
handlerVars == <<phase, req, ptr, leaves, todo, seen>>
vars == <<level, total, keys, node, index, pc, taker, it, pos, fills, asked,
          order_index, order_counter, books, phase, req, ptr, leaves, todo, seen,
          acked, executed>>

\* A submission as the handler has parsed and validated it (the 400 answers
\* change nothing), and a cancel.
Submission ==
    {[kind |-> "submit", id |-> 0, side |-> s, type |-> "limit", price |-> p, quantity |-> q] :
        s \in Book!Side, p \in Book!Price, q \in 1..MaxQty}
    \cup
    {[kind |-> "submit", id |-> 0, side |-> s, type |-> "market", price |-> 0, quantity |-> q] :
        s \in Book!Side, q \in 1..MaxQty}

OrderOf(r) == [id |-> r.id, account |-> NoAccount, side |-> r.side, type |-> r.type,
               price |-> r.price, quantity |-> r.quantity]

Init ==
    /\ Book!Init
    /\ order_index = [i \in OrderId |-> NoTracker]
    /\ order_counter = 0
    /\ books = 0
    /\ phase = [h \in Handler |-> "idle"]
    /\ req = [h \in Handler |-> NoRequest]
    /\ ptr = [h \in Handler |-> 0]
    /\ leaves = [h \in Handler |-> 0]
    /\ todo = [h \in Handler |-> <<>>]
    /\ seen = [h \in Handler |-> NoTracker]
    /\ acked = [i \in OrderId |-> 0]
    /\ executed = [i \in OrderId |-> 0]

\* The handler has answered and forgets its locals.
Reply(h) ==
    /\ phase' = [phase EXCEPT ![h] = "idle"]
    /\ req' = [req EXCEPT ![h] = NoRequest]
    /\ ptr' = [ptr EXCEPT ![h] = 0]
    /\ leaves' = [leaves EXCEPT ![h] = 0]
    /\ todo' = [todo EXCEPT ![h] = <<>>]
    /\ seen' = [seen EXCEPT ![h] = NoTracker]

-----------------------------------------------------------------------------
(* POST /api/v1/orders                                                     *)

Unnumbered == {h \in Handler : phase[h] # "idle" /\ req[h].kind = "submit" /\ req[h].id = 0}

Submit(h, r) ==
    /\ phase[h] = "idle"
    /\ order_counter + Cardinality(Unnumbered) < MaxOrders       \* the bound
    /\ phase' = [phase EXCEPT ![h] = "find_book"]
    /\ req' = [req EXCEPT ![h] = r]
    /\ UNCHANGED <<bookVars, indexVars, order_counter, books, ptr, leaves, todo, seen, executed>>

\* get_or_create_book, the lookup under the shared lock.
FindBook(h) ==
    /\ phase[h] = "find_book"
    /\ ptr' = [ptr EXCEPT ![h] = books]
    /\ phase' = [phase EXCEPT ![h] = IF books = 0 THEN "create_book" ELSE "have_book"]
    /\ UNCHANGED <<bookVars, indexVars, order_counter, books, req, leaves, todo, seen, executed>>

\* get_or_create_book, the second lookup and the creation under the unique lock.
BugCreatedBook == books + 1

CreatedBook == IF books = 0 THEN 1 ELSE books

CreateBook(h) ==
    /\ phase[h] = "create_book"
    /\ books' = CreatedBook
    /\ ptr' = [ptr EXCEPT ![h] = CreatedBook]
    /\ phase' = [phase EXCEPT ![h] = "have_book"]
    /\ UNCHANGED <<bookVars, indexVars, order_counter, req, leaves, todo, seen, executed>>

\* next_order_id: one atomic increment.
Incremented == order_counter + 1

NumberOrder(h) ==
    /\ phase[h] = "have_book" /\ req[h].kind = "submit"
    /\ order_counter' = Incremented
    /\ req' = [req EXCEPT ![h].id = Incremented]
    /\ phase' = [phase EXCEPT ![h] = "add"]
    /\ UNCHANGED <<bookVars, indexVars, books, ptr, leaves, todo, seen, executed>>

\* book->add_order: from taking the book's mutex to releasing it.
StartMatch(h) ==
    /\ phase[h] = "add"
    /\ Book!AddOrder(OrderOf(req[h]))
    /\ phase' = [phase EXCEPT ![h] = "matching"]
    /\ UNCHANGED <<indexVars, order_counter, books, req, ptr, leaves, todo, seen, executed>>

Count(f) == [executed EXCEPT ![f.maker] = @ + f.quantity, ![f.taker] = @ + f.quantity]

MatchOn(h) ==
    /\ phase[h] = "matching"
    /\ Book!EnterLevel \/ Book!FillMaker \/ Book!LeaveLevel
    /\ executed' = IF fills' = fills THEN executed ELSE Count(Last(fills'))
    /\ UNCHANGED <<indexVars, order_counter, books, handlerVars>>

FinishMatch(h) ==
    /\ phase[h] = "matching"
    /\ Book!RestRemainder \/ Book!ReturnFills
    /\ todo' = [todo EXCEPT ![h] = fills]
    /\ leaves' = [leaves EXCEPT ![h] = req[h].quantity - Book!FilledTotal]
    /\ phase' = [phase EXCEPT ![h] = "update_makers"]
    /\ UNCHANGED <<indexVars, order_counter, books, req, ptr, seen, executed>>

\* The loop over the fills: index_mu is taken anew for every maker.
BugAfterFill(t, q) == NoTracker

BugAfterFillKeepsZero(t, q) ==
    IF t.remaining - q < 0 THEN NoTracker ELSE [t EXCEPT !.remaining = @ - q]

AfterFill(t, q) ==
    IF t.remaining - q <= 0 THEN NoTracker ELSE [t EXCEPT !.remaining = @ - q]

UpdateMaker(h) ==
    /\ phase[h] = "update_makers" /\ todo[h] # <<>>
    /\ LET f == Head(todo[h])
       IN  order_index' =
              IF order_index[f.maker] = NoTracker THEN order_index
              ELSE [order_index EXCEPT ![f.maker] = AfterFill(@, f.quantity)]
    /\ todo' = [todo EXCEPT ![h] = Tail(@)]
    /\ UNCHANGED <<bookVars, order_counter, books, phase, req, ptr, leaves, seen, acked, executed>>

\* A limit order with leaves is tracked; every submission is then answered.
Tracks(h) == req[h].type = "limit" /\ leaves[h] > 0

BugTrackerOf(h) == [orig |-> req[h].quantity, remaining |-> req[h].quantity - leaves[h]]

TrackerOf(h) == [orig |-> req[h].quantity, remaining |-> leaves[h]]

AnswerSubmit(h) ==
    /\ phase[h] = "update_makers" /\ todo[h] = <<>>
    /\ order_index' = IF Tracks(h)
                      THEN [order_index EXCEPT ![req[h].id] = TrackerOf(h)]
                      ELSE order_index
    /\ Reply(h)
    /\ UNCHANGED <<bookVars, order_counter, books, acked, executed>>

-----------------------------------------------------------------------------
(* DELETE /api/v1/orders/:order_id                                         *)

\* The tracker is copied under the shared lock; without one the answer is 404.
Cancel(h, i) ==
    /\ phase[h] = "idle"
    /\ order_index[i] # NoTracker
    /\ seen' = [seen EXCEPT ![h] = order_index[i]]
    /\ req' = [req EXCEPT ![h] = [kind |-> "cancel", id |-> i]]
    /\ phase' = [phase EXCEPT ![h] = "find_book"]
    /\ UNCHANGED <<bookVars, indexVars, order_counter, books, ptr, leaves, todo, executed>>

\* book->cancel_order, atomic under the book's mutex.
BugAnswersOk(found) == TRUE

AnswersOk(found) == found

CancelInBook(h) ==
    /\ phase[h] = "have_book" /\ req[h].kind = "cancel"
    /\ Book!CancelOrder(req[h].id) \/ Book!CancelUnknown(req[h].id)
    /\ IF AnswersOk(index[req[h].id] # NoLocation)
       THEN /\ phase' = [phase EXCEPT ![h] = "untrack"]
            /\ UNCHANGED <<req, ptr, leaves, todo, seen>>
       ELSE Reply(h)                                \* 404, the tracker stays
    /\ UNCHANGED <<indexVars, order_counter, books, executed>>

\* The tracker is erased and the report says cum_qty = orig - remaining, of
\* the copy made at the beginning.
AnswerCancel(h) ==
    /\ phase[h] = "untrack"
    /\ order_index' = [order_index EXCEPT ![req[h].id] = NoTracker]
    /\ acked' = [acked EXCEPT ![req[h].id] = @ + 1]
    /\ Reply(h)
    /\ UNCHANGED <<bookVars, order_counter, books, executed>>

-----------------------------------------------------------------------------

Next ==
    \E h \in Handler :
        \/ \E r \in Submission : Submit(h, r)
        \/ \E i \in OrderId : Cancel(h, i)
        \/ FindBook(h) \/ CreateBook(h)
        \/ NumberOrder(h) \/ StartMatch(h) \/ MatchOn(h) \/ FinishMatch(h)
        \/ UpdateMaker(h) \/ AnswerSubmit(h)
        \/ CancelInBook(h) \/ AnswerCancel(h)

Spec == Init /\ [][Next]_vars

-----------------------------------------------------------------------------
(* Properties                                                              *)

TypeOK ==
    /\ order_index \in [OrderId -> Tracker \cup {NoTracker}]
    /\ order_counter \in 0..MaxOrders
    /\ books \in 0..1
    /\ phase \in [Handler -> {"idle", "find_book", "create_book", "have_book", "add",
                              "matching", "update_makers", "untrack"}]
    /\ ptr \in [Handler -> 0..1]
    /\ leaves \in [Handler -> 0..MaxQty]
    /\ executed \in [OrderId -> 0..MaxQty]

\* Two handlers that miss the symbol at the same time end up with one and the
\* same book object (get_or_create_book looks a second time under the unique
\* lock), so no order rests in a book that the map has lost.
OneBook == \A h \in Handler : ptr[h] # 0 => ptr[h] = books

\* An order rests unnoticed only while its own submission or a cancel of it is
\* still being served: otherwise order_index knows it, and it can be cancelled.
Served(i) == \E h \in Handler : phase[h] \in {"matching", "update_makers", "untrack"} /\ req[h].id = i

RestingIsTracked ==
    \A i \in OrderId : index[i] # NoLocation /\ ~ Served(i) => order_index[i] # NoTracker

\* A tracker never says less than what rests: an order is never taken for
\* more executed than it is, whatever updates are still on their way.
TrackerNeverUnderstates ==
    \A i \in OrderId : index[i] # NoLocation /\ order_index[i] # NoTracker =>
        order_index[i].remaining >= node[i].quantity

\* The cum_qty a cancel reports comes from a copy made before the book was
\* asked.  It may miss fills, but it never claims one that did not happen.
CancelNeverOverreports ==
    \A h \in Handler : phase[h] = "untrack" =>
        seen[h].orig - seen[h].remaining <= executed[req[h].id]

\* Of two cancels of one order at most one is answered 200, and never one of
\* an order that has been filled in full.
CancelAckedOnce ==
    \A i \in OrderId :
        LET acks == acked[i] + Cardinality({h \in Handler : phase[h] = "untrack" /\ req[h].id = i})
        IN  /\ acks <= 1
            /\ acks = 1 => index[i] = NoLocation
            /\ \A h \in Handler : phase[h] = "untrack" /\ req[h].id = i => executed[i] < seen[h].orig
=============================================================================
