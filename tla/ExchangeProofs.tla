--------------------------- MODULE ExchangeProofs ---------------------------
(***************************************************************************)
(* Theorems about Exchange, for every set of handler threads and every     *)
(* bound on orders, prices and quantities.  What one call does to the book *)
(* is taken from OrderBookProofs, instantiated as BP for the book that the *)
(* handlers share.                                                         *)
(***************************************************************************)
EXTENDS Exchange, SequenceTheorems, FiniteSetTheorems, TLAPS

BP == INSTANCE OrderBookProofs

-----------------------------------------------------------------------------
(* The critical sections of the handlers are the operations of OrderBook   *)

\* What the book assumes of its constants follows from what the exchange does.
LEMMA BookAssumptions ==
    /\ MaxPrice \in Nat \ {0} /\ MaxQty \in Nat \ {0} /\ NoAccount \notin Account
    /\ NoOrder \notin BP!Request /\ NoLocation \notin BP!Location
BY BoundsAssumption, MarkerAssumption
   DEF Account, BP!Request, Book!Request, BP!Location, Book!Location, BP!Owner, Book!Owner,
       BP!Side, Book!Side, BP!Price, Book!Price

\* The state functions of AddOrder's walk are the same in both instances of OrderBook.
LEMMA BookWalk ==
    /\ Book!MoreToMatch = BP!MoreToMatch
    /\ Book!AtMaker = BP!AtMaker
    /\ Book!opp = BP!opp
    /\ Book!maker = BP!maker
BY DEF Book!MoreToMatch, BP!MoreToMatch, Book!TooFar, BP!TooFar, Book!Better, BP!Better,
       Book!End, BP!End, Book!AtMaker, BP!AtMaker, Book!opp, BP!opp,
       Book!Opposite, BP!Opposite, Book!maker, BP!maker

\* The empty book of the exchange is OrderBook's initial state.
LEMMA BookInit == Book!Init => BP!Init
BY DEF Book!Init, BP!Init, Book!Side, BP!Side, Book!Price, BP!Price, Book!End, BP!End

\* The call of AddOrder a handler makes is OrderBook's own.
LEMMA BookAddOrder ==
    ASSUME NEW o PROVE Book!AddOrder(o) => BP!AddOrder(o)
BY DEF Book!AddOrder, BP!AddOrder, Book!Valid, BP!Valid, Book!Best, BP!Best,
       Book!Better, BP!Better, Book!End, BP!End, Book!Opposite, BP!Opposite,
       Book!book, BP!book

\* Entering the best opposite level is a step of OrderBook.
LEMMA BookEnterLevel == Book!EnterLevel => BP!EnterLevel
BY BookWalk DEF Book!EnterLevel, BP!EnterLevel, Book!book, BP!book

\* So is the fill of one maker,
LEMMA BookFillMaker == Book!FillMaker => BP!FillMaker
BY BookWalk
   DEF Book!FillMaker, BP!FillMaker, Book!SameAccount, BP!SameAccount, Book!Least, BP!Least,
       Book!FillOf, BP!FillOf, Book!RemoveAt, BP!RemoveAt, Book!NextMaker, BP!NextMaker

\* leaving a level that is used up or out of reach,
LEMMA BookLeaveLevel == Book!LeaveLevel => BP!LeaveLevel
BY BookWalk
   DEF Book!LeaveLevel, BP!LeaveLevel, Book!DropEmptyLevel, BP!DropEmptyLevel,
       Book!Best, BP!Best, Book!Better, BP!Better, Book!End, BP!End

\* resting what is left of a limit order,
LEMMA BookRestRemainder == Book!RestRemainder => BP!RestRemainder
BY BookWalk
   DEF Book!RestRemainder, BP!RestRemainder, Book!Rests, BP!Rests, Book!PushBack, BP!PushBack,
       Book!EndCall, BP!EndCall, Book!End, BP!End

\* returning with nothing left to rest,
LEMMA BookReturnFills == Book!ReturnFills => BP!ReturnFills
BY BookWalk
   DEF Book!ReturnFills, BP!ReturnFills, Book!Rests, BP!Rests,
       Book!EndCall, BP!EndCall, Book!End, BP!End, Book!book, BP!book

\* and CancelOrder of an order the book's index finds.
LEMMA BookCancelOrder ==
    ASSUME NEW i PROVE Book!CancelOrder(i) => BP!CancelOrder(i)
BY DEF Book!CancelOrder, BP!CancelOrder, Book!PositionOf, BP!PositionOf,
       Book!RemoveAt, BP!RemoveAt, Book!call, BP!call

\* The quantity the fills of the call sum to is one number in both instances.
LEMMA BookFilledTotal == Book!FilledTotal = BP!FilledTotal
BY DEF Book!FilledTotal, BP!FilledTotal, Book!SumFunction, BP!SumFunction,
       Book!SumFunctionOnSet, BP!SumFunctionOnSet, Book!FoldFunctionOnSet, BP!FoldFunctionOnSet,
       Book!MapThenFoldSet, BP!MapThenFoldSet

\* The book's own invariants, whatever the handlers do to it.
BookInv == BP!IInv /\ BP!FillInv

\* Every step of OrderBook keeps the book's invariants: OrderBookProofs' two
\* inductive steps, instantiated.
LEMMA BookStepInv ==
    ASSUME BookInv, [BP!Next]_(BP!vars)
    PROVE  BookInv'
<1>1. BP!IInv'
  BY BP!NextInv, BookAssumptions DEF BookInv
<1>2. BP!FillInv'
  BY <1>1, BP!NextAddsUp, BookAssumptions DEF BookInv
<1> QED
  BY <1>1, <1>2 DEF BookInv

\* A step that leaves the book alone keeps them too.
LEMMA BookUnchangedInv ==
    ASSUME BookInv, UNCHANGED bookVars
    PROVE  BookInv'
<1>1. UNCHANGED BP!vars
  BY DEF bookVars, BP!vars
<1> QED
  BY <1>1, BookStepInv

-----------------------------------------------------------------------------
(* The sum over the handlers                                               *)

\* The sum the community module defines, by its two names.
LEMMA SumsAreSums ==
    ASSUME NEW w, NEW S
    PROVE  SumFunctionOnSet(w, S) = BP!SumFunctionOnSet(w, S)
BY DEF SumFunctionOnSet, BP!SumFunctionOnSet, FoldFunctionOnSet, BP!FoldFunctionOnSet,
       MapThenFoldSet, BP!MapThenFoldSet

\* Finiteness, by its two names.
LEMMA FiniteIsFinite ==
    ASSUME NEW S, IsFiniteSet(S)
    PROVE  BP!IsFiniteSet(S)
BY DEF IsFiniteSet, BP!IsFiniteSet

SumOfHandlers(w) == SumFunctionOnSet(w, Handler)

\* A sum of naturals over the handlers, and how it changes when one of them does.
LEMMA SumOfHandlersType ==
    ASSUME NEW w \in [Handler -> Nat]
    PROVE  SumOfHandlers(w) \in Nat
<1>1. BP!IsFiniteSet(Handler) /\ BP!ValuesIn(w, Handler, Nat)
  BY BoundsAssumption, FiniteIsFinite DEF BP!ValuesIn
<1>2. BP!SumFunctionOnSet(w, Handler) \in Nat
  BY <1>1, BP!SumOfNaturals, BookAssumptions
<1> QED
  BY <1>2, SumsAreSums DEF SumOfHandlers

\* When no handler holds anything the sum is zero.
LEMMA SumOfHandlersZero ==
    ASSUME NEW w \in [Handler -> {0}]
    PROVE  SumOfHandlers(w) = 0
<1>1. BP!IsFiniteSet(Handler) /\ BP!ValuesIn(w, Handler, {0})
  BY BoundsAssumption, FiniteIsFinite DEF BP!ValuesIn
<1>2. BP!SumFunctionOnSet(w, Handler) = 0
  BY <1>1, BP!SumOfZeros, BookAssumptions
<1> QED
  BY <1>2, SumsAreSums DEF SumOfHandlers

\* A change of one handler's share changes the sum by the difference.
LEMMA SumOfHandlersChange ==
    ASSUME NEW w \in [Handler -> Nat], NEW h \in Handler, NEW d \in Nat
    PROVE  SumOfHandlers([w EXCEPT ![h] = d]) = SumOfHandlers(w) - w[h] + d
<1> DEFINE v == [w EXCEPT ![h] = d]
<1>1. /\ BP!IsFiniteSet(Handler)
      /\ BP!IntegersOn(w, Handler) /\ BP!IntegersOn(v, Handler)
      /\ BP!AgreeOn(w, v, Handler \ {h})
      /\ v[h] = d
  BY BoundsAssumption, FiniteIsFinite DEF BP!IntegersOn, BP!AgreeOn
<1> HIDE DEF v
<1>2. BP!SumFunctionOnSet(v, Handler) = BP!SumFunctionOnSet(w, Handler) - w[h] + v[h]
  BY <1>1, BP!SumChange, BookAssumptions
<1> QED
  BY <1>1, <1>2, SumsAreSums DEF SumOfHandlers, v

-----------------------------------------------------------------------------
(* The inductive invariant                                                 *)

\* Submissions as the handlers hold them, numbered with the given ids, and the
\* cancels.
SubmitRecord(ids) ==
    [kind : {"submit"}, id : ids, side : BP!Side, type : {"limit"},
     price : BP!Price, quantity : 1..MaxQty]
    \cup
    [kind : {"submit"}, id : ids, side : BP!Side, type : {"market"},
     price : {0}, quantity : 1..MaxQty]

CancelRecord == [kind : {"cancel"}, id : OrderId]

\* A handler looks for the book, serves a numbered submission, or a cancel.
Looking(h)    == phase[h] \in {"find_book", "create_book", "have_book"}
Submitting(h) == phase[h] \in {"add", "matching", "update_makers"}
Cancelling(h) == phase[h] = "untrack" \/ (Looking(h) /\ req[h].kind = "cancel")

LocalsType ==
    /\ req \in [Handler -> SubmitRecord({0}) \cup SubmitRecord(OrderId)
                              \cup CancelRecord \cup {NoRequest}]
    /\ seen \in [Handler -> Tracker \cup {NoTracker}]
    /\ acked \in [OrderId -> Nat]
    /\ todo \in [Handler -> Seq(BP!FillRecord)]

\* One call of the book fills a maker at most once.
DistinctMakers(s) == \A j, k \in 1..Len(s) : s[j].maker = s[k].maker => j = k

PhaseInv ==
    \A h \in Handler :
        /\ Looking(h) => req[h] \in SubmitRecord({0}) \cup CancelRecord
        /\ Submitting(h) => req[h] \in SubmitRecord(OrderId) /\ req[h].id <= order_counter
        /\ phase[h] = "untrack" => req[h] \in CancelRecord
        /\ Cancelling(h) => seen[h] \in Tracker
        /\ phase[h] # "update_makers" => todo[h] = <<>>
        /\ DistinctMakers(todo[h])

\* next_order_id gives no id twice.
DistinctIds ==
    \A g, h \in Handler : Submitting(g) /\ Submitting(h) /\ req[g].id = req[h].id => g = h

RoomLeft == order_counter + Cardinality(Unnumbered) <= MaxOrders

\* The book's mutex is held by the one handler that is matching, and the taker
\* is the order it submits: filled so far is what is executed.
MatchInv ==
    /\ pc # "idle" <=> \E h \in Handler : phase[h] = "matching"
    /\ \A g, h \in Handler : phase[g] = "matching" /\ phase[h] = "matching" => g = h
    /\ \A h \in Handler : phase[h] = "matching" =>
          /\ taker.id = req[h].id /\ taker.type = req[h].type
          /\ asked = req[h].quantity
          /\ executed[req[h].id] + taker.quantity = req[h].quantity

\* The quantity of maker i that handler h has filled, or was told it filled,
\* and has not yet taken off the tracker of i; and all of it.
Owed(s, i) ==
    IF \E k \in 1..Len(s) : s[k].maker = i
    THEN s[CHOOSE k \in 1..Len(s) : s[k].maker = i].quantity
    ELSE 0

Debt(h, i) == Owed(IF phase[h] = "matching" THEN fills ELSE todo[h], i)

Debts(i)   == [h \in Handler |-> Debt(h, i)]
Pending(i) == SumOfHandlers(Debts(i))

\* Nobody but its own submission knows the id i yet.
Unused(i) ==
    /\ index[i] = NoLocation /\ order_index[i] = NoTracker /\ acked[i] = 0
    /\ \A h \in Handler : Debt(h, i) = 0
    /\ \A h \in Handler : Cancelling(h) => req[h].id # i

FreshInv ==
    /\ \A i \in OrderId : i > order_counter => Unused(i) /\ executed[i] = 0
    /\ \A h \in Handler : phase[h] \in {"add", "matching"} => Unused(req[h].id)
    /\ \A h \in Handler : phase[h] = "add" => executed[req[h].id] = 0

\* What is known of an order of size orig with "remaining" left accounts for no
\* more than what is executed, the updates on their way included; and what of
\* it rests is what is not executed.
Accounts(i, orig, remaining, pending) ==
    /\ orig - remaining + pending <= executed[i]
    /\ index[i] # NoLocation => executed[i] + node[i].quantity = orig

TrackerInv ==
    \A i \in OrderId : order_index[i] # NoTracker =>
        Accounts(i, order_index[i].orig, order_index[i].remaining, Pending(i))

SubmitInv ==
    \A h \in Handler : phase[h] = "update_makers" =>
        /\ Accounts(req[h].id, req[h].quantity, leaves[h], Pending(req[h].id))
        /\ index[req[h].id] # NoLocation => req[h].type = "limit"

CancelInv ==
    \A h \in Handler : Cancelling(h) =>
        /\ Accounts(req[h].id, seen[h].orig, seen[h].remaining, 0)
        /\ phase[h] = "untrack" =>
              index[req[h].id] = NoLocation /\ executed[req[h].id] < seen[h].orig

RestInv ==
    \A i \in OrderId : index[i] # NoLocation => executed[i] + node[i].quantity <= MaxQty

AckInv ==
    /\ \A i \in OrderId : acked[i] <= 1 /\ (acked[i] = 1 => index[i] = NoLocation)
    /\ \A h \in Handler : phase[h] = "untrack" => acked[req[h].id] = 0
    /\ \A g, h \in Handler :
          phase[g] = "untrack" /\ phase[h] = "untrack" /\ req[g].id = req[h].id => g = h

ControlInv == TypeOK /\ OneBook /\ LocalsType /\ PhaseInv /\ DistinctIds /\ RoomLeft /\ MatchInv
AccountInv == FreshInv /\ TrackerInv /\ SubmitInv /\ CancelInv /\ RestInv /\ AckInv
                  /\ RestingIsTracked

ExchangeInv == BookInv /\ ControlInv /\ AccountInv

-----------------------------------------------------------------------------
(* Lemmas about the parts                                                  *)

\* The fields of a submission, and what giving it its id leaves alone.
LEMMA SubmitRecordFacts ==
    ASSUME NEW ids, NEW r \in SubmitRecord(ids)
    PROVE  /\ r.kind = "submit" /\ r.id \in ids
           /\ r.quantity \in 1..MaxQty
           /\ \A i : [r EXCEPT !.id = i] \in SubmitRecord({i})
           /\ \A i : [r EXCEPT !.id = i].id = i
           /\ \A i : [r EXCEPT !.id = i].type = r.type
           /\ \A i : [r EXCEPT !.id = i].quantity = r.quantity
BY DEF SubmitRecord

\* A submission comes in with the id 0.
LEMMA SubmissionRecord ==
    ASSUME NEW r \in Submission
    PROVE  r \in SubmitRecord({0})
BY DEF Submission, SubmitRecord, Book!Side, BP!Side, Book!Price, BP!Price

\* The order handed to the book is one AddOrder accepts, with the request's id,
\* type and quantity.
LEMMA OrderOfRecord ==
    ASSUME NEW r \in SubmitRecord(OrderId)
    PROVE  /\ OrderOf(r) \in BP!Request
           /\ OrderOf(r).id = r.id /\ OrderOf(r).type = r.type
           /\ OrderOf(r).quantity = r.quantity
BY BoundsAssumption DEF SubmitRecord, OrderOf, BP!Request, BP!Owner, BP!Price, BP!Side

\* A list of fills that names no maker i owes i nothing;
LEMMA OwedNone ==
    ASSUME NEW s, NEW i, \A k \in 1..Len(s) : s[k].maker # i
    PROVE  Owed(s, i) = 0
BY DEF Owed

\* nor does the empty list;
LEMMA OwedEmpty ==
    ASSUME NEW i
    PROVE  Owed(<<>>, i) = 0
BY DEF Owed

\* and to the maker of its k-th fill it owes that fill's quantity.
LEMMA OwedOne ==
    ASSUME NEW s, DistinctMakers(s), NEW k \in 1..Len(s)
    PROVE  Owed(s, s[k].maker) = s[k].quantity
<1> DEFINE c == CHOOSE j \in 1..Len(s) : s[j].maker = s[k].maker
<1>1. c \in 1..Len(s) /\ s[c].maker = s[k].maker
  OBVIOUS
<1>2. Owed(s, s[k].maker) = s[c].quantity
  BY DEF Owed
<1> HIDE DEF c
<1>3. c = k
  BY <1>1 DEF DistinctMakers
<1> QED
  BY <1>2, <1>3

\* What a list of fills owes is a natural number.
LEMMA OwedType ==
    ASSUME NEW s \in Seq(BP!FillRecord), DistinctMakers(s), NEW i
    PROVE  Owed(s, i) \in Nat
<1>1. CASE \A k \in 1..Len(s) : s[k].maker # i
  BY <1>1, OwedNone
<1>2. CASE \E k \in 1..Len(s) : s[k].maker = i
  <2>1. PICK k \in 1..Len(s) : s[k].maker = i
    BY <1>2
  <2>2. s[k] \in BP!FillRecord
    BY ElementOfSeq
  <2>3. s[k].quantity \in Nat
    BY <2>2, BoundsAssumption DEF BP!FillRecord
  <2>4. Owed(s, s[k].maker) = s[k].quantity
    BY OwedOne
  <2> QED
    BY <2>1, <2>3, <2>4
<1> QED
  BY <1>1, <1>2

\* A fill of a maker that has none yet.
LEMMA OwedAppend ==
    ASSUME NEW s \in Seq(BP!FillRecord), DistinctMakers(s), NEW f \in BP!FillRecord,
           DistinctMakers(Append(s, f))
    PROVE  /\ Owed(s, f.maker) = 0 /\ Owed(Append(s, f), f.maker) = f.quantity
           /\ \A i : i # f.maker => Owed(Append(s, f), i) = Owed(s, i)
<1> DEFINE t == Append(s, f)
           n == Len(s)
<1>1. /\ n \in Nat /\ Len(t) = n + 1 /\ t[n + 1] = f
      /\ \A k \in 1..n : t[k] = s[k]
  BY AppendProperties
<1>2. \A k \in 1..(n + 1) : k \in 1..n \/ k = n + 1
  BY <1>1
<1> HIDE DEF t
<1>3. DistinctMakers(t)
  BY DEF t
<1>4. Owed(t, f.maker) = f.quantity
  <2>1. n + 1 \in 1..Len(t)
    BY <1>1
  <2> QED
    BY <1>1, <1>3, <2>1, OwedOne
<1>5. \A k \in 1..n : s[k].maker # f.maker
  <2> TAKE k \in 1..n
  <2>1. k \in 1..Len(t) /\ n + 1 \in 1..Len(t) /\ k # n + 1 /\ t[k] = s[k]
    BY <1>1
  <2> QED
    BY <1>1, <1>3, <2>1 DEF DistinctMakers
<1>6. ASSUME NEW i, i # f.maker PROVE Owed(t, i) = Owed(s, i)
  <2>1. CASE \A k \in 1..n : s[k].maker # i
    <3>1. \A k \in 1..Len(t) : t[k].maker # i
      BY <1>1, <1>2, <1>6, <2>1
    <3> QED
      BY <2>1, <3>1, OwedNone
  <2>2. CASE \E k \in 1..n : s[k].maker = i
    <3>1. PICK k \in 1..n : s[k].maker = i
      BY <2>2
    <3>2. k \in 1..Len(t) /\ t[k] = s[k]
      BY <1>1
    <3>3. Owed(s, s[k].maker) = s[k].quantity
      BY OwedOne
    <3>4. Owed(t, t[k].maker) = t[k].quantity
      BY <1>3, <3>2, OwedOne
    <3> QED
      BY <3>1, <3>2, <3>3, <3>4
  <2> QED
    BY <2>1, <2>2
<1> QED
  BY <1>4, <1>5, <1>6, OwedNone DEF t

\* The first of the fills is taken off.
LEMMA OwedTail ==
    ASSUME NEW s \in Seq(BP!FillRecord), s # <<>>, DistinctMakers(s)
    PROVE  /\ Head(s) \in BP!FillRecord /\ Tail(s) \in Seq(BP!FillRecord)
           /\ DistinctMakers(Tail(s))
           /\ Owed(s, Head(s).maker) = Head(s).quantity
           /\ Owed(Tail(s), Head(s).maker) = 0
           /\ \A i : i # Head(s).maker => Owed(Tail(s), i) = Owed(s, i)
<1> DEFINE t == Tail(s)
           n == Len(s)
<1>1. /\ n \in Nat \ {0} /\ Len(t) = n - 1 /\ Head(s) = s[1]
      /\ t \in Seq(BP!FillRecord) /\ Head(s) \in BP!FillRecord
      /\ \A k \in 1..(n - 1) : t[k] = s[k + 1]
  BY HeadTailProperties, EmptySeq
<1>2. \A k \in 1..(n - 1) : k + 1 \in 1..n /\ k + 1 # 1
  BY <1>1
<1>3. 1 \in 1..n /\ \A k \in 1..n : k = 1 \/ (k - 1 \in 1..(n - 1) /\ (k - 1) + 1 = k)
  BY <1>1
<1> HIDE DEF t
<1>4. DistinctMakers(t)
  <2> SUFFICES ASSUME NEW j \in 1..(n - 1), NEW k \in 1..(n - 1), t[j].maker = t[k].maker
               PROVE  j = k
    BY <1>1 DEF DistinctMakers
  <2>1. s[j + 1].maker = s[k + 1].maker /\ j + 1 \in 1..n /\ k + 1 \in 1..n
    BY <1>1, <1>2
  <2>2. j + 1 = k + 1
    BY <2>1 DEF DistinctMakers
  <2> QED
    BY <1>1, <2>2
<1>5. Owed(s, Head(s).maker) = Head(s).quantity
  BY <1>1, <1>3, OwedOne
<1>6. \A k \in 1..Len(t) : t[k].maker # Head(s).maker
  BY <1>1, <1>2, <1>3 DEF DistinctMakers
<1>7. ASSUME NEW i, i # Head(s).maker PROVE Owed(t, i) = Owed(s, i)
  <2>1. CASE \A k \in 1..(n - 1) : t[k].maker # i
    <3>1. \A k \in 1..n : s[k].maker # i
      <4> TAKE k \in 1..n
      <4>1. CASE k = 1
        BY <1>1, <1>7, <4>1
      <4>2. CASE k - 1 \in 1..(n - 1) /\ (k - 1) + 1 = k
        BY <1>1, <2>1, <4>2
      <4> QED
        BY <1>3, <4>1, <4>2
    <3> QED
      BY <1>1, <2>1, <3>1, OwedNone
  <2>2. CASE \E k \in 1..(n - 1) : t[k].maker = i
    <3>1. PICK k \in 1..(n - 1) : t[k].maker = i
      BY <2>2
    <3>2. k \in 1..Len(t) /\ k + 1 \in 1..n /\ t[k] = s[k + 1]
      BY <1>1, <1>2
    <3>3. Owed(t, t[k].maker) = t[k].quantity
      BY <1>4, <3>2, OwedOne
    <3>4. Owed(s, s[k + 1].maker) = s[k + 1].quantity
      BY <3>2, OwedOne
    <3> QED
      BY <3>1, <3>2, <3>3, <3>4
  <2> QED
    BY <2>1, <2>2
<1>8. Owed(t, Head(s).maker) = 0
  BY <1>6, OwedNone
<1> QED
  BY <1>1, <1>4, <1>5, <1>7, <1>8 DEF t

\* The fills of the call in progress, as its handler will be given them.
LEMMA FillsOfCall ==
    ASSUME BookInv, ControlInv, NEW h \in Handler, phase[h] = "matching"
    PROVE  fills \in Seq(BP!FillRecord) /\ DistinctMakers(fills)
<1>1. pc # "idle" /\ fills \in Seq(BP!FillRecord) /\ BP!FillsAddUp
  BY DEF BookInv, BP!FillInv, ControlInv, MatchInv
<1>2. DOMAIN fills = 1..Len(fills)
  BY <1>1
<1> QED
  BY <1>1, <1>2 DEF BP!FillsAddUp, DistinctMakers

\* What one handler still has to take off i's tracker is a natural number,
LEMMA DebtType ==
    ASSUME BookInv, ControlInv, NEW h \in Handler, NEW i
    PROVE  Debt(h, i) \in Nat
<1>1. CASE phase[h] = "matching"
  BY <1>1, FillsOfCall, OwedType DEF Debt
<1>2. CASE phase[h] # "matching"
  <2>1. todo[h] \in Seq(BP!FillRecord) /\ DistinctMakers(todo[h])
    BY DEF ControlInv, LocalsType, PhaseInv
  <2> QED
    BY <1>2, <2>1, OwedType DEF Debt
<1> QED
  BY <1>1, <1>2

\* and so is the sum of it over the handlers.
LEMMA PendingType ==
    ASSUME BookInv, ControlInv, NEW i
    PROVE  Debts(i) \in [Handler -> Nat] /\ Pending(i) \in Nat
<1>1. Debts(i) \in [Handler -> Nat]
  BY DebtType DEF Debts
<1> QED
  BY <1>1, SumOfHandlersType DEF Pending

\* An id nobody was given yet has nothing pending.
LEMMA NothingPending ==
    ASSUME NEW i, Unused(i)
    PROVE  Pending(i) = 0
<1>1. Debts(i) \in [Handler -> {0}]
  BY DEF Unused, Debts
<1> QED
  BY <1>1, SumOfHandlersZero DEF Pending

\* The sum stands still when each handler's share does.
LEMMA DebtsKept ==
    ASSUME NEW i, \A g \in Handler : Debt(g, i)' = Debt(g, i)
    PROVE  Pending(i)' = Pending(i)
BY DEF Pending, Debts

-----------------------------------------------------------------------------
(* Steps that leave the accounts alone                                     *)

Early == {"idle", "find_book", "create_book", "have_book"}

\* Handler h goes from one early phase to another, and everyone else stands.
Quiet(h) ==
    /\ UNCHANGED <<bookVars, indexVars, order_counter, executed, leaves, seen, todo>>
    /\ phase' \in [Handler -> Early \cup {"add", "matching", "update_makers", "untrack"}]
    /\ \A g \in Handler : g # h => phase'[g] = phase[g] /\ req'[g] = req[g]
    /\ phase[h] \in Early /\ phase'[h] \in Early
    /\ Cancelling(h)' <=> Cancelling(h)
    /\ Cancelling(h) => req'[h] = req[h]

\* A quiet step changes neither who submits what nor who cancels what.
LEMMA QuietRoles ==
    ASSUME NEW h \in Handler, Quiet(h)
    PROVE  /\ \A g \in Handler : Submitting(g)' <=> Submitting(g)
           /\ \A g \in Handler : Cancelling(g)' <=> Cancelling(g)
           /\ \A g \in Handler : Cancelling(g) \/ Submitting(g) => req'[g] = req[g]
           /\ \A p \in {"add", "matching", "update_makers", "untrack"} :
                 \A g \in Handler : phase'[g] = p <=> phase[g] = p
BY DEF Quiet, Early, Submitting, Cancelling, Looking

\* A quiet step keeps the accounts: it touches nothing they speak of.
LEMMA QuietAccounts ==
    ASSUME AccountInv, NEW h \in Handler, Quiet(h)
    PROVE  AccountInv'
<1>1. /\ UNCHANGED <<index, node, fills, order_index, acked, order_counter, executed, leaves, seen, todo>>
  BY DEF Quiet, bookVars, indexVars
<1>2. /\ \A g \in Handler : Cancelling(g)' <=> Cancelling(g)
      /\ \A g \in Handler : Cancelling(g) => req'[g] = req[g]
      /\ \A g \in Handler : phase'[g] = "add" <=> phase[g] = "add"
      /\ \A g \in Handler : phase'[g] = "matching" <=> phase[g] = "matching"
      /\ \A g \in Handler : phase'[g] = "update_makers" <=> phase[g] = "update_makers"
      /\ \A g \in Handler : phase'[g] = "untrack" <=> phase[g] = "untrack"
      /\ \A g \in Handler : phase[g] \in {"add", "matching", "update_makers", "untrack"} =>
            req'[g] = req[g]
  BY QuietRoles DEF Submitting, Cancelling
<1>3. \A i : \A g \in Handler : Debt(g, i)' = Debt(g, i)
  BY <1>1, <1>2 DEF Debt
<1>4. \A i : Pending(i)' = Pending(i)
  BY <1>3, DebtsKept
<1>5. \A i : Unused(i)' <=> Unused(i)
  BY <1>1, <1>2, <1>3 DEF Unused
<1>6. FreshInv'
  BY <1>1, <1>2, <1>5 DEF AccountInv, FreshInv
<1>7. TrackerInv'
  BY <1>1, <1>4 DEF AccountInv, TrackerInv, Accounts
<1>8. SubmitInv'
  BY <1>1, <1>2, <1>4 DEF AccountInv, SubmitInv, Accounts
<1>9. CancelInv'
  BY <1>1, <1>2 DEF AccountInv, CancelInv, Accounts
<1>10. RestInv' /\ AckInv' /\ RestingIsTracked'
  BY <1>1, <1>2 DEF AccountInv, RestInv, AckInv, RestingIsTracked, Served
<1> QED
  BY <1>6, <1>7, <1>8, <1>9, <1>10 DEF AccountInv

\* A quiet step keeps the control invariant but for what it does itself.
LEMMA QuietControl ==
    ASSUME ControlInv, NEW h \in Handler, Quiet(h)
    PROVE  DistinctIds' /\ MatchInv'
<1>1. UNCHANGED <<pc, taker, asked, executed>>
  BY DEF Quiet, bookVars
<1>2. /\ \A g \in Handler : Submitting(g)' <=> Submitting(g)
      /\ \A g \in Handler : Submitting(g) => req'[g] = req[g]
      /\ \A g \in Handler : phase'[g] = "matching" <=> phase[g] = "matching"
  BY QuietRoles
<1>3. DistinctIds'
  BY <1>2 DEF ControlInv, DistinctIds
<1>4. MatchInv'
  BY <1>1, <1>2 DEF ControlInv, MatchInv, Submitting
<1> QED
  BY <1>3, <1>4

\* The handlers that have no id yet are those that look for the book.
LEMMA UnnumberedAre ==
    ASSUME ControlInv
    PROVE  /\ Unnumbered = {h \in Handler : Looking(h) /\ req[h].kind = "submit"}
           /\ IsFiniteSet(Unnumbered) /\ Cardinality(Unnumbered) \in Nat
<1>1. ASSUME NEW h \in Handler
      PROVE  h \in Unnumbered <=> Looking(h) /\ req[h].kind = "submit"
  <2>1. CASE Looking(h)
    <3>1. req[h] \in SubmitRecord({0}) \/ req[h] \in CancelRecord
      BY <2>1 DEF ControlInv, PhaseInv
    <3>2. req[h] \in SubmitRecord({0}) => req[h].id = 0
      BY SubmitRecordFacts
    <3>3. req[h] \in CancelRecord => req[h].kind = "cancel"
      BY DEF CancelRecord
    <3> QED
      BY <2>1, <3>1, <3>2, <3>3 DEF Unnumbered, Looking
  <2>2. CASE Submitting(h)
    <3>1. req[h] \in SubmitRecord(OrderId)
      BY <2>2 DEF ControlInv, PhaseInv
    <3>2. req[h].id \in OrderId
      BY <3>1, SubmitRecordFacts
    <3> QED
      BY <2>2, <3>2 DEF Unnumbered, Looking, Submitting, OrderId
  <2>3. CASE phase[h] \in {"idle", "untrack"}
    <3>1. phase[h] = "untrack" => req[h].kind = "cancel"
      BY DEF ControlInv, PhaseInv, CancelRecord
    <3> QED
      BY <2>3, <3>1 DEF Unnumbered, Looking
  <2>4. phase[h] \in {"idle", "find_book", "create_book", "have_book", "add",
                      "matching", "update_makers", "untrack"}
    BY DEF ControlInv, TypeOK
  <2> QED
    BY <2>1, <2>2, <2>3, <2>4 DEF Looking, Submitting
<1>2. Unnumbered \subseteq Handler
  BY DEF Unnumbered
<1>3. IsFiniteSet(Unnumbered)
  BY <1>2, BoundsAssumption, FS_Subset
<1>4. Cardinality(Unnumbered) \in Nat
  BY <1>3, FS_CardinalityType
<1> QED
  BY <1>1, <1>2, <1>3, <1>4

\* A submission that arrives, within the bound.
LEMMA SubmitKeepsInv ==
    ASSUME ExchangeInv, NEW h \in Handler, NEW r \in Submission, Submit(h, r)
    PROVE  ExchangeInv'
<1>1. /\ phase[h] = "idle"
      /\ order_counter + Cardinality(Unnumbered) < MaxOrders
      /\ phase' = [phase EXCEPT ![h] = "find_book"]
      /\ req' = [req EXCEPT ![h] = r]
      /\ UNCHANGED <<bookVars, indexVars, order_counter, books, ptr, leaves, todo, seen, executed>>
  BY DEF Submit
<1>2. r \in SubmitRecord({0}) /\ r.kind = "submit" /\ r.id = 0
  BY SubmissionRecord, SubmitRecordFacts
<1>3. BookInv /\ ControlInv /\ AccountInv /\ TypeOK /\ LocalsType
  BY DEF ExchangeInv, ControlInv
<1>4. /\ phase'[h] = "find_book" /\ req'[h] = r
      /\ \A g \in Handler : g # h => phase'[g] = phase[g] /\ req'[g] = req[g]
  BY <1>1, <1>3 DEF TypeOK, LocalsType
<1>5. UNCHANGED <<acked, order_index>>
  BY <1>1 DEF indexVars
<1>6. Quiet(h)
  BY <1>1, <1>2, <1>3, <1>4 DEF Quiet, Early, Cancelling, Looking, TypeOK
<1>7. BookInv'
  BY <1>1, <1>3, BookUnchangedInv
<1>8. AccountInv' /\ DistinctIds' /\ MatchInv'
  BY <1>3, <1>6, QuietAccounts, QuietControl
<1>9. TypeOK' /\ OneBook' /\ LocalsType'
  BY <1>1, <1>2, <1>3, <1>5 DEF ControlInv, TypeOK, OneBook, LocalsType
<1>10. PhaseInv'
  BY <1>1, <1>2, <1>3, <1>4 DEF ControlInv, PhaseInv, Looking, Submitting, Cancelling
<1>11. RoomLeft'
  <2>1. Unnumbered' = Unnumbered \cup {h}
    BY <1>1, <1>2, <1>4 DEF Unnumbered
  <2>2. h \notin Unnumbered
    BY <1>1 DEF Unnumbered
  <2>3. IsFiniteSet(Unnumbered) /\ Cardinality(Unnumbered) \in Nat
    BY <1>3, UnnumberedAre
  <2>4. Cardinality(Unnumbered') = Cardinality(Unnumbered) + 1
    BY <2>1, <2>2, <2>3, FS_AddElement
  <2> QED
    BY <1>1, <1>3, <2>3, <2>4, BoundsAssumption DEF RoomLeft, TypeOK
<1> QED
  BY <1>7, <1>8, <1>9, <1>10, <1>11 DEF ExchangeInv, ControlInv

\* A handler that looks for the book, and goes on looking.
LEMMA LookingKeepsRoom ==
    ASSUME ControlInv, NEW h \in Handler, Looking(h), phase' = [phase EXCEPT ![h] = phase'[h]],
           phase'[h] \in {"create_book", "have_book"},
           UNCHANGED <<order_counter, req>>
    PROVE  RoomLeft'
<1>1. Unnumbered' = Unnumbered
  BY DEF Unnumbered, Looking, ControlInv, TypeOK
<1> QED
  BY <1>1 DEF ControlInv, RoomLeft

\* get_or_create_book finds the book, or not.
LEMMA FindBookKeepsInv ==
    ASSUME ExchangeInv, NEW h \in Handler, FindBook(h)
    PROVE  ExchangeInv'
<1>1. /\ phase[h] = "find_book"
      /\ phase' = [phase EXCEPT ![h] = phase'[h]] /\ phase'[h] \in {"create_book", "have_book"}
      /\ ptr' = [ptr EXCEPT ![h] = books]
      /\ UNCHANGED <<bookVars, indexVars, order_counter, books, req, leaves, todo, seen, executed>>
  BY DEF FindBook, ExchangeInv, ControlInv, TypeOK
<1>2. BookInv /\ ControlInv /\ AccountInv /\ TypeOK
  BY DEF ExchangeInv, ControlInv
<1>3. \A g \in Handler : g # h => phase'[g] = phase[g]
  BY <1>1, <1>2 DEF TypeOK
<1>4. UNCHANGED <<acked, order_index>>
  BY <1>1 DEF indexVars
<1>5. Quiet(h)
  BY <1>1, <1>2, <1>3 DEF Quiet, Early, Cancelling, Looking, TypeOK
<1>6. BookInv'
  BY <1>1, <1>2, BookUnchangedInv
<1>7. AccountInv' /\ DistinctIds' /\ MatchInv'
  BY <1>2, <1>5, QuietAccounts, QuietControl
<1>8. TypeOK' /\ OneBook' /\ LocalsType'
  BY <1>1, <1>2, <1>4 DEF ControlInv, TypeOK, OneBook, LocalsType
<1>9. PhaseInv'
  BY <1>1, <1>2, <1>3 DEF ControlInv, PhaseInv, Looking, Submitting, Cancelling
<1>10. RoomLeft'
  BY <1>1, <1>2, LookingKeepsRoom DEF Looking
<1> QED
  BY <1>6, <1>7, <1>8, <1>9, <1>10 DEF ExchangeInv, ControlInv

\* The second lookup finds what another handler has created meanwhile; nobody
\* has a book that is not in the map.
LEMMA CreateBookKeepsInv ==
    ASSUME ExchangeInv, NEW h \in Handler, CreateBook(h)
    PROVE  ExchangeInv'
<1>1. /\ phase[h] = "create_book"
      /\ phase' = [phase EXCEPT ![h] = phase'[h]] /\ phase'[h] \in {"create_book", "have_book"}
      /\ books' = CreatedBook /\ ptr' = [ptr EXCEPT ![h] = CreatedBook]
      /\ UNCHANGED <<bookVars, indexVars, order_counter, req, leaves, todo, seen, executed>>
  BY DEF CreateBook, ExchangeInv, ControlInv, TypeOK
<1>2. BookInv /\ ControlInv /\ AccountInv /\ TypeOK
  BY DEF ExchangeInv, ControlInv
<1>3. \A g \in Handler : g # h => phase'[g] = phase[g]
  BY <1>1, <1>2 DEF TypeOK
<1>4. UNCHANGED <<acked, order_index>>
  BY <1>1 DEF indexVars
<1>5. Quiet(h)
  BY <1>1, <1>2, <1>3 DEF Quiet, Early, Cancelling, Looking, TypeOK
<1>6. BookInv'
  BY <1>1, <1>2, BookUnchangedInv
<1>7. AccountInv' /\ DistinctIds' /\ MatchInv'
  BY <1>2, <1>5, QuietAccounts, QuietControl
<1>8. TypeOK' /\ OneBook' /\ LocalsType'
  <2>1. CreatedBook \in {1} /\ (books # 0 => books = CreatedBook)
    BY <1>2 DEF TypeOK, CreatedBook
  <2>2. TypeOK'
    BY <1>1, <1>2, <1>4, <2>1 DEF TypeOK
  <2>2a. LocalsType'
    BY <1>1, <1>2, <1>4 DEF ControlInv, LocalsType
  <2>3. ASSUME NEW g \in Handler, ptr'[g] # 0
        PROVE  ptr'[g] = books'
    <3>1. ptr' = [ptr EXCEPT ![h] = CreatedBook] /\ ptr \in [Handler -> 0..1]
      BY <1>1, <1>2 DEF TypeOK
    <3>2. g # h => ptr[g] = books
      BY <2>3, <3>1 DEF ControlInv, OneBook, ExchangeInv
    <3> QED
      BY <1>1, <2>1, <2>3, <3>1, <3>2
  <2> QED
    BY <2>2, <2>2a, <2>3 DEF OneBook
<1>9. PhaseInv'
  BY <1>1, <1>2, <1>3 DEF ControlInv, PhaseInv, Looking, Submitting, Cancelling
<1>10. RoomLeft'
  BY <1>1, <1>2, LookingKeepsRoom DEF Looking
<1> QED
  BY <1>6, <1>7, <1>8, <1>9, <1>10 DEF ExchangeInv, ControlInv

\* next_order_id: the number is new to everybody.
LEMMA NumberOrderKeepsInv ==
    ASSUME ExchangeInv, NEW h \in Handler, NumberOrder(h)
    PROVE  ExchangeInv'
<1> DEFINE n == order_counter + 1
<1>1. /\ phase[h] = "have_book" /\ req[h].kind = "submit"
      /\ order_counter' = n
      /\ req' = [req EXCEPT ![h].id = n]
      /\ phase' = [phase EXCEPT ![h] = "add"]
      /\ UNCHANGED <<bookVars, indexVars, books, ptr, leaves, todo, seen, executed>>
  BY DEF NumberOrder, Incremented
<1>2. BookInv /\ ControlInv /\ AccountInv /\ TypeOK /\ LocalsType /\ PhaseInv
  BY DEF ExchangeInv, ControlInv
<1>3. UNCHANGED <<acked, order_index, index, node, fills, pc, taker, asked>>
  BY <1>1 DEF indexVars, bookVars
<1>4. order_counter \in Nat /\ n \in Nat /\ MaxOrders \in Nat
  BY <1>2, BoundsAssumption DEF TypeOK
<1> HIDE DEF n
<1>5. h \in Unnumbered /\ Looking(h)
  <2>1. Looking(h)
    BY <1>1 DEF Looking
  <2> QED
    BY <1>1, <1>2, <2>1, UnnumberedAre
<1>6. req[h] \in SubmitRecord({0})
  BY <1>1, <1>2, <1>5 DEF PhaseInv, CancelRecord
<1>7. /\ phase'[h] = "add" /\ req'[h] = [req[h] EXCEPT !.id = n]
      /\ \A g \in Handler : g # h => phase'[g] = phase[g] /\ req'[g] = req[g]
  BY <1>1, <1>2 DEF TypeOK, LocalsType
<1>8. req'[h] \in SubmitRecord({n}) /\ req'[h].id = n /\ req'[h].kind = "submit"
  <2>1. req'[h] \in SubmitRecord({n})
    BY <1>6, <1>7 DEF SubmitRecord
  <2> QED
    BY <2>1, SubmitRecordFacts
<1>9. RoomLeft' /\ n <= MaxOrders
  <2>1. Unnumbered' = Unnumbered \ {h}
    <3>1. h \notin Unnumbered'
      BY <1>4, <1>8 DEF Unnumbered, n
    <3>2. \A g \in Handler : g # h => (g \in Unnumbered' <=> g \in Unnumbered)
      BY <1>7 DEF Unnumbered
    <3>3. Unnumbered \subseteq Handler /\ Unnumbered' \subseteq Handler
      BY DEF Unnumbered
    <3> QED
      BY <3>1, <3>2, <3>3
  <2>2. IsFiniteSet(Unnumbered) /\ Cardinality(Unnumbered) \in Nat
    BY <1>2, UnnumberedAre
  <2>3. Cardinality(Unnumbered') = Cardinality(Unnumbered) - 1
    BY <1>5, <2>1, <2>2, FS_RemoveElement
  <2>4. IsFiniteSet(Unnumbered') /\ Cardinality(Unnumbered') \in Nat
    BY <2>1, <2>2, FS_RemoveElement, FS_CardinalityType
  <2>5. order_counter + Cardinality(Unnumbered) <= MaxOrders
    BY <1>2 DEF ControlInv, RoomLeft
  <2> QED
    BY <1>1, <1>4, <2>2, <2>3, <2>4, <2>5 DEF RoomLeft, n
<1>10. n \in OrderId
  BY <1>4, <1>9 DEF OrderId, n
<1>11. req'[h] \in SubmitRecord(OrderId)
  BY <1>8, <1>10 DEF SubmitRecord
<1>12. /\ \A g \in Handler : Cancelling(g)' <=> Cancelling(g)
       /\ \A g \in Handler : Cancelling(g) => g # h /\ req'[g] = req[g]
       /\ ~ Submitting(h)
  <2>1. ~ Cancelling(h) /\ ~ Cancelling(h)' /\ ~ Submitting(h)
    BY <1>1, <1>7 DEF Cancelling, Looking, Submitting
  <2> QED
    BY <1>7, <2>1 DEF Cancelling, Looking
<1>13. BookInv'
  BY <1>1, <1>2, BookUnchangedInv
<1>14. TypeOK' /\ OneBook'
  BY <1>1, <1>2, <1>3, <1>4, <1>9 DEF ControlInv, TypeOK, OneBook, n
<1>15. LocalsType'
  BY <1>1, <1>2, <1>3, <1>7, <1>11 DEF LocalsType
<1>16. PhaseInv'
  <2> SUFFICES ASSUME NEW g \in Handler
      PROVE  /\ Looking(g)' => req'[g] \in SubmitRecord({0}) \cup CancelRecord
             /\ Submitting(g)' => req'[g] \in SubmitRecord(OrderId) /\ req'[g].id <= order_counter'
             /\ phase'[g] = "untrack" => req'[g] \in CancelRecord
             /\ Cancelling(g)' => seen'[g] \in Tracker
             /\ phase'[g] # "update_makers" => todo'[g] = <<>>
             /\ DistinctMakers(todo'[g])
    BY DEF PhaseInv
  <2>1. CASE g = h
    BY <1>1, <1>2, <1>4, <1>7, <1>8, <1>11, <1>12, <2>1 DEF PhaseInv, Looking, Cancelling, Submitting
  <2>2. CASE g # h
    <3>1. Submitting(g) => req[g].id <= order_counter /\ req[g].id \in OrderId
      BY <1>2, SubmitRecordFacts DEF PhaseInv
    <3>2. Submitting(g) => req[g].id <= n
      BY <1>4, <3>1 DEF n, OrderId
    <3> QED
      BY <1>1, <1>2, <1>7, <1>12, <2>2, <3>2 DEF PhaseInv, Looking, Submitting
  <2> QED
    BY <2>1, <2>2
<1>17. DistinctIds'
  <2>1. \A g \in Handler : Submitting(g) => req[g].id # n
    <3> TAKE g \in Handler
    <3>1. Submitting(g) => req[g].id <= order_counter /\ req[g].id \in OrderId
      BY <1>2, SubmitRecordFacts DEF PhaseInv
    <3> QED
      BY <1>4, <3>1 DEF n, OrderId
  <2>2. \A g \in Handler : g # h => (Submitting(g)' <=> Submitting(g))
    BY <1>7 DEF Submitting
  <2> SUFFICES ASSUME NEW f \in Handler, NEW g \in Handler,
                      Submitting(f)', Submitting(g)', req'[f].id = req'[g].id
               PROVE  f = g
    BY DEF DistinctIds
  <2>3. CASE f # h /\ g # h
    BY <1>2, <1>7, <2>2, <2>3 DEF ControlInv, DistinctIds
  <2>4. CASE f = h \/ g = h
    BY <1>7, <1>8, <2>1, <2>2, <2>4
  <2> QED
    BY <2>3, <2>4
<1>18. MatchInv'
  BY <1>1, <1>2, <1>3, <1>7 DEF ControlInv, MatchInv
<1>19. \A i : \A g \in Handler : Debt(g, i)' = Debt(g, i)
  BY <1>1, <1>3, <1>7 DEF Debt
<1>20. \A i : Pending(i)' = Pending(i)
  BY <1>19, DebtsKept
<1>21. \A i : Unused(i)' <=> Unused(i)
  BY <1>3, <1>12, <1>19 DEF Unused
<1>22. FreshInv'
  <2>1. \A i \in OrderId : i > n => i > order_counter
    BY <1>4 DEF n, OrderId
  <2>2. n > order_counter
    BY <1>4 DEF n
  <2> QED
    BY <1>1, <1>2, <1>7, <1>8, <1>10, <1>21, <2>1, <2>2 DEF AccountInv, FreshInv
<1>23. TrackerInv' /\ RestInv'
  BY <1>1, <1>2, <1>3, <1>20 DEF AccountInv, TrackerInv, RestInv, Accounts
<1>24. SubmitInv'
  BY <1>1, <1>2, <1>3, <1>7, <1>20 DEF AccountInv, SubmitInv, Accounts
<1>25. CancelInv'
  BY <1>1, <1>2, <1>3, <1>7, <1>12 DEF AccountInv, CancelInv, Accounts
<1>26. AckInv'
  BY <1>2, <1>3, <1>7 DEF AccountInv, AckInv
<1>27. RestingIsTracked'
  <2>1. \A i \in OrderId : Served(i) => Served(i)'
    BY <1>1, <1>7 DEF Served
  <2> QED
    BY <1>2, <1>3, <2>1 DEF AccountInv, RestingIsTracked
<1> QED
  BY <1>9, <1>13, <1>14, <1>15, <1>16, <1>17, <1>18, <1>22, <1>23, <1>24, <1>25, <1>26, <1>27
     DEF ExchangeInv, ControlInv, AccountInv

-----------------------------------------------------------------------------
(* The match                                                               *)

\* add_order takes the mutex: its fills are none, and nothing has changed for
\* anybody else.
LEMMA StartMatchKeepsInv ==
    ASSUME ExchangeInv, NEW h \in Handler, StartMatch(h)
    PROVE  ExchangeInv'
<1>1. /\ phase[h] = "add"
      /\ BP!AddOrder(OrderOf(req[h]))
      /\ phase' = [phase EXCEPT ![h] = "matching"]
      /\ UNCHANGED <<indexVars, order_counter, books, req, ptr, leaves, todo, seen, executed>>
  BY BookAddOrder DEF StartMatch
<1>2. BookInv /\ ControlInv /\ AccountInv /\ TypeOK /\ PhaseInv
  BY DEF ExchangeInv, ControlInv
<1>3. req[h] \in SubmitRecord(OrderId) /\ req[h].id \in OrderId /\ req[h].quantity \in 1..MaxQty
  <2>1. req[h] \in SubmitRecord(OrderId)
    BY <1>1, <1>2 DEF PhaseInv, Submitting
  <2> QED
    BY <2>1, SubmitRecordFacts
<1>4. /\ OrderOf(req[h]) \in BP!Request
      /\ OrderOf(req[h]).id = req[h].id /\ OrderOf(req[h]).type = req[h].type
      /\ OrderOf(req[h]).quantity = req[h].quantity
  BY <1>3, OrderOfRecord
<1>5. /\ pc = "idle" /\ pc' = "outer" /\ taker' = OrderOf(req[h]) /\ fills' = <<>>
      /\ asked' = req[h].quantity
      /\ UNCHANGED <<index, node>>
  BY <1>1, <1>4 DEF BP!AddOrder, BP!book
<1>6. UNCHANGED <<acked, order_index>>
  BY <1>1 DEF indexVars
<1>7. /\ phase'[h] = "matching"
      /\ \A g \in Handler : g # h => phase'[g] = phase[g]
      /\ \A g \in Handler : phase[g] # "matching"
  BY <1>1, <1>2, <1>5 DEF ControlInv, MatchInv, TypeOK
<1>8. /\ \A g \in Handler : Submitting(g)' <=> Submitting(g)
      /\ \A g \in Handler : Cancelling(g)' <=> Cancelling(g)
      /\ \A g \in Handler : Looking(g)' <=> Looking(g)
  BY <1>1, <1>7 DEF Submitting, Cancelling, Looking
<1>9. BookInv'
  <2>1. BP!Next
    BY <1>1, <1>4 DEF BP!Next
  <2> QED
    BY <1>2, <2>1, BookStepInv
<1>10. TypeOK' /\ OneBook'
  BY <1>1, <1>2, <1>6 DEF ControlInv, TypeOK, OneBook
<1>11. LocalsType' /\ DistinctIds'
  BY <1>1, <1>2, <1>6, <1>8 DEF ControlInv, LocalsType, DistinctIds
<1>12. PhaseInv'
  BY <1>1, <1>2, <1>7, <1>8 DEF PhaseInv
<1>13. RoomLeft'
  <2>1. Unnumbered' = Unnumbered
    BY <1>1, <1>7 DEF Unnumbered
  <2> QED
    BY <1>1, <1>2, <2>1 DEF ControlInv, RoomLeft
<1>14. MatchInv'
  <2>1. executed'[req[h].id] = 0
    BY <1>1, <1>2 DEF AccountInv, FreshInv
  <2>2. 0 + req[h].quantity = req[h].quantity
    BY <1>3
  <2> QED
    BY <1>1, <1>4, <1>5, <1>7, <2>1, <2>2 DEF MatchInv
<1>15. \A i : \A g \in Handler : Debt(g, i)' = Debt(g, i)
  <2>1. todo[h] = <<>>
    BY <1>1, <1>2 DEF PhaseInv
  <2> QED
    BY <1>1, <1>5, <1>7, <2>1 DEF Debt
<1>16. \A i : Pending(i)' = Pending(i)
  BY <1>15, DebtsKept
<1>17. \A i : Unused(i)' <=> Unused(i)
  BY <1>1, <1>5, <1>6, <1>8, <1>15 DEF Unused
<1>18. FreshInv'
  BY <1>1, <1>2, <1>7, <1>17 DEF AccountInv, FreshInv
<1>19. TrackerInv' /\ RestInv'
  BY <1>1, <1>2, <1>5, <1>6, <1>16 DEF AccountInv, TrackerInv, RestInv, Accounts
<1>20. SubmitInv'
  BY <1>1, <1>2, <1>5, <1>7, <1>16 DEF AccountInv, SubmitInv, Accounts
<1>21. CancelInv'
  BY <1>1, <1>2, <1>5, <1>7, <1>8 DEF AccountInv, CancelInv, Accounts
<1>22. AckInv'
  BY <1>1, <1>2, <1>5, <1>6, <1>7 DEF AccountInv, AckInv
<1>23. RestingIsTracked'
  <2>1. \A i \in OrderId : Served(i) => Served(i)'
    BY <1>1, <1>7 DEF Served
  <2> QED
    BY <1>2, <1>5, <1>6, <2>1 DEF AccountInv, RestingIsTracked
<1> QED
  BY <1>9, <1>10, <1>11, <1>12, <1>13, <1>14, <1>18, <1>19, <1>20, <1>21, <1>22, <1>23
     DEF ExchangeInv, ControlInv, AccountInv

\* The walk from level to level touches no order.
LEMMA WalkKeepsInv ==
    ASSUME ExchangeInv, NEW h \in Handler, phase[h] = "matching",
           BP!EnterLevel \/ BP!LeaveLevel,
           UNCHANGED <<executed, indexVars, order_counter, books, handlerVars>>
    PROVE  ExchangeInv'
<1>1. /\ UNCHANGED <<index, node, fills, taker, asked>>
      /\ pc # "idle" /\ pc' # "idle"
  BY DEF BP!EnterLevel, BP!LeaveLevel, BP!AtMaker, BP!book
<1>2. UNCHANGED <<acked, order_index, phase, req, ptr, leaves, todo, seen, executed, order_counter, books>>
  BY DEF indexVars, handlerVars
<1>3. BookInv /\ ControlInv /\ AccountInv
  BY DEF ExchangeInv
<1>4. BookInv'
  BY <1>3, BookStepInv DEF BP!Next, BP!MatchStep
<1>5. TypeOK' /\ OneBook' /\ LocalsType'
  BY <1>2, <1>3 DEF ControlInv, TypeOK, OneBook, LocalsType
<1>6. PhaseInv' /\ DistinctIds'
  BY <1>2, <1>3 DEF ControlInv, PhaseInv, DistinctIds, Looking, Submitting, Cancelling
<1>7. RoomLeft'
  BY <1>2, <1>3 DEF ControlInv, RoomLeft, Unnumbered
<1>8. MatchInv'
  BY <1>1, <1>2, <1>3 DEF ControlInv, MatchInv
<1>9. \A i : \A g \in Handler : Debt(g, i)' = Debt(g, i)
  BY <1>1, <1>2 DEF Debt
<1>10. \A i : Pending(i)' = Pending(i)
  BY <1>9, DebtsKept
<1>11. /\ \A i : Unused(i)' <=> Unused(i)
       /\ \A g \in Handler : Cancelling(g)' <=> Cancelling(g)
  BY <1>1, <1>2, <1>9 DEF Unused, Cancelling, Looking
<1>12. FreshInv' /\ TrackerInv' /\ SubmitInv'
  BY <1>1, <1>2, <1>3, <1>10, <1>11 DEF AccountInv, FreshInv, TrackerInv, SubmitInv, Accounts
<1>13. CancelInv' /\ RestInv' /\ AckInv' /\ RestingIsTracked'
  BY <1>1, <1>2, <1>3, <1>11
     DEF AccountInv, CancelInv, RestInv, AckInv, RestingIsTracked, Served, Accounts
<1> QED
  BY <1>4, <1>5, <1>6, <1>7, <1>8, <1>12, <1>13 DEF ExchangeInv, ControlInv, AccountInv

\* A fill: what is executed of the maker and of the taker grows by what is left
\* of them shrinks by, and the handler owes it to the maker's tracker.
LEMMA FillKeepsInv ==
    ASSUME ExchangeInv, NEW h \in Handler, phase[h] = "matching",
           BP!FillMaker,
           executed' = IF fills' = fills THEN executed ELSE Count(Last(fills')),
           UNCHANGED <<indexVars, order_counter, books, handlerVars>>
    PROVE  ExchangeInv'
<1>1. UNCHANGED <<acked, order_index, phase, req, ptr, leaves, todo, seen, order_counter, books>>
  BY DEF indexVars, handlerVars
<1>2. BookInv /\ ControlInv /\ AccountInv /\ TypeOK /\ PhaseInv /\ MatchInv /\ BP!IInv /\ BP!FillInv
  BY DEF ExchangeInv, ControlInv, BookInv
<1>3. BookInv'
  BY <1>2, BookStepInv DEF BP!Next, BP!MatchStep
<1>4. PICK t \in OrderId : t = req[h].id /\ t = taker.id /\ t <= order_counter
  <2>1. req[h] \in SubmitRecord(OrderId) /\ req[h].id <= order_counter
    BY <1>2 DEF PhaseInv, Submitting
  <2>2. req[h].id \in OrderId
    BY <2>1, SubmitRecordFacts
  <2>3. req[h].id = taker.id
    BY <1>2 DEF MatchInv
  <2> QED
    BY <2>1, <2>2, <2>3
<1>5. Unused(t)
  BY <1>2, <1>4 DEF AccountInv, FreshInv
<1>6. PICK m \in OrderId, q \in 1..MaxQty, f \in BP!FillRecord :
         /\ m = BP!maker
         /\ f.maker = m /\ f.taker = t /\ f.quantity = q
         /\ fills' = Append(fills, f)
         /\ taker.quantity \in 1..MaxQty
         /\ taker' = [taker EXCEPT !.quantity = taker.quantity - q]
         /\ taker'.quantity = taker.quantity - q
         /\ pc = "inner" /\ pc' = "inner" /\ asked' = asked
         /\ q = BP!Least(taker.quantity, node[m].quantity)
  <2>1. LET r == BP!Least(taker.quantity, node[BP!maker].quantity)
            e == BP!FillOf(BP!maker, r)
        IN  /\ fills' = Append(fills, e) /\ e \in BP!FillRecord
            /\ r \in 1..MaxQty
            /\ taker' = [taker EXCEPT !.quantity = taker.quantity - r]
            /\ taker'.quantity = taker.quantity - r
            /\ taker.quantity \in 1..MaxQty
            /\ pc = "inner" /\ pc' = "inner" /\ asked' = asked
            /\ BP!maker \in OrderId
    BY <1>2, BP!FillMakerFacts, BookAssumptions
  <2>2. \A r : LET e == BP!FillOf(BP!maker, r)
               IN  e.maker = BP!maker /\ e.taker = taker.id /\ e.quantity = r
    BY DEF BP!FillOf
  <2> QED
    BY <1>4, <2>1, <2>2
<1>7. /\ index[m] # NoLocation /\ node[m].quantity \in 1..MaxQty
      /\ node[m] \in BP!RestingOrder
  <2>1. BP!AtMaker
    BY DEF BP!FillMaker
  <2>2. index[m] # NoLocation /\ node[m] \in BP!RestingOrder
    BY <1>2, <1>6, <2>1, BP!MakerFacts, BookAssumptions
  <2> QED
    BY <2>2 DEF BP!RestingOrder
<1>8. m # t
  BY <1>5, <1>7 DEF Unused
<1>9. /\ \A i \in OrderId : i # m => index'[i] = index[i] /\ node'[i] = node[i]
      /\ \/ index'[m] = NoLocation
         \/ index'[m] = index[m] /\ node'[m].quantity = node[m].quantity - q
  <2>1. /\ node \in [OrderId -> BP!RestingOrder \cup {NoOrder}]
        /\ index \in [OrderId -> BP!Location \cup {NoLocation}]
    BY <1>2 DEF BP!IInv, BP!TypeOK
  <2>2. IF node[m].quantity = q
        THEN node' = [node EXCEPT ![m] = NoOrder] /\ index' = [index EXCEPT ![m] = NoLocation]
        ELSE node' = [node EXCEPT ![m].quantity = @ - q] /\ index' = index
    BY <1>6 DEF BP!FillMaker
  <2>3. CASE node[m].quantity = q
    BY <2>1, <2>2, <2>3
  <2>4. CASE node[m].quantity # q
    <3>1. node'[m] = [node[m] EXCEPT !.quantity = node[m].quantity - q]
      BY <2>1, <2>2, <2>4
    <3>2. node'[m].quantity = node[m].quantity - q
      BY <1>7, <3>1 DEF BP!RestingOrder
    <3> QED
      BY <2>1, <2>2, <2>4, <3>2
  <2> QED
    BY <2>3, <2>4
<1>10. q <= node[m].quantity /\ q <= taker.quantity
  BY <1>6, <1>7 DEF BP!Least
<1>11. fills \in Seq(BP!FillRecord) /\ DistinctMakers(fills)
  BY <1>2, FillsOfCall
<1>12. DistinctMakers(fills')
  <2>1. fills' \in Seq(BP!FillRecord) /\ BP!FillsAddUp'
    BY <1>3 DEF BookInv, BP!FillInv
  <2>2. DOMAIN fills' = 1..Len(fills')
    BY <2>1
  <2> QED
    BY <1>6, <2>1, <2>2 DEF BP!FillsAddUp, DistinctMakers
<1>13. executed \in [OrderId -> 0..MaxQty] /\ MaxQty \in Nat
  BY <1>2, BoundsAssumption DEF TypeOK
<1>14. executed' = [executed EXCEPT ![m] = @ + q, ![t] = @ + q]
  <2>1. Len(fills') = Len(fills) + 1 /\ fills'[Len(fills) + 1] = f /\ Len(fills) \in Nat
    BY <1>6, <1>11, AppendProperties
  <2>2. fills' # fills /\ Last(fills') = f
    BY <2>1 DEF Last
  <2> QED
    BY <1>6, <2>2 DEF Count
<1>15. /\ executed'[m] = executed[m] + q /\ executed'[t] = executed[t] + q
       /\ \A i \in OrderId : i # m /\ i # t => executed'[i] = executed[i]
  BY <1>8, <1>13, <1>14
<1>16. executed[t] + taker.quantity = req[h].quantity /\ req[h].quantity \in 1..MaxQty
  <2>1. req[h] \in SubmitRecord(OrderId)
    BY <1>2 DEF PhaseInv, Submitting
  <2> QED
    BY <1>2, <1>4, <2>1, SubmitRecordFacts DEF MatchInv
<1>17. executed' \in [OrderId -> 0..MaxQty]
  <2>1. executed[m] + node[m].quantity <= MaxQty
    BY <1>2, <1>7 DEF AccountInv, RestInv
  <2>2. executed'[m] \in 0..MaxQty
    BY <1>7, <1>10, <1>13, <1>15, <2>1
  <2>3. executed'[t] \in 0..MaxQty
    BY <1>6, <1>10, <1>13, <1>15, <1>16
  <2>4. \A i \in OrderId : executed'[i] \in 0..MaxQty
    BY <1>13, <1>15, <2>2, <2>3
  <2> QED
    BY <1>13, <1>14, <2>4
<1>18. TypeOK' /\ OneBook' /\ LocalsType' /\ PhaseInv'
  BY <1>1, <1>2, <1>17
     DEF ControlInv, TypeOK, OneBook, LocalsType, PhaseInv, Looking, Submitting, Cancelling
<1>19. DistinctIds' /\ RoomLeft'
  BY <1>1, <1>2 DEF ControlInv, DistinctIds, Submitting, RoomLeft, Unnumbered
<1>20. MatchInv'
  <2>1. taker' = [taker EXCEPT !.quantity = taker.quantity - q] /\ taker \in BP!Request
    BY <1>2, <1>6 DEF BP!IInv, BP!TypeOK
  <2>2. taker'.id = taker.id /\ taker'.type = taker.type
    BY <2>1 DEF BP!Request
  <2>3. executed'[t] + taker'.quantity = req[h].quantity
    BY <1>6, <1>13, <1>15, <1>16
  <2>4. \A g \in Handler : phase[g] = "matching" => g = h
    BY <1>2 DEF MatchInv
  <2> QED
    BY <1>1, <1>2, <1>4, <1>6, <2>2, <2>3, <2>4 DEF MatchInv
<1>21. /\ \A g \in Handler : \A i : g # h \/ i # m => Debt(g, i)' = Debt(g, i)
       /\ Debt(h, m) = 0 /\ Debt(h, m)' = q
  <2>1. /\ Owed(fills, m) = 0 /\ Owed(fills', m) = q
        /\ \A i : i # m => Owed(fills', i) = Owed(fills, i)
    BY <1>6, <1>11, <1>12, OwedAppend
  <2>2. \A g \in Handler : g # h => phase[g] # "matching"
    BY <1>2 DEF MatchInv
  <2> QED
    BY <1>1, <2>1, <2>2 DEF Debt
<1>22. \A i : i # m => Pending(i)' = Pending(i)
  BY <1>21, DebtsKept
<1>23. Pending(m)' = Pending(m) + q /\ Pending(m) \in Nat
  <2>1. Debts(m) \in [Handler -> Nat] /\ Pending(m) \in Nat
    BY <1>2, PendingType
  <2>2. Debts(m)' = [Debts(m) EXCEPT ![h] = q]
    <3>1. \A g \in Handler : Debt(g, m)' = IF g = h THEN q ELSE Debt(g, m)
      BY <1>21
    <3>2. Debts(m)' = [g \in Handler |-> Debt(g, m)']
      BY DEF Debts
    <3>3. Debts(m) = [g \in Handler |-> Debt(g, m)]
      BY DEF Debts
    <3>4. [Debts(m) EXCEPT ![h] = q] = [g \in Handler |-> IF g = h THEN q ELSE Debt(g, m)]
      BY <3>3
    <3> QED
      BY <3>1, <3>2, <3>4
  <2>3. Debts(m)[h] = 0
    BY <1>21 DEF Debts
  <2>4. SumOfHandlers([Debts(m) EXCEPT ![h] = q]) = SumOfHandlers(Debts(m)) - Debts(m)[h] + q
    <3>1. q \in Nat
      BY <1>13
    <3> QED
      BY <2>1, <3>1, SumOfHandlersChange
  <2> QED
    BY <2>1, <2>2, <2>3, <2>4 DEF Pending
<1>24. \A i \in OrderId : Pending(i) \in Nat
  BY <1>2, PendingType
<1>25. ASSUME NEW i \in OrderId, i # t, NEW o \in Int, NEW r \in Int, Accounts(i, o, r, Pending(i))
       PROVE  Accounts(i, o, r, Pending(i))'
  <2>1. CASE i = m
    <3>1. o - r + Pending(i)' <= executed'[i]
      BY <1>13, <1>15, <1>23, <1>25, <2>1 DEF Accounts
    <3>2. index'[i] # NoLocation => executed'[i] + node'[i].quantity = o
      BY <1>7, <1>9, <1>13, <1>15, <1>25, <2>1 DEF Accounts
    <3> QED
      BY <3>1, <3>2 DEF Accounts
  <2>2. CASE i # m
    BY <1>9, <1>15, <1>22, <1>25, <2>2 DEF Accounts
  <2> QED
    BY <2>1, <2>2
<1>26. TrackerInv'
  <2> SUFFICES ASSUME NEW i \in OrderId, order_index[i] # NoTracker
               PROVE  Accounts(i, order_index[i].orig, order_index[i].remaining, Pending(i))'
    BY <1>1 DEF TrackerInv
  <2>1. i # t
    BY <1>5 DEF Unused
  <2>2. PICK o \in Int, r \in Int : o = order_index[i].orig /\ r = order_index[i].remaining
    <3>1. order_index[i] \in Tracker
      BY <1>2 DEF TypeOK
    <3> QED
      BY <3>1 DEF Tracker
  <2>3. Accounts(i, o, r, Pending(i))
    BY <1>2, <2>2 DEF AccountInv, TrackerInv
  <2>4. Accounts(i, o, r, Pending(i))'
    BY <1>25, <2>1, <2>3
  <2> QED
    BY <1>1, <2>2, <2>4
<1>27. SubmitInv'
  <2> SUFFICES ASSUME NEW g \in Handler, phase[g] = "update_makers"
               PROVE  /\ Accounts(req[g].id, req[g].quantity, leaves[g], Pending(req[g].id))'
                      /\ index'[req[g].id] # NoLocation => req[g].type = "limit"
    BY <1>1 DEF SubmitInv
  <2>1. req[g].id # t
    BY <1>2, <1>4 DEF ControlInv, DistinctIds, Submitting
  <2>2. req[g] \in SubmitRecord(OrderId)
    BY <1>2 DEF PhaseInv, Submitting
  <2>3. req[g].id \in OrderId /\ req[g].quantity \in 1..MaxQty /\ leaves[g] \in 0..MaxQty
    BY <1>2, <2>2, SubmitRecordFacts DEF TypeOK
  <2>4. PICK i \in OrderId, o \in Int, r \in Int :
           i = req[g].id /\ o = req[g].quantity /\ r = leaves[g]
    BY <2>3
  <2>5. Accounts(i, o, r, Pending(i)) /\ (index[i] # NoLocation => req[g].type = "limit")
    BY <1>2, <2>4 DEF AccountInv, SubmitInv
  <2>6. Accounts(i, o, r, Pending(i))'
    BY <1>25, <2>1, <2>4, <2>5
  <2>7. index'[i] # NoLocation => index[i] # NoLocation
    BY <1>7, <1>9
  <2> QED
    BY <1>1, <2>4, <2>5, <2>6, <2>7
<1>28. CancelInv'
  <2> SUFFICES ASSUME NEW g \in Handler, Cancelling(g)
      PROVE  /\ Accounts(req[g].id, seen[g].orig, seen[g].remaining, 0)'
             /\ phase[g] = "untrack" =>
                   index'[req[g].id] = NoLocation /\ executed'[req[g].id] < seen[g].orig
    BY <1>1 DEF CancelInv, Cancelling, Looking
  <2>1. req[g].id # t
    BY <1>5 DEF Unused
  <2>2. req[g] \in CancelRecord
    BY <1>2 DEF PhaseInv, Cancelling, Looking, CancelRecord, SubmitRecord
  <2>3. seen[g] \in Tracker
    BY <1>2 DEF PhaseInv
  <2>4. PICK i \in OrderId, o \in Int, r \in Int :
           i = req[g].id /\ o = seen[g].orig /\ r = seen[g].remaining
    BY <2>2, <2>3 DEF Tracker, CancelRecord
  <2>5. /\ Accounts(i, o, r, 0)
        /\ phase[g] = "untrack" => index[i] = NoLocation /\ executed[i] < o
    BY <1>2, <2>4 DEF AccountInv, CancelInv
  <2>6. o - r + 0 <= executed'[i]
    BY <1>13, <1>15, <2>1, <2>4, <2>5 DEF Accounts
  <2>7. index'[i] # NoLocation => executed'[i] + node'[i].quantity = o
    BY <1>7, <1>9, <1>13, <1>15, <2>1, <2>4, <2>5 DEF Accounts
  <2>8. phase[g] = "untrack" => index'[i] = NoLocation /\ executed'[i] < o
    BY <1>7, <1>9, <1>15, <2>1, <2>4, <2>5
  <2> QED
    BY <1>1, <2>4, <2>6, <2>7, <2>8 DEF Accounts
<1>29. RestInv'
  <2> SUFFICES ASSUME NEW i \in OrderId, index'[i] # NoLocation
               PROVE  executed'[i] + node'[i].quantity <= MaxQty
    BY DEF RestInv
  <2>1. index[i] # NoLocation
    BY <1>7, <1>9
  <2>2. executed[i] + node[i].quantity <= MaxQty /\ i # t
    BY <1>2, <1>5, <2>1 DEF AccountInv, RestInv, Unused
  <2> QED
    BY <1>7, <1>9, <1>13, <1>15, <2>2
<1>30. AckInv' /\ RestingIsTracked'
  <2>1. \A i \in OrderId : index[i] = NoLocation => index'[i] = NoLocation
    BY <1>7, <1>9
  <2> QED
    BY <1>1, <1>2, <2>1 DEF AccountInv, AckInv, RestingIsTracked, Served
<1>31. ASSUME NEW i \in OrderId, Unused(i)
       PROVE  Unused(i)' /\ (i # t => executed'[i] = executed[i])
  <2>1. i # m
    BY <1>7, <1>31 DEF Unused
  <2>2. \A g \in Handler : Cancelling(g)' <=> Cancelling(g)
    BY <1>1 DEF Cancelling, Looking
  <2> QED
    BY <1>1, <1>9, <1>15, <1>21, <1>31, <2>1, <2>2 DEF Unused
<1>32. FreshInv'
  <2>1. \A i \in OrderId : i > order_counter => i # t
    BY <1>2, <1>4 DEF TypeOK, OrderId
  <2>2. \A g \in Handler : phase[g] = "add" => req[g].id # t
    BY <1>2, <1>4 DEF ControlInv, DistinctIds, Submitting
  <2>3. \A g \in Handler : phase[g] \in {"add", "matching"} => req[g].id \in OrderId
    BY <1>2, SubmitRecordFacts DEF PhaseInv, Submitting
  <2>4. \A g \in Handler : phase'[g] \in {"add", "matching"} => Unused(req[g].id)'
    <3> SUFFICES ASSUME NEW g \in Handler, phase[g] \in {"add", "matching"}
                 PROVE  Unused(req[g].id)'
      BY <1>1
    <3>1. PICK i \in OrderId : i = req[g].id
      BY <2>3
    <3>2. Unused(i)
      BY <1>2, <3>1 DEF AccountInv, FreshInv
    <3>3. Unused(i)'
      BY <1>31, <3>2
    <3> QED
      BY <1>1, <3>1, <3>3
  <2>5. \A g \in Handler : phase'[g] = "add" => executed'[req'[g].id] = 0
    <3> SUFFICES ASSUME NEW g \in Handler, phase[g] = "add"
                 PROVE  executed'[req[g].id] = 0
      BY <1>1
    <3>1. Unused(req[g].id) /\ executed[req[g].id] = 0
      BY <1>2 DEF AccountInv, FreshInv
    <3> QED
      BY <1>31, <2>2, <2>3, <3>1
  <2>6. \A i \in OrderId : i > order_counter' => Unused(i)' /\ executed'[i] = 0
    BY <1>1, <1>2, <1>31, <2>1 DEF AccountInv, FreshInv
  <2> QED
    BY <1>1, <2>4, <2>5, <2>6 DEF FreshInv
<1> QED
  BY <1>3, <1>18, <1>19, <1>20, <1>26, <1>27, <1>28, <1>29, <1>30, <1>32
     DEF ExchangeInv, ControlInv, AccountInv

\* What the handler takes for its leaves is what the taker has left.
LEMMA LeavesOfMatch ==
    ASSUME BookInv, ControlInv, NEW h \in Handler, phase[h] = "matching"
    PROVE  /\ req[h].quantity - Book!FilledTotal = taker.quantity
           /\ taker.quantity \in 0..MaxQty
<1>1. /\ pc # "idle" /\ fills \in Seq(BP!FillRecord) /\ BP!FillsAddUp
      /\ asked = req[h].quantity /\ BP!TypeOK
  BY DEF BookInv, BP!FillInv, BP!IInv, ControlInv, MatchInv
<1>2. taker \in BP!Request
  BY <1>1 DEF BP!TypeOK
<1>3. taker.quantity \in 0..MaxQty /\ MaxQty \in Nat
  BY <1>2, BoundsAssumption DEF BP!Request
<1>4. asked = taker.quantity + BP!FilledTotal
  BY <1>1 DEF BP!FillsAddUp
<1>5. BP!FilledTotal \in Int
  <2>1. BP!Filled(fills) \in Int
    BY <1>1, BP!FilledType, BookAssumptions
  <2> QED
    BY <2>1 DEF BP!Filled, BP!FilledTotal
<1> QED
  BY <1>1, <1>3, <1>4, <1>5, BookFilledTotal

\* The call returns: the handler has the fills, and the remainder of a limit
\* order rests; nobody but the handler knows that order yet.
LEMMA FinishMatchKeepsInv ==
    ASSUME ExchangeInv, NEW h \in Handler, FinishMatch(h)
    PROVE  ExchangeInv'
<1>1. /\ phase[h] = "matching"
      /\ BP!RestRemainder \/ BP!ReturnFills
      /\ todo' = [todo EXCEPT ![h] = fills]
      /\ leaves' = [leaves EXCEPT ![h] = req[h].quantity - Book!FilledTotal]
      /\ phase' = [phase EXCEPT ![h] = "update_makers"]
      /\ UNCHANGED <<indexVars, order_counter, books, req, ptr, seen, executed>>
  BY BookRestRemainder, BookReturnFills DEF FinishMatch
<1>2. BookInv /\ ControlInv /\ AccountInv /\ TypeOK /\ LocalsType /\ PhaseInv /\ MatchInv
  BY DEF ExchangeInv, ControlInv
<1>3. UNCHANGED <<acked, order_index>>
  BY <1>1 DEF indexVars
<1>4. BookInv'
  BY <1>1, <1>2, BookStepInv DEF BP!Next, BP!MatchStep
<1>5. /\ taker.id = req[h].id /\ taker.type = req[h].type
      /\ executed[req[h].id] + taker.quantity = req[h].quantity
      /\ pc # "idle"
  BY <1>1, <1>2 DEF MatchInv
<1>6. req[h] \in SubmitRecord(OrderId) /\ req[h].quantity \in 1..MaxQty
  <2>1. req[h] \in SubmitRecord(OrderId)
    BY <1>1, <1>2 DEF PhaseInv, Submitting
  <2> QED
    BY <2>1, SubmitRecordFacts
<1>7. PICK t \in OrderId : t = req[h].id /\ t <= order_counter
  <2>1. req[h].id <= order_counter /\ req[h].id \in OrderId
    BY <1>1, <1>2, <1>6, SubmitRecordFacts DEF PhaseInv, Submitting
  <2> QED
    BY <2>1
<1>8. Unused(t)
  BY <1>1, <1>2, <1>7 DEF AccountInv, FreshInv
<1>9. taker.quantity \in 0..MaxQty /\ leaves' = [leaves EXCEPT ![h] = taker.quantity]
  BY <1>1, <1>2, LeavesOfMatch
<1>10. pc' = "idle"
  BY <1>1 DEF BP!RestRemainder, BP!ReturnFills, BP!EndCall
<1>11. /\ \A i \in OrderId : i # t => index'[i] = index[i] /\ node'[i] = node[i]
       /\ \/ index'[t] = NoLocation
          \/ node'[t].quantity = taker.quantity /\ req[h].type = "limit" /\ taker.quantity > 0
  <2>1. /\ node \in [OrderId -> BP!RestingOrder \cup {NoOrder}]
        /\ index \in [OrderId -> BP!Location \cup {NoLocation}]
    BY <1>2 DEF BookInv, BP!IInv, BP!TypeOK
  <2>2. CASE BP!RestRemainder
    <3>1. /\ \E l : index' = [index EXCEPT ![t] = l]
          /\ node' = [node EXCEPT ![t] = taker]
          /\ taker.type = "limit" /\ taker.quantity > 0
      BY <1>5, <1>7, <2>2 DEF BP!RestRemainder, BP!Rests
    <3> QED
      BY <1>5, <2>1, <3>1
  <2>3. CASE BP!ReturnFills
    <3>1. UNCHANGED <<index, node>>
      BY <2>3 DEF BP!ReturnFills, BP!book
    <3> QED
      BY <1>8, <3>1 DEF Unused
  <2> QED
    BY <1>1, <2>2, <2>3
<1>12. /\ phase'[h] = "update_makers" /\ todo'[h] = fills /\ leaves'[h] = taker.quantity
       /\ \A g \in Handler : g # h =>
             phase'[g] = phase[g] /\ todo'[g] = todo[g] /\ leaves'[g] = leaves[g]
       /\ \A g \in Handler : g # h => phase[g] # "matching"
  BY <1>1, <1>2, <1>9 DEF TypeOK, LocalsType, MatchInv
<1>13. fills \in Seq(BP!FillRecord) /\ DistinctMakers(fills)
  BY <1>1, <1>2, FillsOfCall
<1>14. /\ \A g \in Handler : Submitting(g)' <=> Submitting(g)
       /\ \A g \in Handler : Cancelling(g)' <=> Cancelling(g)
       /\ \A g \in Handler : Looking(g)' <=> Looking(g)
  BY <1>1, <1>12 DEF Submitting, Cancelling, Looking
<1>15. TypeOK' /\ OneBook'
  BY <1>1, <1>2, <1>3, <1>9 DEF ControlInv, TypeOK, OneBook
<1>16. LocalsType' /\ DistinctIds'
  BY <1>1, <1>2, <1>3, <1>13, <1>14 DEF ControlInv, LocalsType, DistinctIds
<1>17. PhaseInv'
  BY <1>1, <1>2, <1>12, <1>13, <1>14 DEF PhaseInv
<1>18. RoomLeft'
  <2>1. Unnumbered' = Unnumbered
    BY <1>1, <1>12 DEF Unnumbered
  <2> QED
    BY <1>1, <1>2, <2>1 DEF ControlInv, RoomLeft
<1>19. MatchInv'
  BY <1>10, <1>12 DEF MatchInv
<1>20. \A i : \A g \in Handler : Debt(g, i)' = Debt(g, i)
  BY <1>1, <1>12 DEF Debt
<1>21. \A i : Pending(i)' = Pending(i)
  BY <1>20, DebtsKept
<1>22. \A i \in OrderId : i # t => (Unused(i)' <=> Unused(i))
  BY <1>1, <1>3, <1>11, <1>14, <1>20 DEF Unused
<1>23. \A g \in Handler : Submitting(g) => req[g].id \in OrderId /\ (g # h => req[g].id # t)
  <2>1. \A g \in Handler : Submitting(g) => req[g].id \in OrderId
    BY <1>2, SubmitRecordFacts DEF PhaseInv
  <2>2. Submitting(h)
    BY <1>1 DEF Submitting
  <2> QED
    BY <1>2, <1>7, <2>1, <2>2 DEF ControlInv, DistinctIds
<1>24. \A g \in Handler : Cancelling(g) => req[g].id \in OrderId /\ req[g].id # t
  <2>1. \A g \in Handler : Cancelling(g) => req[g].id \in OrderId
    BY <1>2 DEF PhaseInv, Cancelling, Looking, CancelRecord, SubmitRecord
  <2> QED
    BY <1>8, <2>1 DEF Unused
<1>25. FreshInv'
  <2>1. \A i \in OrderId : i > order_counter => i # t
    BY <1>2, <1>7 DEF TypeOK, OrderId
  <2>2. \A g \in Handler : phase'[g] \in {"add", "matching"} =>
           g # h /\ phase[g] \in {"add", "matching"} /\ req[g].id \in OrderId /\ req[g].id # t
    BY <1>12, <1>23 DEF Submitting
  <2>3. \A i \in OrderId : i > order_counter' => Unused(i)' /\ executed'[i] = 0
    BY <1>1, <1>2, <1>22, <2>1 DEF AccountInv, FreshInv
  <2>4. \A g \in Handler : phase'[g] \in {"add", "matching"} => Unused(req[g].id)'
    <3> SUFFICES ASSUME NEW g \in Handler, phase'[g] \in {"add", "matching"}
                 PROVE  Unused(req[g].id)'
      OBVIOUS
    <3>1. PICK i \in OrderId : i = req[g].id /\ i # t
      BY <2>2
    <3>2. Unused(i)
      BY <1>2, <2>2, <3>1 DEF AccountInv, FreshInv
    <3>3. Unused(i)'
      BY <1>22, <3>1, <3>2
    <3> QED
      BY <1>1, <3>1, <3>3
  <2>5. \A g \in Handler : phase'[g] = "add" => executed'[req'[g].id] = 0
    BY <1>1, <1>2, <1>12 DEF AccountInv, FreshInv
  <2> QED
    BY <1>1, <2>3, <2>4, <2>5 DEF FreshInv
<1>26. TrackerInv'
  <2>1. \A i \in OrderId : order_index[i] # NoTracker => i # t
    BY <1>8 DEF Unused
  <2> QED
    BY <1>1, <1>2, <1>3, <1>11, <1>21, <2>1 DEF AccountInv, TrackerInv, Accounts
<1>27. SubmitInv'
  <2> SUFFICES ASSUME NEW g \in Handler, phase'[g] = "update_makers"
               PROVE  /\ Accounts(req[g].id, req[g].quantity, leaves[g], Pending(req[g].id))'
                      /\ index'[req[g].id] # NoLocation => req[g].type = "limit"
    BY <1>1 DEF SubmitInv
  <2>1. CASE g = h
    <3>1. executed[t] \in Int
      BY <1>2, BoundsAssumption DEF TypeOK
    <3>2. Pending(t)' = 0
      BY <1>8, <1>21, NothingPending
    <3>3. /\ req[h].quantity - taker.quantity + 0 <= executed[t]
          /\ executed[t] + taker.quantity = req[h].quantity
      BY <1>5, <1>6, <1>7, <1>9, <3>1
    <3>4. Accounts(t, req[h].quantity, leaves[h], Pending(t))'
      BY <1>1, <1>11, <1>12, <3>2, <3>3 DEF Accounts
    <3> QED
      BY <1>1, <1>7, <1>11, <2>1, <3>4
  <2>2. CASE g # h
    <3>1. PICK i \in OrderId : i = req[g].id /\ i # t
      BY <1>12, <1>23, <2>2 DEF Submitting
    <3>2. /\ Accounts(i, req[g].quantity, leaves[g], Pending(i))
          /\ index[i] # NoLocation => req[g].type = "limit"
      BY <1>2, <1>12, <2>2, <3>1 DEF AccountInv, SubmitInv
    <3>3. Accounts(i, req[g].quantity, leaves[g], Pending(i))'
      BY <1>1, <1>11, <1>12, <1>21, <2>2, <3>1, <3>2 DEF Accounts
    <3> QED
      BY <1>1, <1>11, <3>1, <3>2, <3>3
  <2> QED
    BY <2>1, <2>2
<1>28. CancelInv'
  BY <1>1, <1>2, <1>11, <1>12, <1>14, <1>24 DEF AccountInv, CancelInv, Accounts
<1>29. RestInv'
  <2>1. req[h].quantity <= MaxQty
    BY <1>6, BoundsAssumption
  <2> QED
    BY <1>1, <1>2, <1>5, <1>7, <1>11, <2>1 DEF AccountInv, RestInv
<1>30. AckInv'
  <2>1. acked[t] # 1
    BY <1>8 DEF Unused
  <2>2. \A g \in Handler : phase'[g] = "untrack" <=> phase[g] = "untrack"
    BY <1>1, <1>12
  <2> QED
    BY <1>1, <1>2, <1>3, <1>11, <2>1, <2>2 DEF AccountInv, AckInv
<1>31. RestingIsTracked'
  <2>1. \A i \in OrderId : Served(i) => Served(i)'
    BY <1>1, <1>12 DEF Served
  <2>2. Served(t)'
    BY <1>1, <1>7, <1>12 DEF Served
  <2> QED
    BY <1>2, <1>3, <1>11, <2>1, <2>2 DEF AccountInv, RestingIsTracked
<1> QED
  BY <1>4, <1>15, <1>16, <1>17, <1>18, <1>19, <1>25, <1>26, <1>27, <1>28, <1>29, <1>30, <1>31
     DEF ExchangeInv, ControlInv, AccountInv

-----------------------------------------------------------------------------
(* The reports                                                             *)

\* The tracker of a maker gives up what the fill took, and the handler owes it
\* no longer.  An order that rests keeps its tracker.
LEMMA UpdateMakerKeepsInv ==
    ASSUME ExchangeInv, NEW h \in Handler, UpdateMaker(h)
    PROVE  ExchangeInv'
<1>1. /\ phase[h] = "update_makers" /\ todo[h] # <<>>
      /\ order_index' = IF order_index[Head(todo[h]).maker] = NoTracker THEN order_index
                        ELSE [order_index EXCEPT ![Head(todo[h]).maker] =
                                 AfterFill(@, Head(todo[h]).quantity)]
      /\ todo' = [todo EXCEPT ![h] = Tail(@)]
      /\ UNCHANGED <<bookVars, order_counter, books, phase, req, ptr, leaves, seen, acked, executed>>
  BY DEF UpdateMaker
<1>2. BookInv /\ ControlInv /\ AccountInv /\ TypeOK /\ LocalsType /\ PhaseInv
  BY DEF ExchangeInv, ControlInv
<1>3. UNCHANGED <<index, node, fills, pc, taker, asked>>
  BY <1>1 DEF bookVars
<1>4. todo[h] \in Seq(BP!FillRecord) /\ DistinctMakers(todo[h])
  BY <1>2 DEF LocalsType, PhaseInv
<1>5. PICK m \in OrderId, q \in 1..MaxQty :
         m = Head(todo[h]).maker /\ q = Head(todo[h]).quantity
  <2>1. Head(todo[h]) \in BP!FillRecord
    BY <1>1, <1>4, OwedTail
  <2> QED
    BY <2>1 DEF BP!FillRecord
<1>6. q \in Nat \ {0} /\ MaxQty \in Nat
  BY BoundsAssumption
<1>7. /\ todo'[h] = Tail(todo[h]) /\ Tail(todo[h]) \in Seq(BP!FillRecord)
      /\ DistinctMakers(Tail(todo[h]))
      /\ \A g \in Handler : g # h => todo'[g] = todo[g]
  BY <1>1, <1>2, <1>4, OwedTail DEF LocalsType
<1>8. /\ \A g \in Handler : \A i : g # h \/ i # m => Debt(g, i)' = Debt(g, i)
      /\ Debt(h, m) = q /\ Debt(h, m)' = 0
  <2>1. /\ Owed(todo[h], m) = q /\ Owed(todo'[h], m) = 0
        /\ \A i : i # m => Owed(todo'[h], i) = Owed(todo[h], i)
    BY <1>1, <1>4, <1>5, <1>7, OwedTail
  <2> QED
    BY <1>1, <1>3, <1>7, <2>1 DEF Debt
<1>9. \A i : i # m => Pending(i)' = Pending(i)
  BY <1>8, DebtsKept
<1>10. Pending(m) \in Nat /\ Pending(m)' \in Nat /\ Pending(m)' = Pending(m) - q
  <2>1. Debts(m) \in [Handler -> Nat] /\ Pending(m) \in Nat
    BY <1>2, PendingType
  <2>2. Debts(m)' = [Debts(m) EXCEPT ![h] = 0]
    <3>1. \A g \in Handler : Debt(g, m)' = IF g = h THEN 0 ELSE Debt(g, m)
      BY <1>8
    <3>2. Debts(m)' = [g \in Handler |-> Debt(g, m)']
      BY DEF Debts
    <3>3. Debts(m) = [g \in Handler |-> Debt(g, m)]
      BY DEF Debts
    <3>4. [Debts(m) EXCEPT ![h] = 0] = [g \in Handler |-> IF g = h THEN 0 ELSE Debt(g, m)]
      BY <3>3
    <3> QED
      BY <3>1, <3>2, <3>4
  <2>3. Debts(m)[h] = q
    BY <1>8 DEF Debts
  <2>4. SumOfHandlers([Debts(m) EXCEPT ![h] = 0]) = SumOfHandlers(Debts(m)) - Debts(m)[h] + 0
    BY <2>1, SumOfHandlersChange
  <2>5. [Debts(m) EXCEPT ![h] = 0] \in [Handler -> Nat]
    BY <2>1
  <2>6. SumOfHandlers([Debts(m) EXCEPT ![h] = 0]) \in Nat
    BY <2>5, SumOfHandlersType
  <2>7. Pending(m)' = SumOfHandlers([Debts(m) EXCEPT ![h] = 0]) /\ Pending(m) = SumOfHandlers(Debts(m))
    BY <2>2 DEF Pending
  <2> QED
    BY <1>6, <2>1, <2>3, <2>4, <2>6, <2>7
<1>11. /\ \A i \in OrderId : i # m => order_index'[i] = order_index[i]
       /\ order_index[m] = NoTracker => order_index'[m] = NoTracker
       /\ order_index[m] # NoTracker => order_index'[m] = AfterFill(order_index[m], q)
  BY <1>1, <1>2, <1>5 DEF TypeOK
<1>12. ASSUME order_index[m] # NoTracker
       PROVE  /\ order_index[m] \in Tracker
              /\ \/ order_index'[m] = NoTracker /\ order_index[m].remaining <= q
                 \/ /\ order_index'[m] \in Tracker
                    /\ order_index'[m].orig = order_index[m].orig
                    /\ order_index'[m].remaining = order_index[m].remaining - q
  <2>1. order_index[m] \in Tracker
    BY <1>2, <1>12 DEF TypeOK
  <2>2. order_index'[m] = AfterFill(order_index[m], q)
    BY <1>11, <1>12
  <2> QED
    BY <1>6, <2>1, <2>2 DEF AfterFill, Tracker
<1>13. TypeOK' /\ OneBook'
  <2>1. \A i \in OrderId : order_index'[i] \in Tracker \cup {NoTracker}
    BY <1>2, <1>11, <1>12 DEF TypeOK
  <2>2. order_index' = [i \in OrderId |-> order_index'[i]]
    BY <1>1, <1>2 DEF TypeOK
  <2>3. order_index' \in [OrderId -> Tracker \cup {NoTracker}]
    BY <2>1, <2>2
  <2> QED
    BY <1>1, <1>2, <2>3 DEF ControlInv, TypeOK, OneBook
<1>14. LocalsType' /\ PhaseInv'
  BY <1>1, <1>2, <1>7 DEF LocalsType, PhaseInv, Looking, Submitting, Cancelling
<1>15. DistinctIds' /\ RoomLeft' /\ MatchInv'
  BY <1>1, <1>2, <1>3
     DEF ControlInv, DistinctIds, RoomLeft, MatchInv, Submitting, Unnumbered
<1>16. BookInv'
  BY <1>1, <1>2, BookUnchangedInv
<1>17. \A g \in Handler : Cancelling(g)' <=> Cancelling(g)
  BY <1>1 DEF Cancelling, Looking
<1>18. \A i \in OrderId : Unused(i) => Unused(i)'
  <2> SUFFICES ASSUME NEW i \in OrderId, Unused(i) PROVE Unused(i)'
    OBVIOUS
  <2>1. i # m
    BY <1>6, <1>8 DEF Unused
  <2> QED
    BY <1>1, <1>3, <1>8, <1>11, <1>17, <2>1 DEF Unused
<1>19. FreshInv'
  <2>1. \A i \in OrderId : i > order_counter' => Unused(i)' /\ executed'[i] = 0
    BY <1>1, <1>2, <1>18 DEF AccountInv, FreshInv
  <2>2. \A g \in Handler : phase'[g] \in {"add", "matching"} => Unused(req[g].id)'
    <3> SUFFICES ASSUME NEW g \in Handler, phase[g] \in {"add", "matching"}
                 PROVE  Unused(req[g].id)'
      BY <1>1
    <3>1. req[g] \in SubmitRecord(OrderId)
      BY <1>2 DEF PhaseInv, Submitting
    <3>2. PICK i \in OrderId : i = req[g].id
      BY <3>1, SubmitRecordFacts
    <3>3. Unused(i)'
      BY <1>2, <1>18, <3>2 DEF AccountInv, FreshInv
    <3> QED
      BY <1>1, <3>2, <3>3
  <2> QED
    BY <1>1, <1>2, <2>1, <2>2 DEF AccountInv, FreshInv
<1>20. executed \in [OrderId -> 0..MaxQty]
  BY <1>2 DEF TypeOK
<1>21. TrackerInv'
  <2> SUFFICES ASSUME NEW i \in OrderId, order_index'[i] # NoTracker
               PROVE  Accounts(i, order_index[i].orig, order_index[i].remaining, Pending(i))'
    BY DEF TrackerInv
  <2>1. CASE i # m
    BY <1>1, <1>2, <1>3, <1>9, <1>11, <2>1 DEF AccountInv, TrackerInv, Accounts
  <2>2. CASE i = m
    <3>1. /\ order_index[m] # NoTracker /\ order_index[m] \in Tracker
          /\ order_index'[m].orig = order_index[m].orig
          /\ order_index'[m].remaining = order_index[m].remaining - q
      BY <1>11, <1>12, <2>2
    <3>2. order_index[m].orig \in Int /\ order_index[m].remaining \in Int
      BY <1>6, <3>1 DEF Tracker
    <3>3. Accounts(m, order_index[m].orig, order_index[m].remaining, Pending(m))
      BY <1>2, <3>1 DEF AccountInv, TrackerInv
    <3>4. order_index'[m].orig - order_index'[m].remaining + Pending(m)' <= executed'[m]
      BY <1>1, <1>6, <1>10, <1>20, <3>1, <3>2, <3>3 DEF Accounts
    <3> QED
      BY <1>1, <1>3, <2>2, <3>1, <3>3, <3>4 DEF Accounts
  <2> QED
    BY <2>1, <2>2
<1>22. SubmitInv'
  <2> SUFFICES ASSUME NEW g \in Handler, phase[g] = "update_makers"
               PROVE  /\ Accounts(req[g].id, req[g].quantity, leaves[g], Pending(req[g].id))'
                      /\ index'[req[g].id] # NoLocation => req[g].type = "limit"
    BY <1>1 DEF SubmitInv
  <2>1. req[g] \in SubmitRecord(OrderId)
    BY <1>2 DEF PhaseInv, Submitting
  <2>2. req[g].id \in OrderId /\ req[g].quantity \in 1..MaxQty /\ leaves[g] \in 0..MaxQty
    BY <1>2, <2>1, SubmitRecordFacts DEF TypeOK
  <2>3. PICK i \in OrderId, o \in Int, r \in Int :
           i = req[g].id /\ o = req[g].quantity /\ r = leaves[g]
    BY <2>2
  <2>4. Accounts(i, o, r, Pending(i)) /\ (index[i] # NoLocation => req[g].type = "limit")
    BY <1>2, <2>3 DEF AccountInv, SubmitInv
  <2>5. Pending(i) \in Nat /\ Pending(i)' \in Nat /\ Pending(i)' <= Pending(i)
    <3>1. Pending(i) \in Nat
      BY <1>2, PendingType
    <3> QED
      BY <1>6, <1>9, <1>10, <3>1
  <2>6. Accounts(i, o, r, Pending(i))'
    BY <1>1, <1>3, <1>20, <2>4, <2>5 DEF Accounts
  <2> QED
    BY <1>1, <1>3, <2>3, <2>4, <2>6
<1>23. CancelInv' /\ RestInv' /\ AckInv'
  BY <1>1, <1>2, <1>3, <1>17 DEF AccountInv, CancelInv, RestInv, AckInv, Accounts
<1>24. RestingIsTracked'
  <2> SUFFICES ASSUME NEW i \in OrderId, index[i] # NoLocation, ~ Served(i)
               PROVE  order_index'[i] # NoTracker
    BY <1>1, <1>3 DEF RestingIsTracked, Served
  <2>1. order_index[i] # NoTracker
    BY <1>2 DEF AccountInv, RestingIsTracked
  <2>2. CASE i # m
    BY <1>11, <2>1, <2>2
  <2>3. CASE i = m
    <3>1. Accounts(m, order_index[m].orig, order_index[m].remaining, Pending(m))
      BY <1>2, <2>1, <2>3 DEF AccountInv, TrackerInv
    <3>2. order_index[m].orig \in Int /\ order_index[m].remaining \in Int
      BY <1>6, <1>12, <2>1, <2>3 DEF Tracker
    <3>3. node[m].quantity \in Nat \ {0}
      <4>1. node[m] \in BP!RestingOrder
        BY <1>2, <2>3 DEF BookInv, BP!IInv, BP!TypeOK, BP!IndexMatchesLists
      <4> QED
        BY <1>6, <4>1 DEF BP!RestingOrder
    <3>4. order_index[m].remaining > q
      BY <1>6, <1>10, <1>20, <2>3, <3>1, <3>2, <3>3 DEF Accounts
    <3>5. order_index'[m] \in Tracker
      BY <1>6, <1>12, <2>1, <2>3, <3>2, <3>4
    <3> QED
      BY <2>3, <3>5, MarkerAssumption
  <2> QED
    BY <2>2, <2>3
<1> QED
  BY <1>13, <1>14, <1>15, <1>16, <1>19, <1>21, <1>22, <1>23, <1>24
     DEF ExchangeInv, ControlInv, AccountInv

\* A handler that answers forgets its locals; nobody else's change.
LEMMA ReplyFacts ==
    ASSUME ControlInv, NEW h \in Handler, phase[h] # "idle", Reply(h)
    PROVE  /\ phase'[h] = "idle" /\ todo'[h] = <<>>
           /\ \A g \in Handler : g # h =>
                 /\ phase'[g] = phase[g] /\ req'[g] = req[g] /\ todo'[g] = todo[g]
                 /\ leaves'[g] = leaves[g] /\ seen'[g] = seen[g]
           /\ phase' \in [Handler -> {"idle", "find_book", "create_book", "have_book", "add",
                                      "matching", "update_makers", "untrack"}]
           /\ ptr' \in [Handler -> 0..1] /\ leaves' \in [Handler -> 0..MaxQty]
           /\ \A g \in Handler : ptr'[g] = ptr[g] \/ ptr'[g] = 0
           /\ req' = [req EXCEPT ![h] = NoRequest]
           /\ seen' = [seen EXCEPT ![h] = NoTracker]
           /\ todo' = [todo EXCEPT ![h] = <<>>]
BY BoundsAssumption DEF Reply, ControlInv, TypeOK, LocalsType

\* A reply that ends a request keeps the control part of the invariant.
LEMMA ReplyControl ==
    ASSUME ControlInv, NEW h \in Handler, phase[h] \notin {"idle", "matching"}, Reply(h),
           Looking(h) => req[h].kind = "cancel",
           UNCHANGED <<order_counter, books, pc, taker, asked, executed>>,
           order_index' \in [OrderId -> Tracker \cup {NoTracker}],
           acked' \in [OrderId -> Nat]
    PROVE  ControlInv'
<1>1. /\ phase'[h] = "idle" /\ todo'[h] = <<>>
      /\ \A g \in Handler : g # h =>
            /\ phase'[g] = phase[g] /\ req'[g] = req[g] /\ todo'[g] = todo[g]
            /\ leaves'[g] = leaves[g] /\ seen'[g] = seen[g]
      /\ phase' \in [Handler -> {"idle", "find_book", "create_book", "have_book", "add",
                                 "matching", "update_makers", "untrack"}]
      /\ ptr' \in [Handler -> 0..1] /\ leaves' \in [Handler -> 0..MaxQty]
      /\ \A g \in Handler : ptr'[g] = ptr[g] \/ ptr'[g] = 0
      /\ req' = [req EXCEPT ![h] = NoRequest]
      /\ seen' = [seen EXCEPT ![h] = NoTracker]
      /\ todo' = [todo EXCEPT ![h] = <<>>]
  BY ReplyFacts
<1>2. TypeOK' /\ OneBook'
  BY <1>1 DEF ControlInv, TypeOK, OneBook
<1>3. LocalsType'
  BY <1>1 DEF ControlInv, LocalsType
<1>4. ~ Looking(h)' /\ ~ Submitting(h)' /\ ~ Cancelling(h)'
  BY <1>1 DEF Looking, Submitting, Cancelling
<1>5. \A g \in Handler : g # h =>
         /\ Looking(g)' <=> Looking(g)
         /\ Submitting(g)' <=> Submitting(g)
         /\ Cancelling(g)' <=> Cancelling(g)
  BY <1>1 DEF Looking, Submitting, Cancelling
<1>6. PhaseInv'
  <2>1. DistinctMakers(<<>>)
    BY DEF DistinctMakers
  <2> QED
    BY <1>1, <1>4, <1>5, <2>1 DEF ControlInv, PhaseInv
<1>7. DistinctIds'
  BY <1>1, <1>4, <1>5 DEF ControlInv, DistinctIds
<1>8. RoomLeft'
  <2>1. h \notin Unnumbered
    BY UnnumberedAre
  <2>2. Unnumbered' = Unnumbered
    BY <1>1, <2>1 DEF Unnumbered
  <2> QED
    BY <2>2 DEF ControlInv, RoomLeft
<1>9. MatchInv'
  <2>1. \A g \in Handler : phase'[g] = "matching" <=> phase[g] = "matching"
    BY <1>1
  <2>2. \A g \in Handler : phase[g] = "matching" => req'[g] = req[g]
    BY <1>1
  <2> QED
    BY <2>1, <2>2 DEF ControlInv, MatchInv
<1> QED
  BY <1>2, <1>3, <1>6, <1>7, <1>8, <1>9 DEF ControlInv

\* The submission is answered: from now on the tracker accounts for the order.
LEMMA AnswerSubmitKeepsInv ==
    ASSUME ExchangeInv, NEW h \in Handler, AnswerSubmit(h)
    PROVE  ExchangeInv'
<1>1. /\ phase[h] = "update_makers" /\ todo[h] = <<>>
      /\ order_index' = IF Tracks(h) THEN [order_index EXCEPT ![req[h].id] = TrackerOf(h)]
                        ELSE order_index
      /\ Reply(h)
      /\ UNCHANGED <<bookVars, order_counter, books, acked, executed>>
  BY DEF AnswerSubmit
<1>2. BookInv /\ ControlInv /\ AccountInv /\ TypeOK /\ LocalsType /\ PhaseInv
  BY DEF ExchangeInv, ControlInv
<1>3. UNCHANGED <<index, node, fills, pc, taker, asked>>
  BY <1>1 DEF bookVars
<1>4. req[h] \in SubmitRecord(OrderId) /\ req[h].quantity \in 1..MaxQty /\ leaves[h] \in 0..MaxQty
  <2>1. req[h] \in SubmitRecord(OrderId)
    BY <1>1, <1>2 DEF PhaseInv, Submitting
  <2> QED
    BY <1>2, <2>1, SubmitRecordFacts DEF TypeOK
<1>5. PICK t \in OrderId : t = req[h].id /\ t <= order_counter
  BY <1>1, <1>2, <1>4, SubmitRecordFacts DEF PhaseInv, Submitting
<1>6. /\ phase'[h] = "idle" /\ todo'[h] = <<>>
      /\ \A g \in Handler : g # h =>
            /\ phase'[g] = phase[g] /\ req'[g] = req[g] /\ todo'[g] = todo[g]
            /\ leaves'[g] = leaves[g] /\ seen'[g] = seen[g]
  BY <1>1, <1>2, ReplyFacts
<1>7. MaxQty \in Nat /\ executed \in [OrderId -> 0..MaxQty]
  BY <1>2, BoundsAssumption DEF TypeOK
<1>8. /\ \A i \in OrderId : i # t => order_index'[i] = order_index[i]
      /\ Tracks(h) => /\ order_index'[t] \in Tracker
                      /\ order_index'[t].orig = req[h].quantity
                      /\ order_index'[t].remaining = leaves[h]
      /\ ~ Tracks(h) => order_index'[t] = order_index[t]
      /\ order_index' \in [OrderId -> Tracker \cup {NoTracker}]
  <2>1. Tracks(h) => TrackerOf(h) \in Tracker
    BY <1>4, <1>7 DEF Tracks, TrackerOf, Tracker
  <2>2. TrackerOf(h).orig = req[h].quantity /\ TrackerOf(h).remaining = leaves[h]
    BY DEF TrackerOf
  <2> QED
    BY <1>1, <1>2, <1>5, <2>1, <2>2 DEF TypeOK
<1>9. ControlInv'
  <2>1. ~ Looking(h)
    BY <1>1 DEF Looking
  <2> QED
    BY <1>1, <1>2, <1>3, <1>8, <2>1, ReplyControl DEF LocalsType
<1>10. BookInv'
  BY <1>1, <1>2, BookUnchangedInv
<1>11. \A i : \A g \in Handler : Debt(g, i)' = Debt(g, i)
  BY <1>1, <1>3, <1>6 DEF Debt
<1>12. \A i : Pending(i)' = Pending(i)
  BY <1>11, DebtsKept
<1>13. \A g \in Handler : Cancelling(g)' <=> Cancelling(g)
  BY <1>1, <1>6 DEF Cancelling, Looking
<1>14. \A g \in Handler : Cancelling(g) => g # h
  BY <1>1 DEF Cancelling, Looking
<1>15. \A i \in OrderId : i # t /\ Unused(i) => Unused(i)'
  BY <1>1, <1>3, <1>6, <1>8, <1>11, <1>13, <1>14 DEF Unused
<1>16. FreshInv'
  <2>1. \A i \in OrderId : i > order_counter => i # t
    BY <1>2, <1>5 DEF TypeOK, OrderId
  <2>2. \A i \in OrderId : i > order_counter' => Unused(i)' /\ executed'[i] = 0
    BY <1>1, <1>2, <1>15, <2>1 DEF AccountInv, FreshInv
  <2>3. \A g \in Handler : phase'[g] \in {"add", "matching"} => Unused(req[g].id)'
    <3> SUFFICES ASSUME NEW g \in Handler, phase'[g] \in {"add", "matching"}
                 PROVE  Unused(req[g].id)'
      OBVIOUS
    <3>1. g # h /\ phase[g] \in {"add", "matching"} /\ req'[g] = req[g]
      BY <1>6
    <3>2. req[g] \in SubmitRecord(OrderId) /\ req[g].id # t
      BY <1>1, <1>2, <1>5, <3>1 DEF PhaseInv, ControlInv, DistinctIds, Submitting
    <3>3. PICK i \in OrderId : i = req[g].id
      BY <3>2, SubmitRecordFacts
    <3>4. Unused(i)'
      BY <1>2, <1>15, <3>1, <3>2, <3>3 DEF AccountInv, FreshInv
    <3> QED
      BY <3>1, <3>3, <3>4
  <2>4. \A g \in Handler : phase'[g] = "add" => executed'[req'[g].id] = 0
    BY <1>1, <1>2, <1>6 DEF AccountInv, FreshInv
  <2> QED
    BY <2>2, <2>3, <2>4 DEF FreshInv
<1>17. Accounts(t, req[h].quantity, leaves[h], Pending(t)) /\ (index[t] # NoLocation => req[h].type = "limit")
  BY <1>1, <1>2, <1>5 DEF AccountInv, SubmitInv
<1>18. TrackerInv'
  <2> SUFFICES ASSUME NEW i \in OrderId, order_index'[i] # NoTracker
               PROVE  Accounts(i, order_index[i].orig, order_index[i].remaining, Pending(i))'
    BY DEF TrackerInv
  <2>1. CASE i = t /\ Tracks(h)
    BY <1>1, <1>3, <1>8, <1>12, <1>17, <2>1 DEF Accounts
  <2>2. CASE ~ (i = t /\ Tracks(h))
    <3>1. order_index'[i] = order_index[i]
      BY <1>8, <2>2
    <3> QED
      BY <1>1, <1>2, <1>3, <1>12, <3>1 DEF AccountInv, TrackerInv, Accounts
  <2> QED
    BY <2>1, <2>2
<1>19. SubmitInv'
  BY <1>1, <1>2, <1>3, <1>6, <1>12 DEF AccountInv, SubmitInv, Accounts
<1>20. CancelInv'
  <2>1. \A g \in Handler : Cancelling(g)' =>
           Cancelling(g) /\ req'[g] = req[g] /\ seen'[g] = seen[g] /\ phase'[g] = phase[g]
    BY <1>6, <1>13, <1>14
  <2> QED
    BY <1>1, <1>2, <1>3, <2>1 DEF AccountInv, CancelInv, Accounts
<1>21. RestInv' /\ AckInv'
  BY <1>1, <1>2, <1>3, <1>6 DEF AccountInv, RestInv, AckInv
<1>22. RestingIsTracked'
  <2> SUFFICES ASSUME NEW i \in OrderId, index[i] # NoLocation, ~ Served(i)'
               PROVE  order_index'[i] # NoTracker
    BY <1>3 DEF RestingIsTracked
  <2>1. CASE i = t
    <3>1. node[t].quantity \in Nat \ {0}
      <4>1. node[t] \in BP!RestingOrder
        BY <1>2, <2>1 DEF BookInv, BP!IInv, BP!TypeOK, BP!IndexMatchesLists
      <4> QED
        BY <1>7, <4>1 DEF BP!RestingOrder
    <3>2. Pending(t) \in Nat
      BY <1>2, PendingType
    <3>3. leaves[h] > 0
      BY <1>4, <1>7, <1>17, <2>1, <3>1, <3>2 DEF Accounts
    <3>4. Tracks(h)
      BY <1>17, <2>1, <3>3 DEF Tracks
    <3> QED
      BY <1>8, <2>1, <3>4, MarkerAssumption
  <2>2. CASE i # t
    <3>1. ~ Served(i)
      BY <1>5, <1>6, <2>2 DEF Served
    <3> QED
      BY <1>2, <1>8, <2>2, <3>1 DEF AccountInv, RestingIsTracked
  <2> QED
    BY <2>1, <2>2
<1> QED
  BY <1>9, <1>10, <1>16, <1>18, <1>19, <1>20, <1>21, <1>22 DEF ExchangeInv, AccountInv

-----------------------------------------------------------------------------
(* The cancels                                                             *)

\* The handler copies the tracker: what it says is executed has been executed.
LEMMA CancelKeepsInv ==
    ASSUME ExchangeInv, NEW h \in Handler, NEW i \in OrderId, Cancel(h, i)
    PROVE  ExchangeInv'
<1>1. /\ phase[h] = "idle" /\ order_index[i] # NoTracker
      /\ seen' = [seen EXCEPT ![h] = order_index[i]]
      /\ req' = [req EXCEPT ![h] = [kind |-> "cancel", id |-> i]]
      /\ phase' = [phase EXCEPT ![h] = "find_book"]
      /\ UNCHANGED <<bookVars, indexVars, order_counter, books, ptr, leaves, todo, executed>>
  BY DEF Cancel
<1>2. BookInv /\ ControlInv /\ AccountInv /\ TypeOK /\ LocalsType /\ PhaseInv
  BY DEF ExchangeInv, ControlInv
<1>3. UNCHANGED <<acked, order_index, index, node, fills, pc, taker, asked>>
  BY <1>1 DEF indexVars, bookVars
<1>4. order_index[i] \in Tracker
  BY <1>1, <1>2 DEF TypeOK
<1>5. /\ phase'[h] = "find_book" /\ seen'[h] = order_index[i]
      /\ req'[h] \in CancelRecord /\ req'[h].kind = "cancel" /\ req'[h].id = i
      /\ \A g \in Handler : g # h =>
            phase'[g] = phase[g] /\ req'[g] = req[g] /\ seen'[g] = seen[g]
  BY <1>1, <1>2 DEF TypeOK, LocalsType, CancelRecord
<1>6. /\ \A g \in Handler : Submitting(g)' <=> Submitting(g)
      /\ \A g \in Handler : Submitting(g) => g # h
      /\ \A g \in Handler : g # h => (Cancelling(g)' <=> Cancelling(g))
      /\ \A g \in Handler : g # h => (Looking(g)' <=> Looking(g))
      /\ \A g \in Handler : phase'[g] = "matching" <=> phase[g] = "matching"
      /\ \A g \in Handler : phase[g] = "matching" => req'[g] = req[g]
  BY <1>1, <1>5 DEF Submitting, Cancelling, Looking
<1>7. BookInv'
  BY <1>1, <1>2, BookUnchangedInv
<1>8. TypeOK' /\ OneBook'
  BY <1>1, <1>2, <1>3 DEF ControlInv, TypeOK, OneBook
<1>9. LocalsType'
  <2>1. [kind |-> "cancel", id |-> i] \in CancelRecord
    BY DEF CancelRecord
  <2> QED
    BY <1>1, <1>2, <1>3, <1>4, <2>1 DEF LocalsType
<1>10. PhaseInv'
  BY <1>1, <1>2, <1>4, <1>5, <1>6 DEF PhaseInv
<1>11. DistinctIds' /\ MatchInv'
  <2>1. \A g \in Handler : Submitting(g) => req'[g] = req[g]
    BY <1>5, <1>6
  <2>2. DistinctIds'
    BY <1>2, <1>6, <2>1 DEF ControlInv, DistinctIds
  <2>3. MatchInv'
    BY <1>1, <1>2, <1>3, <1>6 DEF ControlInv, MatchInv
  <2> QED
    BY <2>2, <2>3
<1>12. RoomLeft'
  <2>1. Unnumbered' = Unnumbered
    BY <1>1, <1>5 DEF Unnumbered
  <2> QED
    BY <1>1, <1>2, <2>1 DEF ControlInv, RoomLeft
<1>13. \A j : \A g \in Handler : Debt(g, j)' = Debt(g, j)
  BY <1>1, <1>3, <1>6 DEF Debt
<1>14. \A j : Pending(j)' = Pending(j)
  BY <1>13, DebtsKept
<1>15. \A j \in OrderId : Unused(j) => Unused(j)'
  BY <1>1, <1>3, <1>5, <1>6, <1>13 DEF Unused
<1>16. FreshInv'
  <2>1. \A j \in OrderId : j > order_counter' => Unused(j)' /\ executed'[j] = 0
    BY <1>1, <1>2, <1>15 DEF AccountInv, FreshInv
  <2>2. \A g \in Handler : phase'[g] \in {"add", "matching"} => Unused(req[g].id)' /\ g # h
    <3> SUFFICES ASSUME NEW g \in Handler, phase'[g] \in {"add", "matching"}
                 PROVE  Unused(req[g].id)' /\ g # h
      OBVIOUS
    <3>1. g # h /\ phase[g] \in {"add", "matching"} /\ req'[g] = req[g]
      BY <1>5
    <3>2. req[g] \in SubmitRecord(OrderId)
      BY <1>2, <3>1 DEF PhaseInv, Submitting
    <3>3. PICK j \in OrderId : j = req[g].id
      BY <3>2, SubmitRecordFacts
    <3>4. Unused(j)'
      BY <1>2, <1>15, <3>1, <3>3 DEF AccountInv, FreshInv
    <3> QED
      BY <3>1, <3>3, <3>4
  <2>3. \A g \in Handler : phase'[g] = "add" => executed'[req'[g].id] = 0
    BY <1>1, <1>2, <1>5 DEF AccountInv, FreshInv
  <2> QED
    BY <2>1, <2>2, <2>3 DEF FreshInv
<1>17. TrackerInv' /\ RestInv'
  BY <1>1, <1>2, <1>3, <1>14 DEF AccountInv, TrackerInv, RestInv, Accounts
<1>18. SubmitInv'
  BY <1>1, <1>2, <1>3, <1>5, <1>14 DEF AccountInv, SubmitInv, Accounts
<1>19. CancelInv'
  <2>1. Accounts(i, order_index[i].orig, order_index[i].remaining, Pending(i))
    BY <1>1, <1>2 DEF AccountInv, TrackerInv
  <2>2. /\ Pending(i) \in Nat /\ executed[i] \in Int
        /\ order_index[i].orig \in Int /\ order_index[i].remaining \in Int
    BY <1>2, <1>4, PendingType, BoundsAssumption DEF TypeOK, Tracker
  <2>3. Accounts(i, order_index[i].orig, order_index[i].remaining, 0)
    BY <2>1, <2>2 DEF Accounts
  <2>4. Accounts(req[h].id, seen[h].orig, seen[h].remaining, 0)'
    BY <1>1, <1>3, <1>5, <2>3 DEF Accounts
  <2>5. \A g \in Handler : g # h /\ Cancelling(g)' =>
           /\ Accounts(req[g].id, seen[g].orig, seen[g].remaining, 0)'
           /\ phase'[g] = "untrack" =>
                 index'[req'[g].id] = NoLocation /\ executed'[req'[g].id] < seen'[g].orig
    BY <1>1, <1>2, <1>3, <1>5, <1>6 DEF AccountInv, CancelInv, Accounts
  <2> QED
    BY <1>5, <2>4, <2>5 DEF CancelInv
<1>20. AckInv'
  <2>1. \A g \in Handler : phase'[g] = "untrack" => phase[g] = "untrack" /\ req'[g] = req[g]
    BY <1>5
  <2> QED
    BY <1>2, <1>3, <2>1 DEF AccountInv, AckInv
<1>21. RestingIsTracked'
  <2>1. \A j \in OrderId : Served(j) => Served(j)'
    BY <1>1, <1>5 DEF Served
  <2> QED
    BY <1>2, <1>3, <2>1 DEF AccountInv, RestingIsTracked
<1> QED
  BY <1>7, <1>8, <1>9, <1>10, <1>11, <1>12, <1>16, <1>17, <1>18, <1>19, <1>20, <1>21
     DEF ExchangeInv, ControlInv, AccountInv

\* A cancel that ends, answered or refused, leaves the accounts of the others
\* as they are.
LEMMA CancelEnds ==
    ASSUME BookInv, ControlInv, AccountInv, NEW h \in Handler, Cancelling(h), Reply(h),
           UNCHANGED <<index, node, fills, order_counter, executed>>,
           \A j \in OrderId : j # req[h].id =>
              order_index'[j] = order_index[j] /\ acked'[j] = acked[j],
           order_index'[req[h].id] \in {NoTracker, order_index[req[h].id]}
    PROVE  FreshInv' /\ TrackerInv' /\ SubmitInv' /\ CancelInv' /\ RestInv'
<1>1. TypeOK /\ PhaseInv
  BY DEF ControlInv
<1>2. phase[h] # "idle" /\ phase[h] \notin {"add", "matching", "update_makers"}
  BY DEF Cancelling, Looking
<1>3. PICK i \in OrderId : i = req[h].id
  BY <1>1 DEF PhaseInv, Cancelling, Looking, CancelRecord, SubmitRecord
<1>4. /\ phase'[h] = "idle" /\ todo'[h] = <<>>
      /\ \A g \in Handler : g # h =>
            /\ phase'[g] = phase[g] /\ req'[g] = req[g] /\ todo'[g] = todo[g]
            /\ leaves'[g] = leaves[g] /\ seen'[g] = seen[g]
  BY <1>2, ReplyFacts
<1>5. todo[h] = <<>>
  BY <1>1, <1>2 DEF PhaseInv
<1>6. \A j : \A g \in Handler : Debt(g, j)' = Debt(g, j)
  BY <1>2, <1>4, <1>5 DEF Debt
<1>7. \A j : Pending(j)' = Pending(j)
  BY <1>6, DebtsKept
<1>8. \A g \in Handler : Cancelling(g)' =>
         Cancelling(g) /\ req'[g] = req[g] /\ seen'[g] = seen[g] /\ phase'[g] = phase[g]
  BY <1>4 DEF Cancelling, Looking
<1>9. \A j \in OrderId : Unused(j) => Unused(j)'
  <2> SUFFICES ASSUME NEW j \in OrderId, Unused(j) PROVE Unused(j)'
    OBVIOUS
  <2>1. j # i
    BY <1>3 DEF Unused
  <2> QED
    BY <1>3, <1>6, <1>8, <2>1 DEF Unused
<1>10. FreshInv'
  <2>1. \A j \in OrderId : j > order_counter' => Unused(j)' /\ executed'[j] = 0
    BY <1>9 DEF AccountInv, FreshInv
  <2>2. \A g \in Handler : phase'[g] \in {"add", "matching"} => Unused(req[g].id)'
    <3> SUFFICES ASSUME NEW g \in Handler, phase'[g] \in {"add", "matching"}
                 PROVE  Unused(req[g].id)'
      OBVIOUS
    <3>1. g # h /\ phase[g] \in {"add", "matching"} /\ req'[g] = req[g]
      BY <1>4
    <3>2. req[g] \in SubmitRecord(OrderId)
      BY <1>1, <3>1 DEF PhaseInv, Submitting
    <3>3. PICK j \in OrderId : j = req[g].id
      BY <3>2, SubmitRecordFacts
    <3>4. Unused(j)'
      BY <1>9, <3>1, <3>3 DEF AccountInv, FreshInv
    <3> QED
      BY <3>1, <3>3, <3>4
  <2>3. \A g \in Handler : phase'[g] = "add" => executed'[req'[g].id] = 0
    BY <1>4 DEF AccountInv, FreshInv
  <2> QED
    BY <2>1, <2>2, <2>3 DEF FreshInv
<1>11. TrackerInv'
  <2> SUFFICES ASSUME NEW j \in OrderId, order_index'[j] # NoTracker
               PROVE  Accounts(j, order_index[j].orig, order_index[j].remaining, Pending(j))'
    BY DEF TrackerInv
  <2>1. order_index'[j] = order_index[j]
    BY <1>3
  <2> QED
    BY <1>7, <2>1 DEF AccountInv, TrackerInv, Accounts
<1>12. SubmitInv'
  BY <1>4, <1>7 DEF AccountInv, SubmitInv, Accounts
<1>13. CancelInv' /\ RestInv'
  BY <1>8 DEF AccountInv, CancelInv, RestInv, Accounts
<1> QED
  BY <1>10, <1>11, <1>12, <1>13

\* The book does not know the order any more: 404.
LEMMA CancelRefusedKeepsInv ==
    ASSUME ExchangeInv, NEW h \in Handler, phase[h] = "have_book", req[h].kind = "cancel",
           Reply(h), UNCHANGED bookVars,
           UNCHANGED <<indexVars, order_counter, books, executed>>
    PROVE  ExchangeInv'
<1>1. BookInv /\ ControlInv /\ AccountInv /\ TypeOK /\ LocalsType
  BY DEF ExchangeInv, ControlInv
<1>2. UNCHANGED <<acked, order_index, index, node, fills, pc, taker, asked>>
  BY DEF indexVars, bookVars
<1>3. BookInv'
  BY <1>1, BookUnchangedInv
<1>4. ControlInv'
  BY <1>1, <1>2, ReplyControl DEF TypeOK, LocalsType
<1>5. Cancelling(h)
  BY DEF Cancelling, Looking
<1>6. FreshInv' /\ TrackerInv' /\ SubmitInv' /\ CancelInv' /\ RestInv'
  BY <1>1, <1>2, <1>5, CancelEnds
<1>7. \A g \in Handler : g # h => phase'[g] = phase[g] /\ req'[g] = req[g]
  BY <1>1, ReplyFacts
<1>8. phase'[h] = "idle"
  BY <1>1, ReplyFacts
<1>9. AckInv'
  <2>1. \A g \in Handler : phase'[g] = "untrack" => phase[g] = "untrack" /\ req'[g] = req[g]
    BY <1>7, <1>8
  <2> QED
    BY <1>1, <1>2, <2>1 DEF AccountInv, AckInv
<1>10. RestingIsTracked'
  <2>1. \A j \in OrderId : Served(j) => Served(j)'
    BY <1>7 DEF Served
  <2> QED
    BY <1>1, <1>2, <2>1 DEF AccountInv, RestingIsTracked
<1> QED
  BY <1>3, <1>4, <1>6, <1>9, <1>10 DEF ExchangeInv, AccountInv

\* The book had the order: what had not been executed of it is gone, and no
\* other cancel will find it again.
LEMMA CancelFoundKeepsInv ==
    ASSUME ExchangeInv, NEW h \in Handler, phase[h] = "have_book", req[h].kind = "cancel",
           index[req[h].id] # NoLocation, BP!CancelOrder(req[h].id),
           phase' = [phase EXCEPT ![h] = "untrack"],
           UNCHANGED <<req, ptr, leaves, todo, seen>>,
           UNCHANGED <<indexVars, order_counter, books, executed>>
    PROVE  ExchangeInv'
<1>1. BookInv /\ ControlInv /\ AccountInv /\ TypeOK /\ LocalsType /\ PhaseInv
  BY DEF ExchangeInv, ControlInv
<1>2. UNCHANGED <<acked, order_index>>
  BY DEF indexVars
<1>3. Cancelling(h) /\ Looking(h)
  BY DEF Cancelling, Looking
<1>4. req[h] \in CancelRecord /\ seen[h] \in Tracker
  BY <1>1, <1>3 DEF PhaseInv, CancelRecord, SubmitRecord
<1>5. PICK i \in OrderId : i = req[h].id
  BY <1>4 DEF CancelRecord
<1>6. /\ UNCHANGED <<fills, pc, taker, asked>>
      /\ index'[i] = NoLocation
      /\ \A j \in OrderId : j # i => index'[j] = index[j] /\ node'[j] = node[j]
  <2>1. /\ node \in [OrderId -> BP!RestingOrder \cup {NoOrder}]
        /\ index \in [OrderId -> BP!Location \cup {NoLocation}]
    BY <1>1 DEF BookInv, BP!IInv, BP!TypeOK
  <2>2. /\ index' = [index EXCEPT ![i] = NoLocation]
        /\ node' = [node EXCEPT ![i] = NoOrder] \/ node' = node
        /\ UNCHANGED <<fills, pc, taker, asked>>
    BY <1>5 DEF BP!CancelOrder, BP!call
  <2> QED
    BY <2>1, <2>2
<1>7. /\ phase'[h] = "untrack"
      /\ \A g \in Handler : g # h => phase'[g] = phase[g]
  BY <1>1 DEF TypeOK
<1>8. /\ \A g \in Handler : Submitting(g)' <=> Submitting(g)
      /\ \A g \in Handler : Cancelling(g)' <=> Cancelling(g)
      /\ \A g \in Handler : Looking(g)' => Looking(g)
      /\ \A g \in Handler : phase'[g] = "matching" <=> phase[g] = "matching"
  BY <1>7 DEF Submitting, Cancelling, Looking
<1>9. BookInv'
  <2>1. BP!CancelOrder(i)
    BY <1>5
  <2>2. BP!Next
    BY <2>1 DEF BP!Next
  <2> QED
    BY <1>1, <2>2, BookStepInv
<1>10. TypeOK' /\ OneBook' /\ LocalsType' /\ DistinctIds'
  BY <1>1, <1>2, <1>8 DEF ControlInv, TypeOK, OneBook, LocalsType, DistinctIds
<1>11. PhaseInv'
  BY <1>1, <1>4, <1>7, <1>8 DEF PhaseInv
<1>12. MatchInv'
  BY <1>1, <1>6, <1>8 DEF ControlInv, MatchInv
<1>13. RoomLeft'
  <2>1. Unnumbered' = Unnumbered
    BY <1>7 DEF Unnumbered
  <2> QED
    BY <1>1, <2>1 DEF ControlInv, RoomLeft
<1>14. \A j : \A g \in Handler : Debt(g, j)' = Debt(g, j)
  BY <1>6, <1>8 DEF Debt
<1>15. \A j : Pending(j)' = Pending(j)
  BY <1>14, DebtsKept
<1>16. \A j \in OrderId : index[j] = NoLocation => index'[j] = NoLocation
  BY <1>6
<1>17. \A j \in OrderId : Unused(j) => Unused(j)'
  BY <1>2, <1>8, <1>14, <1>16 DEF Unused
<1>18. FreshInv'
  <2>1. \A j \in OrderId : j > order_counter' => Unused(j)' /\ executed'[j] = 0
    BY <1>1, <1>17 DEF AccountInv, FreshInv
  <2>2. \A g \in Handler : phase'[g] \in {"add", "matching"} => Unused(req[g].id)'
    <3> SUFFICES ASSUME NEW g \in Handler, phase'[g] \in {"add", "matching"}
                 PROVE  Unused(req[g].id)'
      OBVIOUS
    <3>1. phase[g] \in {"add", "matching"}
      BY <1>7
    <3>2. req[g] \in SubmitRecord(OrderId)
      BY <1>1, <3>1 DEF PhaseInv, Submitting
    <3>3. PICK j \in OrderId : j = req[g].id
      BY <3>2, SubmitRecordFacts
    <3>4. Unused(j)'
      BY <1>1, <1>17, <3>1, <3>3 DEF AccountInv, FreshInv
    <3> QED
      BY <3>3, <3>4
  <2>3. \A g \in Handler : phase'[g] = "add" => executed'[req'[g].id] = 0
    BY <1>1, <1>7 DEF AccountInv, FreshInv
  <2> QED
    BY <2>1, <2>2, <2>3 DEF FreshInv
<1>19. \A j \in OrderId : index'[j] # NoLocation => index[j] # NoLocation /\ node'[j] = node[j]
  BY <1>6
<1>20. TrackerInv' /\ RestInv'
  BY <1>1, <1>2, <1>15, <1>19 DEF AccountInv, TrackerInv, RestInv, Accounts
<1>21. SubmitInv'
  <2>1. \A g \in Handler : phase[g] = "update_makers" => req[g].id \in OrderId
    BY <1>1, SubmitRecordFacts DEF PhaseInv, Submitting
  <2>2. \A g \in Handler : phase'[g] = "update_makers" => phase[g] = "update_makers"
    BY <1>7
  <2> QED
    BY <1>1, <1>15, <1>19, <2>1, <2>2 DEF AccountInv, SubmitInv, Accounts
<1>22. CancelInv'
  <2>1. \A g \in Handler : Cancelling(g) => req[g].id \in OrderId
    BY <1>1 DEF PhaseInv, Cancelling, Looking, CancelRecord, SubmitRecord
  <2>2. executed[i] < seen[h].orig
    <3>1. executed[i] + node[i].quantity = seen[h].orig
      BY <1>1, <1>3, <1>5 DEF AccountInv, CancelInv, Accounts
    <3>2. node[i].quantity \in Nat \ {0}
      <4>1. node[i] \in BP!RestingOrder
        BY <1>1, <1>5 DEF BookInv, BP!IInv, BP!TypeOK, BP!IndexMatchesLists
      <4> QED
        BY <4>1, BoundsAssumption DEF BP!RestingOrder
    <3>3. executed[i] \in Int
      BY <1>1, BoundsAssumption DEF TypeOK
    <3> QED
      BY <3>1, <3>2, <3>3
  <2>3. \A g \in Handler : Cancelling(g) =>
           Accounts(req[g].id, seen[g].orig, seen[g].remaining, 0)'
    BY <1>1, <1>19, <2>1 DEF AccountInv, CancelInv, Accounts
  <2>4. \A g \in Handler : phase'[g] = "untrack" =>
           index'[req'[g].id] = NoLocation /\ executed'[req'[g].id] < seen'[g].orig
    <3>1. \A g \in Handler : g # h /\ phase'[g] = "untrack" => Cancelling(g) /\ phase[g] = "untrack"
      BY <1>7 DEF Cancelling
    <3> QED
      BY <1>1, <1>5, <1>6, <1>16, <2>1, <2>2, <3>1 DEF AccountInv, CancelInv
  <2> QED
    BY <1>8, <2>3, <2>4 DEF CancelInv
<1>23. AckInv'
  <2>1. acked[i] = 0
    <3>1. acked[i] \in Nat
      BY <1>1 DEF LocalsType
    <3>2. acked[i] <= 1 /\ acked[i] # 1
      BY <1>1, <1>5 DEF AccountInv, AckInv
    <3> QED
      BY <3>1, <3>2
  <2>2. \A g \in Handler : phase[g] = "untrack" => req[g].id # i
    BY <1>1, <1>5 DEF AccountInv, CancelInv, Cancelling
  <2>3. \A g \in Handler : g # h /\ phase'[g] = "untrack" => phase[g] = "untrack"
    BY <1>7
  <2> QED
    BY <1>1, <1>2, <1>5, <1>16, <2>1, <2>2, <2>3 DEF AccountInv, AckInv
<1>24. RestingIsTracked'
  <2>1. \A j \in OrderId : Served(j) => Served(j)'
    BY <1>7 DEF Served
  <2> QED
    BY <1>1, <1>2, <1>16, <2>1 DEF AccountInv, RestingIsTracked
<1> QED
  BY <1>9, <1>10, <1>11, <1>12, <1>13, <1>18, <1>20, <1>21, <1>22, <1>23, <1>24
     DEF ExchangeInv, ControlInv, AccountInv

\* CancelOrder under the book's mutex: the order leaves the book and the
\* handler goes on to untrack it, or it was not there and the answer is 404.
LEMMA CancelInBookKeepsInv ==
    ASSUME ExchangeInv, NEW h \in Handler, CancelInBook(h)
    PROVE  ExchangeInv'
<1>1. /\ phase[h] = "have_book" /\ req[h].kind = "cancel"
      /\ BP!CancelOrder(req[h].id) \/ Book!CancelUnknown(req[h].id)
      /\ UNCHANGED <<indexVars, order_counter, books, executed>>
  BY BookCancelOrder DEF CancelInBook
<1>2. CASE index[req[h].id] # NoLocation
  <2>1. /\ phase' = [phase EXCEPT ![h] = "untrack"]
        /\ UNCHANGED <<req, ptr, leaves, todo, seen>>
    BY <1>2 DEF CancelInBook, AnswersOk
  <2>2. BP!CancelOrder(req[h].id)
    BY <1>1, <1>2 DEF Book!CancelUnknown
  <2> QED
    BY <1>1, <1>2, <2>1, <2>2, CancelFoundKeepsInv
<1>3. CASE index[req[h].id] = NoLocation
  <2>1. Reply(h)
    BY <1>3 DEF CancelInBook, AnswersOk
  <2>2. UNCHANGED bookVars
    BY <1>1, <1>3 DEF BP!CancelOrder, Book!CancelUnknown, Book!vars, bookVars
  <2> QED
    BY <1>1, <2>1, <2>2, CancelRefusedKeepsInv
<1> QED
  BY <1>2, <1>3

\* The tracker is erased and the cancel answered, once for the order.
LEMMA AnswerCancelKeepsInv ==
    ASSUME ExchangeInv, NEW h \in Handler, AnswerCancel(h)
    PROVE  ExchangeInv'
<1>1. /\ phase[h] = "untrack"
      /\ order_index' = [order_index EXCEPT ![req[h].id] = NoTracker]
      /\ acked' = [acked EXCEPT ![req[h].id] = @ + 1]
      /\ Reply(h)
      /\ UNCHANGED <<bookVars, order_counter, books, executed>>
  BY DEF AnswerCancel
<1>2. BookInv /\ ControlInv /\ AccountInv /\ TypeOK /\ LocalsType /\ PhaseInv
  BY DEF ExchangeInv, ControlInv
<1>3. UNCHANGED <<index, node, fills, pc, taker, asked>>
  BY <1>1 DEF bookVars
<1>4. Cancelling(h) /\ ~ Looking(h)
  BY <1>1 DEF Cancelling, Looking
<1>5. PICK i \in OrderId : i = req[h].id
  BY <1>1, <1>2 DEF PhaseInv, CancelRecord
<1>6. /\ \A j \in OrderId : j # i => order_index'[j] = order_index[j] /\ acked'[j] = acked[j]
      /\ order_index'[i] = NoTracker /\ acked'[i] = 1
      /\ order_index' \in [OrderId -> Tracker \cup {NoTracker}]
      /\ acked' \in [OrderId -> Nat]
  <2>1. acked[i] = 0
    BY <1>1, <1>2, <1>5 DEF AccountInv, AckInv
  <2> QED
    BY <1>1, <1>2, <1>5, <2>1 DEF TypeOK, LocalsType
<1>7. BookInv'
  BY <1>1, <1>2, BookUnchangedInv
<1>8. ControlInv'
  BY <1>1, <1>2, <1>3, <1>4, <1>6, ReplyControl
<1>9. FreshInv' /\ TrackerInv' /\ SubmitInv' /\ CancelInv' /\ RestInv'
  BY <1>1, <1>2, <1>3, <1>4, <1>5, <1>6, CancelEnds
<1>10. /\ \A g \in Handler : g # h => phase'[g] = phase[g] /\ req'[g] = req[g]
       /\ phase'[h] = "idle"
  BY <1>1, <1>2, ReplyFacts
<1>11. index[i] = NoLocation
  BY <1>1, <1>2, <1>4, <1>5 DEF AccountInv, CancelInv
<1>12. AckInv'
  <2>1. \A g \in Handler : phase'[g] = "untrack" =>
           g # h /\ phase[g] = "untrack" /\ req'[g] = req[g] /\ req[g].id \in OrderId /\ req[g].id # i
    <3>1. \A g \in Handler : phase'[g] = "untrack" => g # h /\ phase[g] = "untrack" /\ req'[g] = req[g]
      BY <1>10
    <3>2. \A g \in Handler : phase[g] = "untrack" => req[g].id \in OrderId
      BY <1>2 DEF PhaseInv, CancelRecord
    <3>3. \A g \in Handler : g # h /\ phase[g] = "untrack" => req[g].id # i
      BY <1>1, <1>2, <1>5 DEF AccountInv, AckInv
    <3> QED
      BY <3>1, <3>2, <3>3
  <2> QED
    BY <1>2, <1>3, <1>6, <1>11, <2>1 DEF AccountInv, AckInv
<1>13. RestingIsTracked'
  <2>1. \A j \in OrderId : j # i /\ Served(j) => Served(j)'
    BY <1>5, <1>10 DEF Served
  <2> QED
    BY <1>2, <1>3, <1>6, <1>11, <2>1 DEF AccountInv, RestingIsTracked
<1> QED
  BY <1>7, <1>8, <1>9, <1>12, <1>13 DEF ExchangeInv, AccountInv

-----------------------------------------------------------------------------
(* The initial state and the next step                                     *)

\* The invariant holds initially.
LEMMA InitEstablishes == Init => ExchangeInv
<1> SUFFICES ASSUME Init PROVE ExchangeInv
  OBVIOUS
<1>1. /\ Book!Init
      /\ order_index = [i \in OrderId |-> NoTracker]
      /\ order_counter = 0 /\ books = 0
      /\ phase = [h \in Handler |-> "idle"]
      /\ req = [h \in Handler |-> NoRequest]
      /\ ptr = [h \in Handler |-> 0]
      /\ leaves = [h \in Handler |-> 0]
      /\ todo = [h \in Handler |-> <<>>]
      /\ seen = [h \in Handler |-> NoTracker]
      /\ acked = [i \in OrderId |-> 0]
      /\ executed = [i \in OrderId |-> 0]
  BY DEF Init
<1>2. /\ BP!Init
      /\ pc = "idle" /\ fills = <<>>
      /\ index = [i \in OrderId |-> NoLocation]
  <2>1. BP!Init
    BY <1>1, BookInit
  <2> QED
    BY <2>1 DEF BP!Init
<1>3. BookInv
  <2>1. BP!IInv
    BY <1>2, BP!InitInv, BookAssumptions
  <2>2. BP!FillInv
    BY <1>2 DEF BP!FillInv, BP!FillsAddUp
  <2> QED
    BY <2>1, <2>2 DEF BookInv
<1>4. \A h \in Handler : ~ Looking(h) /\ ~ Submitting(h) /\ ~ Cancelling(h)
  BY <1>1 DEF Looking, Submitting, Cancelling
<1>5. TypeOK /\ OneBook /\ LocalsType
  BY <1>1, BoundsAssumption DEF TypeOK, OneBook, LocalsType
<1>6. PhaseInv /\ DistinctIds
  BY <1>1, <1>4 DEF PhaseInv, DistinctIds, DistinctMakers
<1>7. RoomLeft
  <2>1. Unnumbered = {}
    BY <1>1 DEF Unnumbered
  <2> QED
    BY <1>1, <2>1, FS_EmptySet, BoundsAssumption DEF RoomLeft
<1>8. MatchInv
  BY <1>1, <1>2 DEF MatchInv
<1>9. \A i : \A h \in Handler : Debt(h, i) = 0
  BY <1>1, OwedEmpty DEF Debt
<1>10. \A i \in OrderId : Unused(i)
  BY <1>1, <1>2, <1>4, <1>9 DEF Unused
<1>11. FreshInv /\ TrackerInv /\ SubmitInv /\ CancelInv /\ RestInv /\ AckInv /\ RestingIsTracked
  BY <1>1, <1>2, <1>4, <1>10
     DEF FreshInv, TrackerInv, SubmitInv, CancelInv, RestInv, AckInv, RestingIsTracked
<1> QED
  BY <1>3, <1>5, <1>6, <1>7, <1>8, <1>11 DEF ExchangeInv, ControlInv, AccountInv

\* A step of the matching walk: a fill, or a step between two fills.
LEMMA MatchOnKeepsInv ==
    ASSUME ExchangeInv, NEW h \in Handler, MatchOn(h)
    PROVE  ExchangeInv'
<1>1. /\ phase[h] = "matching"
      /\ BP!EnterLevel \/ BP!FillMaker \/ BP!LeaveLevel
      /\ executed' = IF fills' = fills THEN executed ELSE Count(Last(fills'))
      /\ UNCHANGED <<indexVars, order_counter, books, handlerVars>>
  BY BookEnterLevel, BookFillMaker, BookLeaveLevel DEF MatchOn
<1>2. CASE BP!FillMaker
  BY <1>1, <1>2, FillKeepsInv
<1>3. CASE BP!EnterLevel \/ BP!LeaveLevel
  <2>1. executed' = executed
    BY <1>1, <1>3 DEF BP!EnterLevel, BP!LeaveLevel
  <2> QED
    BY <1>1, <1>3, <2>1, WalkKeepsInv
<1> QED
  BY <1>1, <1>2, <1>3

\* A stuttering step keeps the invariant.
LEMMA StutterKeepsInv ==
    ASSUME ExchangeInv, UNCHANGED vars
    PROVE  ExchangeInv'
<1>1. /\ UNCHANGED bookVars
      /\ UNCHANGED <<index, node, fills, pc, taker, asked, order_index, order_counter, books,
                     phase, req, ptr, leaves, todo, seen, acked, executed>>
  BY DEF vars, bookVars
<1>2. BookInv'
  BY <1>1, BookUnchangedInv DEF ExchangeInv
<1>3. ControlInv'
  BY <1>1 DEF ExchangeInv, ControlInv, TypeOK, OneBook, LocalsType, PhaseInv, DistinctIds, RoomLeft,
              MatchInv, Looking, Submitting, Cancelling, Unnumbered
<1>4. \A i : \A g \in Handler : Debt(g, i)' = Debt(g, i)
  BY <1>1 DEF Debt
<1>5. \A i : Pending(i)' = Pending(i)
  BY <1>4, DebtsKept
<1>6. \A i : Unused(i)' <=> Unused(i)
  BY <1>1, <1>4 DEF Unused, Cancelling, Looking
<1>7. AccountInv'
  BY <1>1, <1>5, <1>6
     DEF ExchangeInv, AccountInv, FreshInv, TrackerInv, SubmitInv, CancelInv, RestInv, AckInv,
         RestingIsTracked, Served, Accounts, Cancelling, Looking
<1> QED
  BY <1>2, <1>3, <1>7 DEF ExchangeInv

\* Every critical section of every handler keeps the invariant.
LEMMA NextKeepsInv ==
    ASSUME ExchangeInv, [Next]_vars
    PROVE  ExchangeInv'
<1>1. CASE UNCHANGED vars
  BY <1>1, StutterKeepsInv
<1>2. CASE Next
  <2>1. PICK h \in Handler :
           \/ \E r \in Submission : Submit(h, r)
           \/ \E i \in OrderId : Cancel(h, i)
           \/ FindBook(h) \/ CreateBook(h)
           \/ NumberOrder(h) \/ StartMatch(h) \/ MatchOn(h) \/ FinishMatch(h)
           \/ UpdateMaker(h) \/ AnswerSubmit(h)
           \/ CancelInBook(h) \/ AnswerCancel(h)
    BY <1>2, Zenon DEF Next
  <2>2. ASSUME NEW r \in Submission, Submit(h, r) PROVE ExchangeInv'
    BY <2>2, SubmitKeepsInv
  <2>3. ASSUME NEW i \in OrderId, Cancel(h, i) PROVE ExchangeInv'
    BY <2>3, CancelKeepsInv
  <2>4. CASE FindBook(h)
    BY <2>4, FindBookKeepsInv
  <2>5. CASE CreateBook(h)
    BY <2>5, CreateBookKeepsInv
  <2>6. CASE NumberOrder(h)
    BY <2>6, NumberOrderKeepsInv
  <2>7. CASE StartMatch(h)
    BY <2>7, StartMatchKeepsInv
  <2>8. CASE MatchOn(h)
    BY <2>8, MatchOnKeepsInv
  <2>9. CASE FinishMatch(h)
    BY <2>9, FinishMatchKeepsInv
  <2>10. CASE UpdateMaker(h)
    BY <2>10, UpdateMakerKeepsInv
  <2>11. CASE AnswerSubmit(h)
    BY <2>11, AnswerSubmitKeepsInv
  <2>12. CASE CancelInBook(h)
    BY <2>12, CancelInBookKeepsInv
  <2>13. CASE AnswerCancel(h)
    BY <2>13, AnswerCancelKeepsInv
  <2> QED
    BY <2>1, <2>2, <2>3, <2>4, <2>5, <2>6, <2>7, <2>8, <2>9, <2>10, <2>11, <2>12, <2>13
<1> QED
  BY <1>1, <1>2

-----------------------------------------------------------------------------
(* Theorems                                                                *)

\* The inductive invariant holds in every reachable state of the exchange.
THEOREM ExchangeInvariance == Spec => []ExchangeInv
<1>1. Init => ExchangeInv
  BY InitEstablishes
<1>2. ExchangeInv /\ [Next]_vars => ExchangeInv'
  BY NextKeepsInv
<1> QED
  BY <1>1, <1>2, PTL DEF Spec

\* A tracker in order_index always says that something is left (never zero or
\* less), and leaves_qty and the executed quantities stay within what one
\* submission may ask.
THEOREM TypeCorrect == Spec => []TypeOK
<1>1. ExchangeInv => TypeOK
  BY DEF ExchangeInv, ControlInv
<1> QED
  BY <1>1, ExchangeInvariance, PTL

\* get_or_create_book gives every handler the book that is in the map, although
\* it lets go of books_mu between its two lookups.
THEOREM OneBookAlways == Spec => []OneBook
<1>1. ExchangeInv => OneBook
  BY DEF ExchangeInv, ControlInv
<1> QED
  BY <1>1, ExchangeInvariance, PTL

\* Whatever rests in the book can be found in order_index once the handlers
\* that serve it have answered.
THEOREM RestingIsAlwaysTracked == Spec => []RestingIsTracked
<1>1. ExchangeInv => RestingIsTracked
  BY DEF ExchangeInv, AccountInv
<1> QED
  BY <1>1, ExchangeInvariance, PTL

\* order_index never takes an order for more executed than the book does, with
\* any number of handlers between their match and their update of the makers.
THEOREM TrackersNeverUnderstate == Spec => []TrackerNeverUnderstates
<1>1. ExchangeInv => TrackerNeverUnderstates
  <2> SUFFICES ASSUME ExchangeInv,
                      NEW i \in OrderId, index[i] # NoLocation, order_index[i] # NoTracker
               PROVE  order_index[i].remaining >= node[i].quantity
    BY DEF TrackerNeverUnderstates
  <2>1. BookInv /\ ControlInv /\ AccountInv /\ TypeOK
    BY DEF ExchangeInv, ControlInv
  <2>2. Accounts(i, order_index[i].orig, order_index[i].remaining, Pending(i))
    BY <2>1 DEF AccountInv, TrackerInv
  <2>3. order_index[i] \in Tracker /\ executed[i] \in 0..MaxQty
    BY <2>1 DEF TypeOK
  <2>4. Pending(i) \in Nat
    BY <2>1, PendingType
  <2>5. node[i] \in BP!RestingOrder
    BY <2>1 DEF BookInv, BP!IInv, BP!TypeOK, BP!IndexMatchesLists
  <2>6. /\ order_index[i].orig \in Int /\ order_index[i].remaining \in Int
        /\ executed[i] \in Int /\ node[i].quantity \in Int
    BY <2>3, <2>5, BoundsAssumption DEF Tracker, BP!RestingOrder
  <2> QED
    BY <2>2, <2>4, <2>6 DEF Accounts
<1> QED
  BY <1>1, ExchangeInvariance, PTL

\* The cum_qty of a cancel's report, made from the copy that was taken before
\* the book was asked, never exceeds what was executed.
THEOREM CancelsNeverOverreport == Spec => []CancelNeverOverreports
<1>1. ExchangeInv => CancelNeverOverreports
  <2> SUFFICES ASSUME ExchangeInv, NEW h \in Handler, phase[h] = "untrack"
               PROVE  seen[h].orig - seen[h].remaining <= executed[req[h].id]
    BY DEF CancelNeverOverreports
  <2>1. Cancelling(h)
    BY DEF Cancelling
  <2>2. seen[h] \in Tracker
    BY <2>1 DEF ExchangeInv, ControlInv, PhaseInv
  <2>3. Accounts(req[h].id, seen[h].orig, seen[h].remaining, 0)
    BY <2>1 DEF ExchangeInv, AccountInv, CancelInv
  <2> QED
    BY <2>2, <2>3, BoundsAssumption DEF Accounts, Tracker
<1> QED
  BY <1>1, ExchangeInvariance, PTL

\* Two cancels of one order are never both answered 200, whenever they looked
\* the order up, and a cancel of an order filled in full never is.
THEOREM CancelsAckedOnce == Spec => []CancelAckedOnce
<1>1. ExchangeInv => CancelAckedOnce
  <2> SUFFICES
        ASSUME ExchangeInv, NEW i \in OrderId
        PROVE  LET acks == acked[i] +
                           Cardinality({h \in Handler : phase[h] = "untrack" /\ req[h].id = i})
               IN  /\ acks <= 1
                   /\ acks = 1 => index[i] = NoLocation
                   /\ \A h \in Handler : phase[h] = "untrack" /\ req[h].id = i =>
                         executed[i] < seen[h].orig
    BY DEF CancelAckedOnce
  <2> DEFINE H == {h \in Handler : phase[h] = "untrack" /\ req[h].id = i}
  <2>1. AckInv /\ CancelInv /\ acked[i] \in Nat
    BY DEF ExchangeInv, AccountInv, ControlInv, LocalsType
  <2>2. \A h \in H : h \in Handler /\ index[i] = NoLocation /\ acked[i] = 0 /\ executed[i] < seen[h].orig
    BY <2>1 DEF AckInv, CancelInv, Cancelling
  <2>3. CASE H = {}
    <3>1. Cardinality(H) = 0
      BY <2>3, FS_EmptySet
    <3> QED
      BY <2>1, <2>2, <2>3, <3>1 DEF AckInv
  <2>4. CASE H # {}
    <3>1. PICK h \in Handler : h \in H
      BY <2>2, <2>4
    <3>2. H = {h}
      BY <2>1, <3>1 DEF AckInv
    <3>3. Cardinality(H) = 1
      BY <3>2, FS_Singleton
    <3> QED
      BY <2>2, <3>1, <3>3
  <2> QED
    BY <2>3, <2>4
<1> QED
  BY <1>1, ExchangeInvariance, PTL
=============================================================================
