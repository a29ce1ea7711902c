--------------------------- MODULE OrderProjection ---------------------------
(***************************************************************************)
(* The sample's projection "orders-summary" (src/order2): the list of the   *)
(* orders and the statistics kept beside it, as the events of the orders    *)
(* are applied.  Only placing and cancelling recalculate the statistics.    *)
(*                                                                         *)
(* The events of one order come in an order its aggregate allows; the last  *)
(* event applied may be delivered again, as after a crash between the saved *)
(* projection and its checkpoint.  Nothing in the projection tells an event *)
(* from its repetition: an order whose OrderPlaced comes again is listed    *)
(* and counted again.                                                       *)
(***************************************************************************)
EXTENDS Naturals, Sequences, FiniteSets, SequencesExt

CONSTANTS
    Orders,         \* order ids
    Customers,
    Amounts,        \* total amounts of an order
    MaxTop,         \* how many customers the statistics list (10 in the code)
    MaxEvents       \* bound: events applied

VARIABLES
    orders,         \* the list, in the order the orders were placed
    statistics,     \* [totalOrders, totalRevenue, ordersByStatus, topCustomers]
    aggregates,     \* [order -> [status, customer, amount]], the orders themselves
    listings,       \* [order -> how often its OrderPlaced was applied], history
    last,           \* the event applied last
    applied         \* events applied so far

vars == <<orders, statistics, aggregates, listings, last, applied>>

SummaryAssumption ==
    /\ MaxTop \in Nat /\ MaxEvents \in Nat /\ Amounts \subseteq Nat

Statuses == {"PLACED", "SHIPPED", "CANCELLED"}

NoEvent == [type |-> "none"]
NoOrder == [status |-> "new"]

-----------------------------------------------------------------------------
(* recalculateStatistics() *)

Spending(list) == SelectSeq(list, LAMBDA o : o.status # "CANCELLED")

Revenue(list) == FoldLeft(LAMBDA sum, o : sum + o.amount, 0, Spending(list))

Spent(list, c) == Revenue(SelectSeq(list, LAMBDA o : o.customer = c))

\* The customers with an order that counts, in the order of their first one.
Buyers(list) ==
    FoldLeft(LAMBDA seen, o : IF Contains(seen, o.customer) THEN seen
                              ELSE Append(seen, o.customer), << >>, Spending(list))

\* sort() keeps the order of customers that spent the same.
TopCustomers(list) ==
    LET buyers == Buyers(list)
        before(i, j) == \/ Spent(list, buyers[i]) > Spent(list, buyers[j])
                        \/ Spent(list, buyers[i]) = Spent(list, buyers[j]) /\ i < j
        ranked == SetToSortSeq(DOMAIN buyers, before)
        top    == SubSeq(ranked, 1, IF Len(buyers) < MaxTop THEN Len(buyers) ELSE MaxTop)
    IN  [i \in DOMAIN top |-> [customer |-> buyers[top[i]],
                               spent    |-> Spent(list, buyers[top[i]])]]

Count(list, s) == Cardinality({i \in DOMAIN list : list[i].status = s})

RecalculateStatistics(list) ==
    [totalOrders    |-> Len(list),
     totalRevenue   |-> Revenue(list),
     ordersByStatus |-> [s \in Statuses |-> Count(list, s)],
     topCustomers   |-> TopCustomers(list)]

-----------------------------------------------------------------------------
Init ==
    /\ orders = << >>
    /\ statistics = RecalculateStatistics(<< >>)
    /\ aggregates = [o \in Orders |-> NoOrder]
    /\ listings = [o \in Orders |-> 0]
    /\ last = NoEvent /\ applied = 0

WithStatus(list, id, status) ==
    [i \in DOMAIN list |-> IF list[i].id = id THEN [list[i] EXCEPT !.status = status]
                                              ELSE list[i]]

HandleOrderPlaced(event) ==
    LET newOrders == Append(orders, [id |-> event.id, customer |-> event.customer,
                                     amount |-> event.amount, status |-> "PLACED"])
    IN  orders' = newOrders /\ statistics' = RecalculateStatistics(newOrders)

HandleOrderShipped(event) ==
    /\ orders' = WithStatus(orders, event.id, "SHIPPED")
    /\ UNCHANGED statistics

HandleOrderCancelled_NoStatistics(event) ==
    /\ orders' = WithStatus(orders, event.id, "CANCELLED")
    /\ UNCHANGED statistics
HandleOrderCancelled(event) ==
    LET newOrders == WithStatus(orders, event.id, "CANCELLED")
    IN  orders' = newOrders /\ statistics' = RecalculateStatistics(newOrders)

Apply(event) ==
    /\ applied < MaxEvents
    /\ \/ event.type = "OrderPlaced" /\ HandleOrderPlaced(event)
       \/ event.type = "OrderShipped" /\ HandleOrderShipped(event)
       \/ event.type = "OrderCancelled" /\ HandleOrderCancelled(event)
    /\ listings' = [listings EXCEPT ![event.id] =
                      IF event.type = "OrderPlaced" THEN @ + 1 ELSE @]
    /\ last' = event /\ applied' = applied + 1

-----------------------------------------------------------------------------
(* The orders, and the events they raise.                                   *)

Become(o, status) == aggregates' = [aggregates EXCEPT ![o].status = status]

Create(o, c, n) ==
    /\ aggregates[o].status = "new"
    /\ aggregates' = [aggregates EXCEPT ![o] = [status |-> "pending", customer |-> c, amount |-> n]]
    /\ Apply([type |-> "OrderPlaced", id |-> o, customer |-> c, amount |-> n])

Ship(o) ==
    /\ aggregates[o].status = "paid"
    /\ Become(o, "shipped")
    /\ Apply([type |-> "OrderShipped", id |-> o])

Cancel(o) ==
    /\ aggregates[o].status \notin {"new", "delivered", "cancelled"}
    /\ Become(o, "cancelled")
    /\ Apply([type |-> "OrderCancelled", id |-> o])

\* No event of the projection says that an order was paid or delivered.
Elsewhere(o) ==
    /\ \/ aggregates[o].status = "pending" /\ Become(o, "paid")
       \/ aggregates[o].status = "shipped" /\ Become(o, "delivered")
    /\ UNCHANGED <<orders, statistics, listings, last, applied>>

Redeliver == last # NoEvent /\ Apply(last) /\ UNCHANGED aggregates

Next ==
    \/ \E o \in Orders : \/ \E c \in Customers, n \in Amounts : Create(o, c, n)
                         \/ Ship(o) \/ Cancel(o) \/ Elsewhere(o)
    \/ Redeliver

Spec == Init /\ [][Next]_vars

-----------------------------------------------------------------------------
Summaries == [id : Orders, customer : Customers, amount : Amounts, status : Statuses]

\* What the aggregates owe: of the orders a test picks, those listed twice counted twice.
Owed(ids)   == SumFunctionOnSet([o \in Orders |-> listings[o] * aggregates[o].amount], ids)
Listed(ids) == SumFunctionOnSet(listings, ids)

Known       == {o \in Orders : aggregates[o].status # "new"}
Standing    == {o \in Known : aggregates[o].status # "cancelled"}
Of(c)       == {o \in Standing : aggregates[o].customer = c}

\* What the list says of an order's own status.
Shown(status) == CASE status \in {"pending", "paid"}      -> "PLACED"
                   [] status \in {"shipped", "delivered"} -> "SHIPPED"
                   [] OTHER                               -> "CANCELLED"

\* The read model has its shape, and lists an order once for every time its
\* OrderPlaced was applied, with what its aggregate says (OrderProjection.apply).
TypeOK ==
    /\ orders \in Seq(Summaries)
    /\ applied \in 0 .. MaxEvents
    /\ \A o \in Orders :
         /\ Cardinality({i \in DOMAIN orders : orders[i].id = o}) = listings[o]
         /\ o \in Known <=> listings[o] > 0
    /\ \A i \in DOMAIN orders :
         LET order == aggregates[orders[i].id]
         IN  /\ orders[i].status = Shown(order.status)
             /\ orders[i].customer = order.customer /\ orders[i].amount = order.amount

\* The statistics count an order of the aggregates once for every time its
\* OrderPlaced was applied, and the revenue is that of the orders not cancelled,
\* although shipping does not recalculate it: exact unless an OrderPlaced came
\* twice (OrderProjection.handleOrderPlaced, handleOrderShipped).
RevenueIsCurrent ==
    /\ statistics.totalOrders = Listed(Orders)
    /\ statistics.totalRevenue = Owed(Standing)

\* The counts by status, of the orders as often as they are listed, lag behind
\* by shipments alone: the cancelled ones are exact, and an order counted as
\* placed may have been shipped since (OrderProjection.handleOrderShipped).
CountsLagByShipments ==
    LET counted == statistics.ordersByStatus
        shipped == {o \in Known : aggregates[o].status \in {"shipped", "delivered"}}
    IN  /\ counted["CANCELLED"] = Listed(Known \ Standing)
        /\ counted["PLACED"] >= Listed(Standing \ shipped)
        /\ counted["PLACED"] + counted["SHIPPED"] = Listed(Standing)

\* No customer left out of the list has spent more than one in it, the list is
\* in falling order and says what each spent, an order listed twice counted
\* twice (recalculateStatistics).
TopCustomersAreTop ==
    LET top    == statistics.topCustomers
        listed == {top[i].customer : i \in DOMAIN top}
    IN  /\ \A i \in DOMAIN top : top[i].spent = Owed(Of(top[i].customer))
        /\ \A i, j \in DOMAIN top : i < j => top[i].spent >= top[j].spent
        /\ \A c \in Customers \ listed : \A i \in DOMAIN top : Owed(Of(c)) <= top[i].spent
        /\ Cardinality(listed) = Len(top)

=============================================================================
