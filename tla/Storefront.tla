----------------------------- MODULE Storefront -----------------------------
(***************************************************************************)
(* Requests through the gateway to the order, catalog and payments         *)
(* services, several at once, each a chain of calls and statements with    *)
(* nothing around them; and the mails that tell the customer what was      *)
(* bought.  Gateway has the routes, Catalog the products, Amounts the      *)
(* arithmetic.                                                             *)
(***************************************************************************)
EXTENDS Catalog, Gateway, Amounts, FiniteSets

CONSTANTS
    Slots,     \* requests under way at once; a slot names the order it creates
    Earlier,   \* an order that was there before
    Scenarios  \* what is stored at first, and what each slot may ask for

ASSUME EarlierAssumption == Earlier \notin Slots

Keys == Slots \cup {Earlier}

Statuses == {"pending", "done", "paid", "failed", "cancelled"}

CartItem == [product : Products, quantity : Int]
OrderLine == [product : Products, quantity : Int, price : Amount]
CatalogRow == [price : Amount, currency : DOMAIN Upper, active : BOOLEAN]

ASSUME RowsAssumption == None \notin CatalogRow /\ Gone \notin CatalogRow

\* A row of the catalog, which never sells for nothing, and an order, which has
\* lines and was priced by ResolveItems.
Sellable(row) == row \in CatalogRow /\ row.price > 0

Ordered(order) ==
    /\ DOMAIN order =
          {"user", "email", "items", "total", "currency", "status", "payment"}
    /\ order.items \in Seq(OrderLine) /\ order.items # <<>>
    /\ \A i \in DOMAIN order.items :
          order.items[i].price > 0 /\ order.items[i].quantity > 0
    /\ order.total \in Amount /\ order.currency \in DOMAIN Upper
    /\ order.status \in Statuses

\* What may be stored at first: rows with their created_at, and an order that
\* was accepted for payment.
ASSUME StoresAssumption ==
    \A sc \in Scenarios :
        /\ sc.products = [p \in Products |-> sc.products[p]]
        /\ \A p \in Products :
             sc.products[p] \notin {None, Gone} => Sellable(sc.products[p])
        /\ sc.created \in [Products -> Times \cup {0}]
        /\ \A p \in Products : sc.products[p] # None <=> sc.created[p] # 0
        /\ sc.earlier # None =>
             /\ Ordered(sc.earlier)
             /\ sc.earlier.total = Total(sc.earlier.items)
             /\ sc.earlier.total > 0

\* What the requests may be.  Each is for one of the routes and brings what the
\* route reads; a new product gets an id that no row has had and that no other
\* product gets.
ASSUME ScenariosAssumption ==
    \A sc \in Scenarios : \A s \in Slots : \A q \in sc.requests[s] :
        /\ q.route \in DOMAIN Routes
        /\ q.route = "AdminUpdateOrderStatus" => q.input.order \in Keys
        /\ q.route \in {"CreateProduct", "UpdateProduct"}
           => q.input.product \in Products
        /\ q.route = "CreateProduct" =>
             /\ sc.products[q.input.product] = None
             /\ \A t \in Slots \ {s} : \A r \in sc.requests[t] :
                  r.route = "CreateProduct"
                  => r.input.product # q.input.product

ASSUME InputsAssumption ==
    \A sc \in Scenarios : \A s \in Slots : \A q \in sc.requests[s] :
        /\ q.route = "CreateOrder" => q.input.items \in Seq(CartItem)
        /\ q.route \in {"CreateProduct", "UpdateProduct"} =>
             /\ q.input.price \in Amount /\ q.input.currency \in DOMAIN Upper
             /\ q.input.active \in BOOLEAN
        /\ q.route = "ListProducts" => q.input.size \in Int

VARIABLES
    scenario,
    expired,   \* slots whose access token has expired
    calls,     \* the request of each slot
    orders,    \* orders with their items
    charges,   \* the payments table
    sessions,  \* checkout sessions at Stripe
    events,    \* published and not handled: payment.succeeded, status updates
    mails      \* what the customers were sent

ordersVars == <<orders, charges, sessions, events, mails>>
vars == <<scenario, expired, calls, ordersVars, catalogVars>>

\* A request on its way.  pc is the call or statement that comes next, hand what
\* was read so far, did whether a write has found its row, shown the orders and
\* payments in the answer.
NoCall == [request |-> None, pc |-> "idle", status |-> 0, did |-> FALSE,
           hand |-> None, shown |-> {}]

\* Type correctness.  Besides: payments are over a positive amount even when the
\* total of the order has wrapped around.
TypeOK ==
    /\ scenario \in Scenarios
    /\ expired \subseteq Slots
    /\ \A p \in Products : Stored(p) => Sellable(products[p])
    /\ \A k \in Keys :
          /\ orders[k] # None => Ordered(orders[k])
          /\ charges[k] # None => charges[k].amount \in Amount /\ charges[k].amount > 0
          /\ sessions[k] # None => sessions[k].amount \in Amount
    /\ \A s \in Slots : calls[s].status \in {0, 200, 201, 400, 401, 403, 500}

\* The payment of an order, and the session opened for it.
Charge(order, paid) ==
    [amount |-> order.total, currency |-> Lower[order.currency], paid |-> paid]

Init ==
    /\ scenario \in Scenarios
    /\ expired = {}
    /\ calls = [s \in Slots |-> NoCall]
    /\ products = scenario.products
    /\ created = scenario.created
    /\ orders = [k \in Keys |-> IF k = Earlier THEN scenario.earlier ELSE None]
    /\ charges = [k \in Keys |->
                    IF k = Earlier /\ scenario.earlier # None
                    THEN Charge(scenario.earlier, FALSE) ELSE None]
    /\ sessions = charges
    /\ events = {}
    /\ mails = {}

At(s, pc) == calls[s].pc = pc
Asked(s) == calls[s].request
Input(s) == Asked(s).input
Goto(s, pc) == calls' = [calls EXCEPT ![s].pc = pc]
Answer(s, status) ==
    calls' = [calls EXCEPT ![s].pc = "done", ![s].status = status]
Error(s) == Answer(s, Routes[Asked(s).route].error)

-----------------------------------------------------------------------------
\* The gateway.

\* The call or statement a route begins with.
First(q) ==
    CASE q.route = "CreateOrder" /\ ~q.input.email -> "email"
      [] q.route = "CreateOrder" /\ q.input.email -> "products"
      [] q.route = "GetCart" -> "view_cart"
      [] q.route \in {"GetOrder", "ListOrders", "AdminGetOrder",
                      "AdminListOrders"} -> "read_orders"
      [] q.route = "AdminDeleteOrder" -> "delete_order"
      [] q.route = "AdminUpdateOrderStatus" -> "get_order"
      [] q.route \in {"AdminListPayments", "AdminGetPayment"} -> "read_payments"
      [] q.route = "AdminDeletePayment" -> "delete_payment"
      [] q.route \in {"GetProduct", "UpdateProduct"} -> "get_product"
      [] q.route = "ListProducts" -> "count"
      [] q.route = "CreateProduct" -> "stamp"
      [] q.route = "DeleteProduct" -> "delete_product"
      [] OTHER -> "elsewhere"

Before(q) ==
    CASE q.route = "CreateOrder" -> [email |-> q.input.email, total |-> 0]
      [] q.route = "ListProducts" ->
           [page |-> 1, seen |-> {}, last |-> {}, full |-> FALSE,
            start |-> DOMAIN AllRows]
      [] OTHER -> None

Arrive(s) ==
    /\ At(s, "idle")
    /\ \E q \in scenario.requests[s] :
          calls' = [calls EXCEPT ![s] =
                      [NoCall EXCEPT !.request = q, !.pc = "gateway",
                                     !.hand = Before(q)]]
    /\ UNCHANGED <<scenario, expired, ordersVars, catalogVars>>

Admit(s) ==
    /\ At(s, "gateway")
    /\ LET q == Asked(s)
           refusal == Refusal(Routes[q.route], q, s \in expired)
       IN IF refusal # 0 THEN Answer(s, refusal) ELSE Goto(s, First(q))
    /\ UNCHANGED <<scenario, expired, ordersVars, catalogVars>>

Expire(s) ==
    /\ scenario.expiring
    /\ s \notin expired /\ calls[s].pc # "done"
    /\ expired' = expired \cup {s}
    /\ UNCHANGED <<scenario, calls, ordersVars, catalogVars>>

\* A call fails, or is answered too late; what was done so far stays.
Fail(s) ==
    /\ calls[s].pc \notin {"idle", "gateway", "email", "done"}
    /\ Error(s)
    /\ UNCHANGED <<scenario, expired, ordersVars, catalogVars>>

Reply(s) ==
    /\ At(s, "reply")
    /\ Answer(s, Routes[Asked(s).route].ok)
    /\ UNCHANGED <<scenario, expired, ordersVars, catalogVars>>

\* The order service refuses whoever asks for nobody's cart.
CartOfNobody(q) == q.route \in DOMAIN CartRoutes /\ q.user = ""

\* Accounts, profiles and carts.
Elsewhere(s) ==
    /\ At(s, "elsewhere") /\ ~CartOfNobody(Asked(s))
    /\ Goto(s, "reply")
    /\ UNCHANGED <<scenario, expired, ordersVars, catalogVars>>

\* userEmail asks the auth service and orders without an address when that
\* fails.
UserEmail(s) ==
    /\ At(s, "email")
    /\ \E known \in BOOLEAN :
          /\ known => s \notin expired
          /\ calls' = [calls EXCEPT ![s].pc = "products", ![s].hand.email = known]
    /\ UNCHANGED <<scenario, expired, ordersVars, catalogVars>>

-----------------------------------------------------------------------------
\* The order service: CreateOrder.

GetProducts(s) ==
    /\ At(s, "products")
    /\ LET items == Input(s).items
           rows == Rows({items[i].product : i \in DOMAIN items})
           priced == ResolveItems(items, rows)
       IN IF Refused(items, rows) THEN Error(s)
          ELSE calls' = [calls EXCEPT ![s].pc = "insert_order",
                 ![s].hand = [user |-> Asked(s).user, email |-> @.email,
                              items |-> priced.lines, total |-> priced.total,
                              currency |-> priced.currency,
                              status |-> "pending", payment |-> FALSE]]
    /\ UNCHANGED <<scenario, expired, ordersVars, catalogVars>>

InsertOrder(s) ==
    /\ At(s, "insert_order")
    /\ orders' = [orders EXCEPT ![s] = calls[s].hand]
    /\ Goto(s, "create_payment")
    /\ UNCHANGED <<scenario, expired, charges, sessions, events, mails, catalogVars>>

\* Variant of CreatePayment: any amount will do.
CreatePaymentUnchecked(s) ==
    /\ At(s, "create_payment")
    /\ charges' = [charges EXCEPT ![s] = Charge(calls[s].hand, FALSE)]
    /\ sessions' = [sessions EXCEPT ![s] = Charge(calls[s].hand, FALSE)]
    /\ calls' = [calls EXCEPT ![s].pc = "set_payment", ![s].did = TRUE]
    /\ UNCHANGED <<scenario, expired, orders, events, mails, catalogVars>>

\* CreatePayment in the payments service opens a session at Stripe and stores
\* the payment.
CreatePayment(s) ==
    /\ At(s, "create_payment")
    /\ IF calls[s].hand.total <= 0
       THEN Error(s) /\ UNCHANGED <<charges, sessions>>
       ELSE /\ charges' = [charges EXCEPT ![s] = Charge(calls[s].hand, FALSE)]
            /\ sessions' = [sessions EXCEPT ![s] = Charge(calls[s].hand, FALSE)]
            /\ calls' = [calls EXCEPT ![s].pc = "set_payment", ![s].did = TRUE]
    /\ UNCHANGED <<scenario, expired, orders, events, mails, catalogVars>>

SetPaymentInfo(s) ==
    /\ At(s, "set_payment")
    /\ orders' = IF orders[s] = None THEN orders
                 ELSE [orders EXCEPT ![s].payment = TRUE]
    /\ Goto(s, "reply")
    /\ UNCHANGED <<scenario, expired, charges, sessions, events, mails, catalogVars>>

\* Looking at the cart.
ViewCart(s) ==
    /\ At(s, "view_cart") /\ ~CartOfNobody(Asked(s))
    /\ calls' = [calls EXCEPT ![s].pc = "reply",
                   ![s].hand = CartView(Input(s).items, AllRows)]
    /\ UNCHANGED <<scenario, expired, ordersVars, catalogVars>>

-----------------------------------------------------------------------------
\* The order service: reading orders, and what staff may do to them.

\* The orders stored for a user; the empty user stands for everyone's.
ForUser(user) ==
    {k \in Keys : orders[k] # None /\ (user = "" \/ orders[k].user = user)}

\* GetForUser, ListForUser and ListAll: one statement each.
OrdersFound(q) ==
    CASE q.route = "GetOrder" -> ForUser(q.user) \cap {q.input.order}
      [] q.route = "ListOrders" -> ForUser(q.user)
      [] q.route = "AdminGetOrder" -> ForUser("") \cap {q.input.order}
      [] q.route = "AdminListOrders" -> ForUser(q.input.user)

ReadOrders(s) ==
    /\ At(s, "read_orders")
    /\ LET found == OrdersFound(Asked(s)) IN
       IF found = {} /\ Asked(s).route \in {"GetOrder", "AdminGetOrder"}
       THEN Error(s)
       ELSE calls' = [calls EXCEPT ![s].pc = "reply",
                                   ![s].shown = {<<"order", k>> : k \in found}]
    /\ UNCHANGED <<scenario, expired, ordersVars, catalogVars>>

\* No order is no error, the answer says that nothing was deleted.
DeleteOrder(s) ==
    /\ At(s, "delete_order")
    /\ orders' = [orders EXCEPT ![Input(s).order] = None]
    /\ calls' = [calls EXCEPT ![s].pc = "reply",
                              ![s].did = orders[Input(s).order] # None]
    /\ UNCHANGED <<scenario, expired, charges, sessions, events, mails, catalogVars>>

\* UpdateStatus reads the order, updates it and reads it again.
GetOrderToUpdate(s) ==
    /\ At(s, "get_order")
    /\ IF Input(s).status \notin Statuses \/ orders[Input(s).order] = None
       THEN Error(s) ELSE Goto(s, "set_status")
    /\ UNCHANGED <<scenario, expired, ordersVars, catalogVars>>

SetStatus(s) ==
    /\ At(s, "set_status")
    /\ LET k == Input(s).order IN
       /\ orders' = IF orders[k] = None THEN orders
                    ELSE [orders EXCEPT ![k].status = Input(s).status]
       /\ calls' = [calls EXCEPT ![s].pc = "reread_order",
                                 ![s].did = orders[k] # None]
    /\ UNCHANGED <<scenario, expired, charges, sessions, events, mails, catalogVars>>

\* GetForUser reads the order and then its items; a deletion in between leaves
\* the order without items.
RereadOrder(s) ==
    /\ At(s, "reread_order")
    /\ LET k == Input(s).order IN
       IF orders[k] = None THEN Error(s)
       ELSE calls' = [calls EXCEPT ![s].pc = "reread_items", ![s].hand = orders[k]]
    /\ UNCHANGED <<scenario, expired, ordersVars, catalogVars>>

StatusEvent(k, order) ==
    [kind |-> "status", order |-> k, total |-> order.total,
     currency |-> order.currency,
     items |-> [i \in DOMAIN order.items |->
                  [amount |-> LineAmount(order.items[i])]]]

\* The customer is told, if there is an address; an event that cannot be
\* published is only logged.
NotifyStatusChanged(s) ==
    /\ At(s, "reread_items")
    /\ LET k == Input(s).order
           order == IF orders[k] = None THEN [calls[s].hand EXCEPT !.items = <<>>]
                    ELSE calls[s].hand
       IN /\ calls' = [calls EXCEPT ![s].pc = "reply",
                                    ![s].shown = {<<"order", k>>}]
          /\ \E published \in BOOLEAN :
                events' = IF published /\ order.email
                          THEN events \cup {StatusEvent(k, order)} ELSE events
    /\ UNCHANGED <<scenario, expired, orders, charges, sessions, mails, catalogVars>>

-----------------------------------------------------------------------------
\* The payments service, and the customer paying.

PaymentsFound(q) ==
    {k \in Keys : charges[k] # None /\ q.input.order \in {k, ""}}

ReadPayments(s) ==
    /\ At(s, "read_payments")
    /\ LET found == PaymentsFound(Asked(s)) IN
       IF found = {} /\ Asked(s).route = "AdminGetPayment"
       THEN Error(s)
       ELSE calls' = [calls EXCEPT ![s].pc = "reply",
                                   ![s].shown = {<<"payment", k>> : k \in found}]
    /\ UNCHANGED <<scenario, expired, ordersVars, catalogVars>>

\* No payment is an error.
DeletePayment(s) ==
    /\ At(s, "delete_payment")
    /\ LET k == Input(s).order IN
       IF charges[k] = None THEN Error(s) /\ UNCHANGED charges
       ELSE /\ charges' = [charges EXCEPT ![k] = None]
            /\ calls' = [calls EXCEPT ![s].pc = "reply", ![s].did = TRUE]
    /\ UNCHANGED <<scenario, expired, orders, sessions, events, mails, catalogVars>>

\* The customer pays at Stripe, which knows nothing of the tables.
Pay(k) ==
    /\ sessions[k] # None
    /\ sessions' = [sessions EXCEPT ![k].paid = TRUE]
    /\ UNCHANGED <<scenario, expired, calls, orders, charges, events, mails,
                   catalogVars>>

\* The webhook saves the payment as a succeeded one and publishes what it has
\* saved: the row, or one made from the event when the row is gone.  Stripe may
\* send the event again.
Webhook(k) ==
    /\ sessions[k] # None /\ sessions[k].paid
    /\ LET row == IF charges[k] = None THEN sessions[k] ELSE charges[k] IN
       /\ charges' = [charges EXCEPT ![k] = [row EXCEPT !.paid = TRUE]]
       /\ events' = events \cup {[kind |-> "paid", order |-> k,
                                  amount |-> row.amount,
                                  currency |-> row.currency]}
    /\ UNCHANGED <<scenario, expired, calls, orders, sessions, mails, catalogVars>>

-----------------------------------------------------------------------------
\* The catalog service.

GetProduct(s) ==
    /\ At(s, "get_product")
    /\ IF \/ Asked(s).route = "UpdateProduct" /\ ~Complete(Input(s))
          \/ ~Stored(Input(s).product)
       THEN Error(s)
       ELSE Goto(s, IF Asked(s).route = "GetProduct"
                    THEN "reply" ELSE "update_product")
    /\ UNCHANGED <<scenario, expired, ordersVars, catalogVars>>

\* Variant of UpdateProduct: the row of the first read is answered.
UpdateProductUnread(s) ==
    /\ At(s, "update_product")
    /\ Update(Input(s).product, Input(s))
    /\ calls' = [calls EXCEPT ![s].pc = "reply",
                              ![s].did = Stored(Input(s).product)]
    /\ UNCHANGED <<scenario, expired, ordersVars>>

UpdateProduct(s) ==
    /\ At(s, "update_product")
    /\ Update(Input(s).product, Input(s))
    /\ calls' = [calls EXCEPT ![s].pc = "reread_product",
                              ![s].did = Stored(Input(s).product)]
    /\ UNCHANGED <<scenario, expired, ordersVars>>

RereadProduct(s) ==
    /\ At(s, "reread_product")
    /\ IF Stored(Input(s).product) THEN Goto(s, "reply") ELSE Error(s)
    /\ UNCHANGED <<scenario, expired, ordersVars, catalogVars>>

StampProduct(s) ==
    /\ At(s, "stamp")
    /\ IF Complete(Input(s))
       THEN Stamp(Input(s).product) /\ Goto(s, "insert_product")
       ELSE Error(s) /\ UNCHANGED catalogVars
    /\ UNCHANGED <<scenario, expired, ordersVars>>

InsertProduct(s) ==
    /\ At(s, "insert_product")
    /\ Create(Input(s).product, Input(s))
    /\ calls' = [calls EXCEPT ![s].pc = "reply", ![s].did = TRUE]
    /\ UNCHANGED <<scenario, expired, ordersVars>>

DeleteProduct(s) ==
    /\ At(s, "delete_product")
    /\ Delete(Input(s).product)
    /\ calls' = [calls EXCEPT ![s].pc = "reply",
                              ![s].did = Stored(Input(s).product)]
    /\ UNCHANGED <<scenario, expired, ordersVars>>

\* List counts the rows and then reads the page.
CountProducts(s) ==
    /\ At(s, "count")
    /\ Goto(s, "find")
    /\ UNCHANGED <<scenario, expired, ordersVars, catalogVars>>

FindProducts(s) ==
    /\ At(s, "find")
    /\ \E place \in Sortings :
          LET page == Page(place, calls[s].hand.page, Input(s).size) IN
          calls' = [calls EXCEPT ![s].pc = "reply",
                      ![s].hand.last = page,
                      ![s].hand.full = /\ Input(s).size > 0
                                       /\ Cardinality(page) = Input(s).size]
    /\ UNCHANGED <<scenario, expired, ordersVars, catalogVars>>

\* What the visitor has seen when the page is shown.
Seen(s) == calls[s].hand.seen \cup calls[s].hand.last

\* The visitor turns the page after a full one, and tries a failed one again.
TurnPage(s) ==
    /\ At(s, "done") /\ Asked(s).route = "ListProducts"
    /\ calls[s].status # 200 \/ calls[s].hand.full
    /\ calls' = [calls EXCEPT ![s].pc = "gateway", ![s].status = 0,
                   ![s].hand.page = IF calls[s].status = 200 THEN @ + 1 ELSE @,
                   ![s].hand.seen = IF calls[s].status = 200
                                    THEN Seen(s) ELSE @]
    /\ UNCHANGED <<scenario, expired, ordersVars, catalogVars>>

-----------------------------------------------------------------------------
\* The mails.

\* The receipt's lines are those of the order, if the order service answers and
\* still has it.
MailReceipt(e) ==
    /\ e.kind = "paid"
    /\ \E answered \in BOOLEAN :
          LET lines == IF answered /\ orders[e.order] # None
                       THEN orders[e.order].items ELSE <<>>
          IN mails' = mails \cup
                {[order |-> e.order, items |-> Len(lines),
                  text |-> Receipt(e, ReceiptItems(lines))]}
    /\ events' = events \ {e}
    /\ UNCHANGED <<scenario, expired, calls, orders, charges, sessions, catalogVars>>

MailStatus(e) ==
    /\ e.kind = "status"
    /\ mails' = mails \cup {[order |-> e.order, items |-> Len(e.items),
                             text |-> StatusMail(e)]}
    /\ events' = events \ {e}
    /\ UNCHANGED <<scenario, expired, calls, orders, charges, sessions, catalogVars>>

-----------------------------------------------------------------------------
SlotStep(s) ==
    \/ Arrive(s) \/ Admit(s) \/ Expire(s) \/ Fail(s) \/ Reply(s) \/ Elsewhere(s)
    \/ UserEmail(s) \/ GetProducts(s) \/ InsertOrder(s) \/ CreatePayment(s)
    \/ SetPaymentInfo(s) \/ ViewCart(s) \/ ReadOrders(s) \/ DeleteOrder(s)
    \/ GetOrderToUpdate(s) \/ SetStatus(s) \/ RereadOrder(s)
    \/ NotifyStatusChanged(s) \/ ReadPayments(s) \/ DeletePayment(s)
    \/ GetProduct(s) \/ UpdateProduct(s) \/ RereadProduct(s)
    \/ StampProduct(s) \/ InsertProduct(s) \/ DeleteProduct(s)
    \/ CountProducts(s) \/ FindProducts(s) \/ TurnPage(s)

Next ==
    \/ \E s \in Slots : SlotStep(s)
    \/ \E k \in Keys : Pay(k) \/ Webhook(k)
    \/ \E e \in events : MailReceipt(e) \/ MailStatus(e)

Spec == Init /\ [][Next]_vars

-----------------------------------------------------------------------------
\* What the customer was charged for, or would have been.
Promised(k) ==
    IF k = Earlier THEN scenario.earlier.total ELSE calls[k].hand.total

\* The policy the comments beside the admin routes state: who may see whose
\* orders, who may change them, and that payments and products are more
\* restricted than orders.
MaySee(q, row) ==
    IF row[1] = "order"
    THEN q.role \in {"admin", "manager", "seller"} \/ orders[row[2]].user = q.user
    ELSE q.role \in {"admin", "manager"}

MayChange(q, s) ==
    /\ products' # products => q.role = "admin"
    /\ \A k \in Keys : orders'[k] # orders[k] =>
          k = s \/ q.role \in {"admin", "manager"}
    /\ \A k \in Keys : charges'[k] # charges[k] => k = s \/ q.role = "admin"
    /\ <<products, orders, charges>>' # <<products, orders, charges>> => q.cookie

\* Nobody sees or changes by a request what the policy does not give them, and
\* nobody does without a cookie: what the middleware in front of a handler lets
\* through and what the service behind it selects have to agree
\* (gateway/internal/server/server.go, order/internal/db/repo.go).
Authorised ==
    [][\A s \in Slots :
          calls[s].request # None /\ calls'[s] # calls[s] =>
             /\ MayChange(Asked(s), s)
             /\ \A row \in calls'[s].shown \ calls[s].shown :
                   Asked(s).cookie /\ MaySee(Asked(s), row)]_vars

\* An order, product or payment that was reported as created, updated or
\* deleted was, even when others delete and update between the statements of
\* the request, which nothing but reading the row again tells
\* (catalog/internal/db/repo.go Update, order/internal/db/repo.go UpdateStatus).
SuccessMeansDone ==
    \A s \in Slots :
        /\ calls[s].status \in {200, 201}
        /\ Asked(s).route \in {"CreateOrder", "AdminUpdateOrderStatus",
                               "CreateProduct", "UpdateProduct",
                               "AdminDeletePayment"}
        => calls[s].did

\* A mail that lists the items lists all of them, the printed amounts add up to
\* what was promised when the order was placed, and so does the printed total:
\* whatever happened to the catalog and the order since, and although the data
\* of a receipt is built twice (notification/internal/nats/receipt.go
\* SendReceipt and renderReceipt).
MailsAddUp ==
    \A m \in mails :
        LET text == m.text
            sum == AddUp([i \in DOMAIN text.lines |-> ReadAmount(text.lines[i])])
        IN /\ Len(text.lines) = m.items
           /\ text.lines # <<>> => sum = Promised(m.order)
           /\ text.total # <<>> => ReadAmount(text.total[1]) = Promised(m.order)
           /\ text.subtotal # <<>> =>
                 ReadAmount(text.subtotal[1]) = Promised(m.order)

\* There is, or was, a row created at the same time as p.
Shared(p) ==
    \E q \in Products \ {p} : products[q] # None /\ created[q] = created[p]

\* A visitor who turns the pages of the catalog to the end misses at most one
\* product for every one that was deleted, however many were created meanwhile
\* and wherever the query puts those created at the same time, which may
\* themselves be missed
\* (catalog/internal/db/repo.go List: the offset counts rows, not products).
PagesMissLittle ==
    \A s \in Slots :
        At(s, "done") /\ Asked(s).route = "ListProducts"
        /\ calls[s].status = 200 /\ ~calls[s].hand.full
        => Cardinality({p \in calls[s].hand.start : Stored(p) /\ ~Shared(p)}
                         \ Seen(s))
             <= Cardinality({p \in Products : products[p] = Gone})
=============================================================================
