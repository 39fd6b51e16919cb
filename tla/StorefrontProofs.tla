-------------------------- MODULE StorefrontProofs --------------------------
(***************************************************************************)
(* Theorems about the requests through the gateway, for any number of them *)
(* at once and whatever is stored at first and asked for.                  *)
(***************************************************************************)
EXTENDS Storefront, FiniteSetTheorems, SequenceTheorems, WellFoundedInduction,
        TLAPS

(***************************************************************************)
(* The routes.  A route is in one table only.                              *)
(***************************************************************************)
LEMMA TableDomains ==
    /\ DOMAIN AuthRoutes = {"Register", "Login", "Refresh", "ValidateToken",
                            "VerifyEmail"}
    /\ DOMAIN ProfileRoutes = {"GetProfile", "UpdateProfile"}
    /\ DOMAIN CreateOrderRoute = {"CreateOrder"}
    /\ DOMAIN CartRoutes = {"GetCart", "AddToCart", "UpdateCartItem",
                            "ClearCart", "CheckoutCart"}
    /\ DOMAIN OwnOrderRoutes = {"GetOrder", "ListOrders"}
    /\ DOMAIN ShopRoutes = {"GetProduct", "ListProducts"}
    /\ DOMAIN AdminOrderRoutes = {"AdminListOrders", "AdminGetOrder",
                                  "AdminDeleteOrder", "AdminUpdateOrderStatus"}
    /\ DOMAIN PaymentRoutes = {"AdminListPayments", "AdminGetPayment",
                               "AdminDeletePayment"}
    /\ DOMAIN ProductRoutes = {"CreateProduct", "UpdateProduct",
                               "DeleteProduct"}
BY DEF AuthRoutes, ProfileRoutes, CreateOrderRoute, CartRoutes, OwnOrderRoutes,
       ShopRoutes, AdminOrderRoutes, PaymentRoutes, ProductRoutes

LEMMA RouteInTable ==
    ASSUME NEW route \in DOMAIN Routes
    PROVE  \E t \in Tables : route \in DOMAIN t /\ Routes[route] = t[route]
BY DEF Routes

LEMMA RouteTable ==
    /\ \A r \in DOMAIN Routes \cap DOMAIN CreateOrderRoute :
         Routes[r] = CreateOrderRoute[r]
    /\ \A r \in DOMAIN Routes \cap DOMAIN OwnOrderRoutes :
         Routes[r] = OwnOrderRoutes[r]
    /\ \A r \in DOMAIN Routes \cap DOMAIN AdminOrderRoutes :
         Routes[r] = AdminOrderRoutes[r]
    /\ \A r \in DOMAIN Routes \cap DOMAIN PaymentRoutes :
         Routes[r] = PaymentRoutes[r]
    /\ \A r \in DOMAIN Routes \cap DOMAIN ProductRoutes :
         Routes[r] = ProductRoutes[r]
BY RouteInTable, TableDomains DEF Tables

LEMMA TableErrors ==
    \A t \in Tables : \A r \in DOMAIN t :
        t[r].ok \in {200, 201} /\ t[r].error \in {400, 500}
<1> DEFINE Errs(t) ==
      \A r \in DOMAIN t : t[r].ok \in {200, 201} /\ t[r].error \in {400, 500}
<1>1. Errs(AuthRoutes)
  <2>1. /\ AuthRoutes["Register"].ok = 200 /\ AuthRoutes["Register"].error = 500
        /\ AuthRoutes["Login"].ok = 200 /\ AuthRoutes["Login"].error = 500
    BY DEF AuthRoutes, Public, Row
  <2>2. /\ AuthRoutes["Refresh"].ok = 200 /\ AuthRoutes["Refresh"].error = 500
        /\ AuthRoutes["ValidateToken"].ok = 200
        /\ AuthRoutes["ValidateToken"].error = 500
    BY DEF AuthRoutes, Row
  <2>3. AuthRoutes.VerifyEmail.ok = 200 /\ AuthRoutes.VerifyEmail.error = 400
    BY DEF AuthRoutes, Public, Row
  <2> QED
    BY <2>1, <2>2, <2>3, TableDomains
<1>2. Errs(ProfileRoutes)
  BY DEF ProfileRoutes, User, Row
<1>3. Errs(CreateOrderRoute)
  BY DEF CreateOrderRoute, User, Row
<1>4. Errs(CartRoutes)
  BY DEF CartRoutes, Bearer, Row
<1>5. Errs(OwnOrderRoutes)
  BY DEF OwnOrderRoutes, User, Row
<1>6. Errs(ShopRoutes)
  BY DEF ShopRoutes, Public, Row
<1>7. Errs(AdminOrderRoutes)
  BY DEF AdminOrderRoutes, Staff, Row
<1>8. Errs(PaymentRoutes)
  BY DEF PaymentRoutes, Staff, Row
<1>9. Errs(ProductRoutes)
  BY DEF ProductRoutes, Staff, Row
<1> HIDE DEF Errs
<1>10. \A t \in Tables : Errs(t)
  BY <1>1, <1>2, <1>3, <1>4, <1>5, <1>6, <1>7, <1>8, <1>9 DEF Tables
<1> QED
  BY <1>10 DEF Errs

\* An error is never reported with a status of success.
LEMMA RouteErrors ==
    \A route \in DOMAIN Routes :
        Routes[route].ok \in {200, 201} /\ Routes[route].error \in {400, 500}
BY RouteInTable, TableErrors

-----------------------------------------------------------------------------
(***************************************************************************)
(* What is known of a request that the gateway has let through; its token  *)
(* may have expired since.                                                 *)
(***************************************************************************)
Passed(q) == Refusal(Routes[q.route], q, FALSE) = 0

LEMMA PassedAll ==
    ASSUME NEW q
    PROVE  Passed(q) <=> /\ ~Unauthorized(Routes[q.route], q, FALSE)
                         /\ ~Forbidden(Routes[q.route], q)
                         /\ ~Malformed(Routes[q.route], q)
<1> DEFINE refusal == Refusal(Routes[q.route], q, FALSE)
<1>0. Passed(q) <=> refusal = 0
  BY DEF Passed
<1> HIDE DEF refusal
<1>1. CASE Unauthorized(Routes[q.route], q, FALSE)
  <2>1. refusal = 401
    BY <1>1 DEF Refusal, refusal
  <2>2. ~Passed(q)
    BY <1>0, <2>1
  <2> QED
    BY <1>1, <2>2
<1>2. CASE /\ ~Unauthorized(Routes[q.route], q, FALSE)
           /\ Forbidden(Routes[q.route], q)
  <2>1. refusal = 403
    BY <1>2 DEF Refusal, refusal
  <2>2. ~Passed(q)
    BY <1>0, <2>1
  <2> QED
    BY <1>2, <2>2
<1>3. CASE /\ ~Unauthorized(Routes[q.route], q, FALSE)
           /\ ~Forbidden(Routes[q.route], q) /\ Malformed(Routes[q.route], q)
  <2>1. refusal = 400
    BY <1>3 DEF Refusal, refusal
  <2>2. ~Passed(q)
    BY <1>0, <2>1
  <2> QED
    BY <1>3, <2>2
<1>4. CASE /\ ~Unauthorized(Routes[q.route], q, FALSE)
           /\ ~Forbidden(Routes[q.route], q) /\ ~Malformed(Routes[q.route], q)
  <2>1. refusal = 0
    BY <1>4 DEF Refusal, refusal
  <2> QED
    BY <1>0, <1>4, <2>1
<1> QED
  BY <1>1, <1>2, <1>3, <1>4

LEMMA RefusalPasses ==
    ASSUME NEW q, NEW s
    PROVE  /\ Refusal(Routes[q.route], q, s \in expired) \in {0, 400, 401, 403}
           /\ Refusal(Routes[q.route], q, s \in expired) = 0 => Passed(q)
<1> DEFINE refusal == Refusal(Routes[q.route], q, s \in expired)
<1>1. CASE Unauthorized(Routes[q.route], q, s \in expired)
  <2>1. refusal = 401
    BY <1>1 DEF Refusal
  <2> QED
    BY <2>1
<1>2. CASE /\ ~Unauthorized(Routes[q.route], q, s \in expired)
           /\ Forbidden(Routes[q.route], q)
  <2>1. refusal = 403
    BY <1>2 DEF Refusal
  <2> QED
    BY <2>1
<1>3. CASE /\ ~Unauthorized(Routes[q.route], q, s \in expired)
           /\ ~Forbidden(Routes[q.route], q) /\ Malformed(Routes[q.route], q)
  <2>1. refusal = 400
    BY <1>3 DEF Refusal
  <2> QED
    BY <2>1
<1>4. CASE /\ ~Unauthorized(Routes[q.route], q, s \in expired)
           /\ ~Forbidden(Routes[q.route], q) /\ ~Malformed(Routes[q.route], q)
  <2>1. refusal = 0
    BY <1>4 DEF Refusal
  <2>2. ~Unauthorized(Routes[q.route], q, FALSE)
    BY <1>4 DEF Unauthorized
  <2> QED
    BY <1>4, <2>1, <2>2, PassedAll
<1> QED
  BY <1>1, <1>2, <1>3, <1>4

LEMMA PassedBrings ==
    ASSUME NEW q, Passed(q), Routes[q.route].needs \in {"token", "user"}
    PROVE  /\ q.cookie
           /\ Routes[q.route].needs = "token" => q.role \in Routes[q.route].roles
           /\ Routes[q.route].needs = "user" => q.user # ""
<1>1. /\ ~Unauthorized(Routes[q.route], q, FALSE)
      /\ ~Forbidden(Routes[q.route], q)
  BY PassedAll
<1>2. Routes[q.route].needs # "nothing"
  OBVIOUS
<1> QED
  BY <1>1, <1>2 DEF Unauthorized, Forbidden

LEMMA PassedMay ==
    ASSUME NEW q, Passed(q), q.route \in DOMAIN Routes
    PROVE  /\ q.route \in {"CreateProduct", "UpdateProduct", "DeleteProduct",
                           "AdminDeletePayment"}
              => q.cookie /\ q.role = "admin"
           /\ q.route \in {"AdminDeleteOrder", "AdminUpdateOrderStatus",
                           "AdminListPayments", "AdminGetPayment"}
              => q.cookie /\ q.role \in {"admin", "manager"}
           /\ q.route \in {"AdminListOrders", "AdminGetOrder"}
              => q.cookie /\ q.role \in {"admin", "manager", "seller"}
           /\ q.route \in {"GetOrder", "ListOrders", "CreateOrder"}
              => q.cookie /\ q.user # ""
<1>1. ASSUME q.route \in {"CreateProduct", "UpdateProduct", "DeleteProduct"}
      PROVE  q.cookie /\ q.role = "admin"
  <2>1. Routes[q.route] = ProductRoutes[q.route]
    BY <1>1, RouteTable, TableDomains
  <2>2. Routes[q.route].needs = "token" /\ Routes[q.route].roles = {"admin"}
    BY <1>1, <2>1 DEF ProductRoutes, Staff, Row, Admin
  <2> QED
    BY <2>2, PassedBrings
<1>2. ASSUME q.route \in {"AdminListPayments", "AdminGetPayment",
                          "AdminDeletePayment"}
      PROVE  /\ q.cookie /\ q.role \in {"admin", "manager"}
             /\ q.route = "AdminDeletePayment" => q.role = "admin"
  <2>1. Routes[q.route] = PaymentRoutes[q.route]
    BY <1>2, RouteTable, TableDomains
  <2>2. /\ Routes[q.route].needs = "token"
        /\ Routes[q.route].roles \subseteq {"admin", "manager"}
        /\ q.route = "AdminDeletePayment" => Routes[q.route].roles = {"admin"}
    BY <1>2, <2>1 DEF PaymentRoutes, Staff, Row, Admin, ViewPayments
  <2> QED
    BY <2>2, PassedBrings
<1>3. ASSUME q.route \in {"AdminListOrders", "AdminGetOrder",
                          "AdminDeleteOrder", "AdminUpdateOrderStatus"}
      PROVE  /\ q.cookie /\ q.role \in {"admin", "manager", "seller"}
             /\ q.route \in {"AdminDeleteOrder", "AdminUpdateOrderStatus"}
                => q.role \in {"admin", "manager"}
  <2>1. Routes[q.route] = AdminOrderRoutes[q.route]
    BY <1>3, RouteTable, TableDomains
  <2>2. /\ Routes[q.route].needs = "token"
        /\ Routes[q.route].roles \subseteq {"admin", "manager", "seller"}
        /\ q.route \in {"AdminDeleteOrder", "AdminUpdateOrderStatus"}
           => Routes[q.route].roles = {"admin", "manager"}
    BY <1>3, <2>1 DEF AdminOrderRoutes, Staff, Row, ViewOrders, ManageOrders
  <2> QED
    BY <2>2, PassedBrings
<1>4. ASSUME q.route \in {"GetOrder", "ListOrders"}
      PROVE  q.cookie /\ q.user # ""
  <2>1. Routes[q.route] = OwnOrderRoutes[q.route]
    BY <1>4, RouteTable, TableDomains
  <2>2. Routes[q.route].needs = "user"
    BY <1>4, <2>1 DEF OwnOrderRoutes, User, Row
  <2> QED
    BY <2>2, PassedBrings
<1>5. ASSUME q.route = "CreateOrder"
      PROVE  q.cookie /\ q.user # ""
  <2>1. Routes[q.route] = CreateOrderRoute[q.route]
    BY <1>5, RouteTable, TableDomains
  <2>2. Routes[q.route].needs = "user"
    BY <1>5, <2>1 DEF CreateOrderRoute, User, Row
  <2> QED
    BY <2>2, PassedBrings
<1> QED
  BY <1>1, <1>2, <1>3, <1>4, <1>5

-----------------------------------------------------------------------------
(***************************************************************************)
(* Where a request is, on which route it got there and what it has done.   *)
(***************************************************************************)
Reported == {"CreateOrder", "AdminUpdateOrderStatus", "CreateProduct",
             "UpdateProduct", "AdminDeletePayment"}

\* The statements only the requests of some routes come to.
OnRoute(pc, route) ==
    /\ pc \in {"email", "products", "insert_order", "create_payment",
               "set_payment"} => route = "CreateOrder"
    /\ pc = "view_cart" => route = "GetCart"
    /\ pc = "read_orders" =>
          route \in {"GetOrder", "ListOrders", "AdminGetOrder", "AdminListOrders"}
    /\ pc = "delete_order" => route = "AdminDeleteOrder"
    /\ pc \in {"get_order", "set_status", "reread_order", "reread_items"}
          => route = "AdminUpdateOrderStatus"
    /\ pc = "read_payments" => route \in {"AdminListPayments", "AdminGetPayment"}
    /\ pc = "delete_payment" => route = "AdminDeletePayment"
    /\ pc = "get_product" => route \in {"GetProduct", "UpdateProduct"}
    /\ pc \in {"update_product", "reread_product"} => route = "UpdateProduct"
    /\ pc \in {"stamp", "insert_product"} => route = "CreateProduct"
    /\ pc = "delete_product" => route = "DeleteProduct"
    /\ pc \in {"count", "find"} => route = "ListProducts"
    /\ pc = "elsewhere" => route \notin Reported

Whole(c) ==
    c = [request |-> c.request, pc |-> c.pc, status |-> c.status,
         did |-> c.did, hand |-> c.hand, shown |-> c.shown]

Tabled ==
    /\ calls = [s \in Slots |-> calls[s]]
    /\ orders = [k \in Keys |-> orders[k]]
    /\ charges = [k \in Keys |-> charges[k]]
    /\ sessions = [k \in Keys |-> sessions[k]]
    /\ products = [p \in Products |-> products[p]]

\* A request on its own: what it asks is one of the scenario's, it is past the
\* gateway only when it was let through, and it is on the path of its route.
Ongoing(s) ==
    /\ Whole(calls[s])
    /\ At(s, "idle") => calls[s].request = None
    /\ ~At(s, "idle") => calls[s].request \in scenario.requests[s]
    /\ calls[s].pc \notin {"idle", "gateway", "done"} =>
          Passed(Asked(s)) /\ OnRoute(calls[s].pc, Asked(s).route)

\* What was reported as done, or is about to be, was done.
Reporting(s) ==
    /\ ~At(s, "done") => calls[s].status = 0
    /\ calls[s].pc \in {"set_payment", "reread_items"} => calls[s].did
    /\ At(s, "reply") /\ Asked(s).route \in Reported => calls[s].did
    /\ calls[s].status \in {200, 201} /\ Asked(s).route \in Reported
          => calls[s].did

\* An order is inserted once, before anybody else can name it.
Placed(k) ==
    k \in Slots =>
        /\ calls[k].pc \in {"create_payment", "set_payment", "reply", "done"}
        /\ Asked(k).route = "CreateOrder"

\* A status is set on an order that has been placed; when the row was not there
\* any more, it will not be there again.
Updating(s) ==
    /\ calls[s].pc \in {"set_status", "reread_order", "reread_items"}
          => Placed(Input(s).order)
    /\ At(s, "reread_order") => calls[s].did \/ orders[Input(s).order] = None

\* q may still put its product into the catalog.
Creating(t, q) ==
    \/ At(t, "idle")
    \/ Asked(t) = q /\ calls[t].pc \in {"gateway", "stamp", "insert_product"}

Creates(t, p) == {q \in scenario.requests[t] :
                    q.route = "CreateProduct" /\ q.input.product = p}

\* Nobody will create p.
Settled(p) == \A t \in Slots : \A q \in Creates(t, p) : ~Creating(t, q)

\* A product that is updated has been created, by the only request that does;
\* when the row was not there any more, it will not be there again.
Editing(s) ==
    /\ calls[s].pc \in {"update_product", "reread_product"}
          => Settled(Input(s).product)
    /\ At(s, "reread_product") /\ ~calls[s].did => ~Stored(Input(s).product)

Kept ==
    /\ scenario \in Scenarios
    /\ Tabled
    /\ \A s \in Slots : Ongoing(s)

Truthful ==
    /\ \A s \in Slots : Reporting(s) /\ Updating(s) /\ Editing(s)
    /\ \A k \in Keys : orders[k] # None => Placed(k)
    /\ \A p \in Products : Stored(p) => Settled(p)

-----------------------------------------------------------------------------
\* The other requests stay where they are.
Rest(s) ==
    /\ calls' = [t \in Slots |-> calls'[t]]
    /\ \A t \in Slots \ {s} : calls'[t] = calls[t]

Starts == {"email", "products", "view_cart", "read_orders", "delete_order",
           "get_order", "read_payments", "delete_payment", "get_product",
           "count", "stamp", "delete_product", "elsewhere"}

LEMMA FirstOnRoute ==
    ASSUME NEW q
    PROVE  First(q) \in Starts /\ OnRoute(First(q), q.route)
BY DEF First, Starts, OnRoute, Reported

LEMMA Asks ==
    ASSUME Kept, NEW s \in Slots, ~At(s, "idle")
    PROVE  /\ Asked(s).route \in DOMAIN Routes
           /\ Routes[Asked(s).route].ok \in {200, 201}
           /\ Routes[Asked(s).route].error \in {400, 500}
<1>1. Asked(s) \in scenario.requests[s] /\ scenario \in Scenarios
  BY DEF Kept, Ongoing, At, Asked
<1>2. Asked(s).route \in DOMAIN Routes
  BY <1>1, ScenariosAssumption
<1> QED
  BY <1>2, RouteErrors

\* What a step makes of the request of s.
Becomes(s, pc, status, did, shown) ==
    /\ scenario' = scenario
    /\ Rest(s)
    /\ calls'[s] = [request |-> Asked(s), pc |-> pc, status |-> status, did |-> did,
                    hand |-> calls'[s].hand, shown |-> shown]

Moves(s, pc) ==
    Becomes(s, pc, calls[s].status, calls[s].did, calls[s].shown)

Does(s, pc, did) ==
    Becomes(s, pc, calls[s].status, did, calls[s].shown)

Shows(s, shown) ==
    Becomes(s, "reply", calls[s].status, calls[s].did, shown)

Ends(s, status) ==
    Becomes(s, "done", status, calls[s].did, calls[s].shown)

Errs(s) == Ends(s, Routes[Asked(s).route].error)

\* The rows one or the other action finds.
OrderRows(found) == {<<"order", k>> : k \in found}
PaymentRows(found) == {<<"payment", k>> : k \in found}

LEMMA BecomesFields ==
    ASSUME NEW s, NEW pc, NEW status, NEW did, NEW shown,
           Becomes(s, pc, status, did, shown)
    PROVE  /\ calls'[s].request = calls[s].request
           /\ calls'[s].pc = pc
           /\ calls'[s].status = status
           /\ calls'[s].did = did
           /\ calls'[s].shown = shown
BY DEF Becomes, Asked

LEMMA MovesFields ==
    ASSUME NEW s, NEW pc, Moves(s, pc)
    PROVE  /\ calls'[s].request = calls[s].request
           /\ calls'[s].pc = pc
           /\ calls'[s].status = calls[s].status
           /\ calls'[s].did = calls[s].did
BY DEF Moves, Becomes, Asked

LEMMA DoesFields ==
    ASSUME NEW s, NEW pc, NEW did, Does(s, pc, did)
    PROVE  /\ calls'[s].request = calls[s].request
           /\ calls'[s].pc = pc
           /\ calls'[s].status = calls[s].status
           /\ calls'[s].did = did
BY DEF Does, Becomes, Asked

LEMMA ErrorErrs ==
    ASSUME Kept, NEW s \in Slots, Error(s), UNCHANGED scenario
    PROVE  Errs(s)
<1>1. Whole(calls[s]) /\ calls = [t \in Slots |-> calls[t]]
  BY DEF Kept, Tabled, Ongoing
<1> QED
  BY <1>1 DEF Whole, Error, Answer, Errs, Ends, Becomes, Rest, Asked

LEMMA Becoming ==
    ASSUME Kept, NEW s \in Slots
    PROVE
      /\ Fail(s) =>
         Errs(s)
      /\ Reply(s) =>
         Ends(s, Routes[Asked(s).route].ok)
      /\ Elsewhere(s) =>
         Moves(s, "reply")
      /\ UserEmail(s) =>
         Moves(s, "products")
      /\ GetProducts(s) =>
         Errs(s) \/ Moves(s, "insert_order")
      /\ InsertOrder(s) =>
         Moves(s, "create_payment")
      /\ CreatePayment(s) =>
         Errs(s) \/ Does(s, "set_payment", TRUE)
      /\ SetPaymentInfo(s) =>
         Moves(s, "reply")
      /\ ViewCart(s) =>
         Moves(s, "reply")
      /\ ReadOrders(s) =>
         Errs(s) \/ Shows(s, OrderRows(OrdersFound(Asked(s))))
      /\ DeleteOrder(s) =>
         \/ orders[Input(s).order] # None /\ Does(s, "reply", TRUE)
         \/ orders[Input(s).order] = None /\ Does(s, "reply", FALSE)
      /\ GetOrderToUpdate(s) =>
         \/ Errs(s)
         \/ orders[Input(s).order] # None /\ Moves(s, "set_status")
      /\ SetStatus(s) =>
         \/ orders[Input(s).order] # None /\ Does(s, "reread_order", TRUE)
         \/ orders[Input(s).order] = None /\ Does(s, "reread_order", FALSE)
      /\ RereadOrder(s) =>
         \/ Errs(s)
         \/ orders[Input(s).order] # None /\ Moves(s, "reread_items")
      /\ NotifyStatusChanged(s) =>
         Shows(s, OrderRows({Input(s).order}))
      /\ ReadPayments(s) =>
         Errs(s) \/ Shows(s, PaymentRows(PaymentsFound(Asked(s))))
      /\ DeletePayment(s) =>
         Errs(s) \/ Does(s, "reply", TRUE)
      /\ GetProduct(s) =>
         \/ Errs(s)
         \/ Asked(s).route = "GetProduct" /\ Moves(s, "reply")
         \/ /\ Asked(s).route # "GetProduct" /\ Stored(Input(s).product)
            /\ Moves(s, "update_product")
      /\ UpdateProduct(s) =>
         \/ Stored(Input(s).product) /\ Does(s, "reread_product", TRUE)
         \/ ~Stored(Input(s).product) /\ Does(s, "reread_product", FALSE)
      /\ RereadProduct(s) =>
         \/ Errs(s)
         \/ Stored(Input(s).product) /\ Moves(s, "reply")
      /\ StampProduct(s) =>
         Errs(s) \/ Moves(s, "insert_product")
      /\ InsertProduct(s) =>
         Does(s, "reply", TRUE)
      /\ DeleteProduct(s) =>
         \/ Stored(Input(s).product) /\ Does(s, "reply", TRUE)
         \/ ~Stored(Input(s).product) /\ Does(s, "reply", FALSE)
      /\ CountProducts(s) =>
         Moves(s, "find")
      /\ FindProducts(s) =>
         Moves(s, "reply")
<1>0. Whole(calls[s]) /\ calls = [t \in Slots |-> calls[t]]
  BY DEF Kept, Tabled, Ongoing
<1> USE DEF Becomes, Rest, Whole, Asked
<1>1. Fail(s) => Errs(s)
  BY ErrorErrs DEF Fail
<1>2. Reply(s) =>
       Ends(s, Routes[Asked(s).route].ok)
  BY <1>0 DEF Reply, Answer, Ends
<1>3. Elsewhere(s) =>
       Moves(s, "reply")
  BY <1>0 DEF Elsewhere, Goto, Moves
<1>4. UserEmail(s) =>
       Moves(s, "products")
  BY <1>0 DEF UserEmail, Moves
<1>5. GetProducts(s) =>
       Errs(s) \/ Moves(s, "insert_order")
  <2> SUFFICES ASSUME GetProducts(s), ~Error(s)
               PROVE  Moves(s, "insert_order")
    BY ErrorErrs DEF GetProducts
  <2> QED
    BY <1>0 DEF GetProducts, Moves
<1>6. InsertOrder(s) =>
       Moves(s, "create_payment")
  BY <1>0 DEF InsertOrder, Goto, Moves
<1>7. CreatePayment(s) =>
       Errs(s) \/ Does(s, "set_payment", TRUE)
  <2> SUFFICES ASSUME CreatePayment(s), ~Error(s)
               PROVE  Does(s, "set_payment", TRUE)
    BY ErrorErrs DEF CreatePayment
  <2> QED
    BY <1>0 DEF CreatePayment, Does
<1>8. SetPaymentInfo(s) =>
       Moves(s, "reply")
  BY <1>0 DEF SetPaymentInfo, Goto, Moves
<1>9. ViewCart(s) =>
       Moves(s, "reply")
  BY <1>0 DEF ViewCart, Moves
<1>10. ReadOrders(s) =>
       Errs(s) \/ Shows(s, OrderRows(OrdersFound(Asked(s))))
  <2> SUFFICES ASSUME ReadOrders(s), ~Error(s)
               PROVE  Shows(s, OrderRows(OrdersFound(Asked(s))))
    BY ErrorErrs DEF ReadOrders
  <2> QED
    BY <1>0 DEF ReadOrders, Shows, OrderRows
<1>11. DeleteOrder(s) =>
       \/ orders[Input(s).order] # None /\ Does(s, "reply", TRUE)
       \/ orders[Input(s).order] = None /\ Does(s, "reply", FALSE)
  <2> SUFFICES ASSUME DeleteOrder(s)
               PROVE  \/ orders[Input(s).order] # None /\ Does(s, "reply", TRUE)
                      \/ orders[Input(s).order] = None /\ Does(s, "reply", FALSE)
    OBVIOUS
  <2>1. PICK did \in BOOLEAN : did = (orders[Input(s).order] # None)
    OBVIOUS
  <2>2. calls' = [calls EXCEPT ![s].pc = "reply", ![s].did = did]
    BY <2>1 DEF DeleteOrder
  <2>3. scenario' = scenario
    BY DEF DeleteOrder
  <2>4. Does(s, "reply", did)
    BY <1>0, <2>2, <2>3 DEF Does
  <2> QED
    BY <2>1, <2>4
<1>12. GetOrderToUpdate(s) =>
       \/ Errs(s)
       \/ orders[Input(s).order] # None /\ Moves(s, "set_status")
  <2> SUFFICES ASSUME GetOrderToUpdate(s), ~Error(s)
               PROVE  orders[Input(s).order] # None /\ Moves(s, "set_status")
    BY ErrorErrs DEF GetOrderToUpdate
  <2> QED
    BY <1>0 DEF GetOrderToUpdate, Goto, Moves
<1>13. SetStatus(s) =>
       \/ orders[Input(s).order] # None /\ Does(s, "reread_order", TRUE)
       \/ orders[Input(s).order] = None /\ Does(s, "reread_order", FALSE)
  <2> SUFFICES ASSUME SetStatus(s)
               PROVE  \/ orders[Input(s).order] # None /\ Does(s, "reread_order", TRUE)
                      \/ orders[Input(s).order] = None /\ Does(s, "reread_order", FALSE)
    OBVIOUS
  <2>1. PICK did \in BOOLEAN : did = (orders[Input(s).order] # None)
    OBVIOUS
  <2>2. calls' = [calls EXCEPT ![s].pc = "reread_order", ![s].did = did]
    BY <2>1 DEF SetStatus
  <2>3. scenario' = scenario
    BY DEF SetStatus
  <2>4. Does(s, "reread_order", did)
    BY <1>0, <2>2, <2>3 DEF Does
  <2> QED
    BY <2>1, <2>4
<1>14. RereadOrder(s) =>
       \/ Errs(s)
       \/ orders[Input(s).order] # None /\ Moves(s, "reread_items")
  <2> SUFFICES ASSUME RereadOrder(s), ~Error(s)
               PROVE  orders[Input(s).order] # None /\ Moves(s, "reread_items")
    BY ErrorErrs DEF RereadOrder
  <2> QED
    BY <1>0 DEF RereadOrder, Moves
<1>15. NotifyStatusChanged(s) =>
       Shows(s, OrderRows({Input(s).order}))
  <2> SUFFICES ASSUME NotifyStatusChanged(s)
               PROVE  Shows(s, OrderRows({Input(s).order}))
    OBVIOUS
  <2>1. /\ calls' = [calls EXCEPT ![s].pc = "reply",
                                  ![s].shown = {<<"order", Input(s).order>>}]
        /\ scenario' = scenario
    BY DEF NotifyStatusChanged
  <2>2. OrderRows({Input(s).order}) = {<<"order", Input(s).order>>}
    BY DEF OrderRows
  <2> QED
    BY <1>0, <2>1, <2>2 DEF Shows
<1>16. ReadPayments(s) =>
       Errs(s) \/ Shows(s, PaymentRows(PaymentsFound(Asked(s))))
  <2> SUFFICES ASSUME ReadPayments(s), ~Error(s)
               PROVE  Shows(s, PaymentRows(PaymentsFound(Asked(s))))
    BY ErrorErrs DEF ReadPayments
  <2> QED
    BY <1>0 DEF ReadPayments, Shows, PaymentRows
<1>17. DeletePayment(s) =>
       Errs(s) \/ Does(s, "reply", TRUE)
  <2> SUFFICES ASSUME DeletePayment(s), ~Error(s)
               PROVE  Does(s, "reply", TRUE)
    BY ErrorErrs DEF DeletePayment
  <2> QED
    BY <1>0 DEF DeletePayment, Does
<1>18. GetProduct(s) =>
       \/ Errs(s)
       \/ Asked(s).route = "GetProduct" /\ Moves(s, "reply")
       \/ /\ Asked(s).route # "GetProduct" /\ Stored(Input(s).product)
          /\ Moves(s, "update_product")
  <2> SUFFICES ASSUME GetProduct(s), ~Error(s)
               PROVE  \/ Asked(s).route = "GetProduct" /\ Moves(s, "reply")
                      \/ /\ Asked(s).route # "GetProduct" /\ Stored(Input(s).product)
                         /\ Moves(s, "update_product")
    BY ErrorErrs DEF GetProduct
  <2> QED
    BY <1>0 DEF GetProduct, Goto, Moves
<1>19. UpdateProduct(s) =>
       \/ Stored(Input(s).product) /\ Does(s, "reread_product", TRUE)
       \/ ~Stored(Input(s).product) /\ Does(s, "reread_product", FALSE)
  <2> SUFFICES ASSUME UpdateProduct(s)
               PROVE  \/ Stored(Input(s).product) /\ Does(s, "reread_product", TRUE)
                      \/ ~Stored(Input(s).product) /\ Does(s, "reread_product", FALSE)
    OBVIOUS
  <2>1. PICK did \in BOOLEAN : did = Stored(Input(s).product)
    BY DEF Stored
  <2>2. calls' = [calls EXCEPT ![s].pc = "reread_product", ![s].did = did]
    BY <2>1 DEF UpdateProduct
  <2>3. scenario' = scenario
    BY DEF UpdateProduct
  <2>4. Does(s, "reread_product", did)
    BY <1>0, <2>2, <2>3 DEF Does
  <2> QED
    BY <2>1, <2>4
<1>20. RereadProduct(s) =>
       \/ Errs(s)
       \/ Stored(Input(s).product) /\ Moves(s, "reply")
  <2> SUFFICES ASSUME RereadProduct(s), ~Error(s)
               PROVE  Stored(Input(s).product) /\ Moves(s, "reply")
    BY ErrorErrs DEF RereadProduct
  <2> QED
    BY <1>0 DEF RereadProduct, Goto, Moves
<1>21. StampProduct(s) =>
       Errs(s) \/ Moves(s, "insert_product")
  <2> SUFFICES ASSUME StampProduct(s), ~Error(s)
               PROVE  Moves(s, "insert_product")
    BY ErrorErrs DEF StampProduct
  <2> QED
    BY <1>0 DEF StampProduct, Goto, Moves
<1>22. InsertProduct(s) =>
       Does(s, "reply", TRUE)
  BY <1>0 DEF InsertProduct, Does
<1>23. DeleteProduct(s) =>
       \/ Stored(Input(s).product) /\ Does(s, "reply", TRUE)
       \/ ~Stored(Input(s).product) /\ Does(s, "reply", FALSE)
  <2> SUFFICES ASSUME DeleteProduct(s)
               PROVE  \/ Stored(Input(s).product) /\ Does(s, "reply", TRUE)
                      \/ ~Stored(Input(s).product) /\ Does(s, "reply", FALSE)
    OBVIOUS
  <2>1. PICK did \in BOOLEAN : did = Stored(Input(s).product)
    BY DEF Stored
  <2>2. calls' = [calls EXCEPT ![s].pc = "reply", ![s].did = did]
    BY <2>1 DEF DeleteProduct
  <2>3. scenario' = scenario
    BY DEF DeleteProduct
  <2>4. Does(s, "reply", did)
    BY <1>0, <2>2, <2>3 DEF Does
  <2> QED
    BY <2>1, <2>4
<1>24. CountProducts(s) =>
       Moves(s, "find")
  BY <1>0 DEF CountProducts, Goto, Moves
<1>25. FindProducts(s) =>
       Moves(s, "reply")
  <2> SUFFICES ASSUME FindProducts(s)
               PROVE  Moves(s, "reply")
    OBVIOUS
  <2>1. PICK last, full :
           calls' = [calls EXCEPT ![s].pc = "reply", ![s].hand.last = last,
                                  ![s].hand.full = full]
    BY DEF FindProducts
  <2>2. scenario' = scenario
    BY DEF FindProducts
  <2> QED
    BY <1>0, <2>1, <2>2 DEF Moves
<1> HIDE DEF Becomes, Rest, Whole, Asked
<1> QED
  BY <1>1, <1>2, <1>3, <1>4, <1>5, <1>6, <1>7, <1>8, <1>9, <1>10, <1>11,
     <1>12, <1>13, <1>14, <1>15, <1>16, <1>17, <1>18, <1>19, <1>20, <1>21,
     <1>22, <1>23, <1>24, <1>25

\* The statements that write a table.
LEMMA Writes ==
    ASSUME NEW s \in Slots, SlotStep(s)
    PROVE  /\ \/ orders' = orders
              \/ InsertOrder(s) \/ SetPaymentInfo(s) \/ DeleteOrder(s) \/ SetStatus(s)
           /\ charges' = charges \/ CreatePayment(s) \/ DeletePayment(s)
           /\ sessions' = sessions \/ CreatePayment(s)
           /\ \/ products' = products
              \/ UpdateProduct(s) \/ InsertProduct(s) \/ DeleteProduct(s)
<1> USE DEF ordersVars, catalogVars
<1>1. CASE Arrive(s) \/ Admit(s) \/ Expire(s) \/ Fail(s) \/ Reply(s) \/
          Elsewhere(s) \/ UserEmail(s)
  BY <1>1 DEF Arrive, Admit, Expire, Fail, Reply, Elsewhere, UserEmail
<1>2. CASE GetProducts(s) \/ InsertOrder(s) \/ CreatePayment(s) \/
          SetPaymentInfo(s) \/ ViewCart(s)
  BY <1>2 DEF GetProducts, InsertOrder, CreatePayment, SetPaymentInfo,
             ViewCart
<1>3. CASE ReadOrders(s) \/ DeleteOrder(s) \/ GetOrderToUpdate(s) \/
          SetStatus(s) \/ RereadOrder(s) \/ NotifyStatusChanged(s)
  BY <1>3 DEF ReadOrders, DeleteOrder, GetOrderToUpdate, SetStatus,
             RereadOrder, NotifyStatusChanged
<1>4. CASE ReadPayments(s) \/ DeletePayment(s)
  BY <1>4 DEF ReadPayments, DeletePayment
<1>5. CASE GetProduct(s) \/ UpdateProduct(s) \/ RereadProduct(s) \/
          StampProduct(s) \/ InsertProduct(s) \/ DeleteProduct(s)
  BY <1>5 DEF GetProduct, UpdateProduct, RereadProduct, StampProduct,
             Stamp, InsertProduct, DeleteProduct
<1>6. CASE CountProducts(s) \/ FindProducts(s) \/ TurnPage(s)
  BY <1>6 DEF CountProducts, FindProducts, TurnPage
<1> QED
  BY <1>1, <1>2, <1>3, <1>4, <1>5, <1>6 DEF SlotStep

LEMMA OrdersGrow ==
    ASSUME Kept, NEW s \in Slots, SlotStep(s)
    PROVE  /\ orders' = [k \in Keys |-> orders'[k]]
           /\ \A k \in Keys : orders[k] = None /\ orders'[k] # None
                => k = s /\ InsertOrder(s)
           /\ \A k \in Keys : orders'[k] # orders[k]
                => k = s \/ DeleteOrder(s) \/ SetStatus(s)
<1>1. orders = [k \in Keys |-> orders[k]]
  BY DEF Kept, Tabled
<1>2. CASE orders' = orders
  BY <1>1, <1>2
<1>3. CASE InsertOrder(s)
  BY <1>1, <1>3 DEF InsertOrder
<1>4. CASE SetPaymentInfo(s)
  BY <1>1, <1>4 DEF SetPaymentInfo
<1>5. CASE DeleteOrder(s)
  BY <1>1, <1>5 DEF DeleteOrder
<1>6. CASE SetStatus(s)
  BY <1>1, <1>6 DEF SetStatus
<1> QED
  BY <1>2, <1>3, <1>4, <1>5, <1>6, Writes

LEMMA ChargesChange ==
    ASSUME Kept, NEW s \in Slots, SlotStep(s)
    PROVE  /\ charges' = [k \in Keys |-> charges'[k]]
           /\ \A k \in Keys : charges'[k] # charges[k]
                => (k = s /\ CreatePayment(s)) \/ DeletePayment(s)
           /\ sessions' = [k \in Keys |-> sessions'[k]]
           /\ \A k \in Keys : sessions'[k] # sessions[k]
                => k = s /\ CreatePayment(s)
<1>1. /\ charges = [k \in Keys |-> charges[k]]
      /\ sessions = [k \in Keys |-> sessions[k]]
  BY DEF Kept, Tabled
<1>2. CASE charges' = charges /\ sessions' = sessions
  BY <1>1, <1>2
<1>3. CASE CreatePayment(s)
  BY <1>1, <1>3 DEF CreatePayment
<1>4. CASE DeletePayment(s)
  BY <1>1, <1>4 DEF DeletePayment
<1> QED
  BY <1>2, <1>3, <1>4, Writes

LEMMA ProductsGrow ==
    ASSUME Kept, NEW s \in Slots, SlotStep(s)
    PROVE  /\ products' = [p \in Products |-> products'[p]]
           /\ \A p \in Products : Stored(p)' /\ ~Stored(p)
                => InsertProduct(s) /\ p = Input(s).product
<1>1. products = [p \in Products |-> products[p]]
  BY DEF Kept, Tabled
<1>2. CASE products' = products
  BY <1>1, <1>2 DEF Stored
<1>3. CASE UpdateProduct(s)
  BY <1>1, <1>3 DEF UpdateProduct, Update, Stored
<1>4. CASE InsertProduct(s)
  BY <1>1, <1>4 DEF InsertProduct, Create, Stored
<1>5. CASE DeleteProduct(s)
  BY <1>1, <1>5 DEF DeleteProduct, Delete, Stored
<1> QED
  BY <1>2, <1>3, <1>4, <1>5, Writes

-----------------------------------------------------------------------------
LEMMA BecomesOngoing ==
    ASSUME Kept, NEW s \in Slots, ~At(s, "idle"),
           NEW pc, NEW status, NEW did, NEW shown,
           Becomes(s, pc, status, did, shown), pc # "idle",
           pc \notin {"gateway", "done"}
             => Passed(Asked(s)) /\ OnRoute(pc, Asked(s).route)
    PROVE  Ongoing(s)'
<1>1. calls[s].request \in scenario.requests[s]
  BY DEF Kept, Ongoing
<1> QED
  BY <1>1 DEF Becomes, Ongoing, Whole, At, Asked

\* A request that is past the gateway and not done.
LEMMA Past ==
    ASSUME Kept, NEW s \in Slots, calls[s].pc \notin {"idle", "gateway", "done"}
    PROVE  /\ ~At(s, "idle")
           /\ Passed(Asked(s))
           /\ OnRoute(calls[s].pc, Asked(s).route)
           /\ OnRoute("reply", Asked(s).route)
<1>1. OnRoute("reply", Asked(s).route)
  BY DEF OnRoute
<1> QED
  BY <1>1 DEF Kept, Ongoing, At

\* Every step of a request keeps to its slot and to the path of its route.
Keeps(s) ==
    /\ scenario' = scenario
    /\ Rest(s)
    /\ Ongoing(s)'

LEMMA ArriveKeeps ==
    ASSUME Kept, NEW s \in Slots, Arrive(s)
    PROVE  Keeps(s)
<1>1. calls = [t \in Slots |-> calls[t]]
  BY DEF Kept, Tabled
<1>2. PICK q \in scenario.requests[s] :
        calls' = [calls EXCEPT ![s] = [NoCall EXCEPT !.request = q, !.pc = "gateway",
                                                     !.hand = Before(q)]]
  BY DEF Arrive
<1>3. scenario' = scenario
  BY DEF Arrive
<1> QED
  BY <1>1, <1>2, <1>3 DEF Keeps, Rest, Ongoing, Whole, At, NoCall

LEMMA AdmitKeeps ==
    ASSUME Kept, NEW s \in Slots, Admit(s)
    PROVE  /\ Keeps(s)
           /\ \/ Moves(s, First(Asked(s)))
              \/ \E refusal \in {400, 401, 403} : Ends(s, refusal)
           /\ calls'[s].request = calls[s].request
           /\ calls'[s].pc \in {First(Asked(s)), "done"}
<1> DEFINE refusal == Refusal(Routes[Asked(s).route], Asked(s), s \in expired)
<1>1. Whole(calls[s]) /\ calls = [t \in Slots |-> calls[t]]
  BY DEF Kept, Tabled, Ongoing
<1>2. ~At(s, "idle") /\ scenario' = scenario
  BY DEF Admit, At
<1>3. CASE refusal # 0
  <2>1. calls' = [calls EXCEPT ![s].pc = "done", ![s].status = refusal]
    BY <1>3 DEF Admit, Answer
  <2>3. refusal \in {400, 401, 403}
    BY <1>3, RefusalPasses
  <2> HIDE DEF refusal
  <2>2. Ends(s, refusal)
    BY <1>1, <1>2, <2>1 DEF Ends, Becomes, Rest, Whole, Asked
  <2> QED
    BY <1>1, <1>2, <2>1, <2>2, <2>3, BecomesOngoing DEF Ends, Becomes, Keeps,
       Whole
<1>4. CASE refusal = 0
  <2>1. calls' = [calls EXCEPT ![s].pc = First(Asked(s))]
    BY <1>4 DEF Admit, Goto
  <2>2. Moves(s, First(Asked(s)))
    BY <1>1, <1>2, <2>1 DEF Moves, Becomes, Rest, Whole, Asked
  <2>3. Passed(Asked(s))
    BY <1>4, RefusalPasses
  <2>4. First(Asked(s)) # "idle" /\ OnRoute(First(Asked(s)), Asked(s).route)
    BY FirstOnRoute DEF Starts
  <2> QED
    BY <1>1, <1>2, <2>1, <2>2, <2>3, <2>4, BecomesOngoing
       DEF Moves, Becomes, Keeps, Whole
<1> QED
  BY <1>3, <1>4

LEMMA ExpireKeeps ==
    ASSUME Kept, NEW s \in Slots, Expire(s)
    PROVE  Keeps(s) /\ calls' = calls
<1>1. calls = [t \in Slots |-> calls[t]] /\ Ongoing(s)
  BY DEF Kept, Tabled
<1>2. calls' = calls /\ scenario' = scenario
  BY DEF Expire
<1> QED
  BY <1>1, <1>2 DEF Keeps, Rest, Ongoing, Whole, At, Asked

LEMMA TurnPageKeeps ==
    ASSUME Kept, NEW s \in Slots, TurnPage(s)
    PROVE  /\ Keeps(s)
           /\ Becomes(s, "gateway", 0, calls[s].did, calls[s].shown)
<1>1. Whole(calls[s]) /\ calls = [t \in Slots |-> calls[t]]
  BY DEF Kept, Tabled, Ongoing
<1>2. ~At(s, "idle") /\ scenario' = scenario
  BY DEF TurnPage, At
<1>3. PICK page, seen :
         calls' = [calls EXCEPT ![s].pc = "gateway", ![s].status = 0,
                     ![s].hand.page = page, ![s].hand.seen = seen]
  BY DEF TurnPage
<1>4. Becomes(s, "gateway", 0, calls[s].did, calls[s].shown)
  BY <1>1, <1>2, <1>3 DEF Becomes, Rest, Whole, Asked
<1> QED
  BY <1>2, <1>4, BecomesOngoing DEF Becomes, Keeps

LEMMA SlotKeeps ==
    ASSUME Kept, NEW s \in Slots, SlotStep(s)
    PROVE  Keeps(s)
<1> USE DEF Moves, Does, Shows, Ends, Errs
<1>1. ASSUME NEW status, Ends(s, status), ~At(s, "idle")
      PROVE  Keeps(s)
  BY <1>1, BecomesOngoing DEF Becomes, Keeps
<1>2. ASSUME NEW did, NEW shown, calls[s].pc \notin {"idle", "gateway", "done"},
             Becomes(s, "reply", calls[s].status, did, shown)
      PROVE  Keeps(s)
  BY <1>2, Past, BecomesOngoing DEF Becomes, Keeps
<1>3. ASSUME NEW pc, NEW did, calls[s].pc \notin {"idle", "gateway", "done"},
             pc # "idle", OnRoute(pc, Asked(s).route), Does(s, pc, did)
      PROVE  Keeps(s)
  BY <1>3, Past, BecomesOngoing DEF Becomes, Keeps
<1> USE DEF At
<1>4. CASE Fail(s)
  BY <1>4, <1>1, Becoming DEF Fail
<1>5. CASE Reply(s)
  BY <1>5, <1>1, Becoming DEF Reply
<1>6. CASE Elsewhere(s)
  BY <1>6, <1>1, <1>2, Becoming DEF Elsewhere
<1>7. CASE SetPaymentInfo(s)
  BY <1>7, <1>1, <1>2, Becoming DEF SetPaymentInfo
<1>8. CASE ViewCart(s)
  BY <1>8, <1>1, <1>2, Becoming DEF ViewCart
<1>9. CASE ReadOrders(s)
  BY <1>9, <1>1, <1>2, Becoming DEF ReadOrders
<1>10. CASE DeleteOrder(s)
  BY <1>10, <1>1, <1>2, Becoming DEF DeleteOrder
<1>11. CASE NotifyStatusChanged(s)
  BY <1>11, <1>1, <1>2, Becoming DEF NotifyStatusChanged
<1>12. CASE ReadPayments(s)
  BY <1>12, <1>1, <1>2, Becoming DEF ReadPayments
<1>13. CASE DeletePayment(s)
  BY <1>13, <1>1, <1>2, Becoming DEF DeletePayment
<1>14. CASE RereadProduct(s)
  BY <1>14, <1>1, <1>2, Becoming DEF RereadProduct
<1>15. CASE InsertProduct(s)
  BY <1>15, <1>1, <1>2, Becoming DEF InsertProduct
<1>16. CASE DeleteProduct(s)
  BY <1>16, <1>1, <1>2, Becoming DEF DeleteProduct
<1>17. CASE FindProducts(s)
  BY <1>17, <1>1, <1>2, Becoming DEF FindProducts
<1>18. CASE UserEmail(s)
  <2>1. calls[s].pc \notin {"idle", "gateway", "done"}
    BY <1>18 DEF UserEmail
  <2>2. OnRoute("products", Asked(s).route)
    BY <1>18, Past DEF UserEmail, OnRoute
  <2> QED
    BY <1>18, <1>1, <1>2, <1>3, <2>1, <2>2, Becoming
<1>19. CASE GetProducts(s)
  <2>1. calls[s].pc \notin {"idle", "gateway", "done"}
    BY <1>19 DEF GetProducts
  <2>2. OnRoute("insert_order", Asked(s).route)
    BY <1>19, Past DEF GetProducts, OnRoute
  <2> QED
    BY <1>19, <1>1, <1>2, <1>3, <2>1, <2>2, Becoming
<1>20. CASE InsertOrder(s)
  <2>1. calls[s].pc \notin {"idle", "gateway", "done"}
    BY <1>20 DEF InsertOrder
  <2>2. OnRoute("create_payment", Asked(s).route)
    BY <1>20, Past DEF InsertOrder, OnRoute
  <2> QED
    BY <1>20, <1>1, <1>2, <1>3, <2>1, <2>2, Becoming
<1>21. CASE CreatePayment(s)
  <2>1. calls[s].pc \notin {"idle", "gateway", "done"}
    BY <1>21 DEF CreatePayment
  <2>2. OnRoute("set_payment", Asked(s).route)
    BY <1>21, Past DEF CreatePayment, OnRoute
  <2> QED
    BY <1>21, <1>1, <1>2, <1>3, <2>1, <2>2, Becoming
<1>22. CASE GetOrderToUpdate(s)
  <2>1. calls[s].pc \notin {"idle", "gateway", "done"}
    BY <1>22 DEF GetOrderToUpdate
  <2>2. OnRoute("set_status", Asked(s).route)
    BY <1>22, Past DEF GetOrderToUpdate, OnRoute
  <2> QED
    BY <1>22, <1>1, <1>2, <1>3, <2>1, <2>2, Becoming
<1>23. CASE SetStatus(s)
  <2>1. calls[s].pc \notin {"idle", "gateway", "done"}
    BY <1>23 DEF SetStatus
  <2>2. OnRoute("reread_order", Asked(s).route)
    BY <1>23, Past DEF SetStatus, OnRoute
  <2> QED
    BY <1>23, <1>1, <1>2, <1>3, <2>1, <2>2, Becoming
<1>24. CASE RereadOrder(s)
  <2>1. calls[s].pc \notin {"idle", "gateway", "done"}
    BY <1>24 DEF RereadOrder
  <2>2. OnRoute("reread_items", Asked(s).route)
    BY <1>24, Past DEF RereadOrder, OnRoute
  <2> QED
    BY <1>24, <1>1, <1>2, <1>3, <2>1, <2>2, Becoming
<1>25. CASE GetProduct(s)
  <2>1. calls[s].pc \notin {"idle", "gateway", "done"}
    BY <1>25 DEF GetProduct
  <2>2. Asked(s).route # "GetProduct" => OnRoute("update_product", Asked(s).route)
    BY <1>25, Past DEF GetProduct, OnRoute
  <2> QED
    BY <1>25, <1>1, <1>2, <1>3, <2>1, <2>2, Becoming
<1>26. CASE UpdateProduct(s)
  <2>1. calls[s].pc \notin {"idle", "gateway", "done"}
    BY <1>26 DEF UpdateProduct
  <2>2. OnRoute("reread_product", Asked(s).route)
    BY <1>26, Past DEF UpdateProduct, OnRoute
  <2> QED
    BY <1>26, <1>1, <1>2, <1>3, <2>1, <2>2, Becoming
<1>27. CASE StampProduct(s)
  <2>1. calls[s].pc \notin {"idle", "gateway", "done"}
    BY <1>27 DEF StampProduct
  <2>2. OnRoute("insert_product", Asked(s).route)
    BY <1>27, Past DEF StampProduct, OnRoute
  <2> QED
    BY <1>27, <1>1, <1>2, <1>3, <2>1, <2>2, Becoming
<1>28. CASE CountProducts(s)
  <2>1. calls[s].pc \notin {"idle", "gateway", "done"}
    BY <1>28 DEF CountProducts
  <2>2. OnRoute("find", Asked(s).route)
    BY <1>28, Past DEF CountProducts, OnRoute
  <2> QED
    BY <1>28, <1>1, <1>2, <1>3, <2>1, <2>2, Becoming
<1> QED
  BY ArriveKeeps, AdmitKeeps, ExpireKeeps, TurnPageKeeps,
     <1>4, <1>5, <1>6, <1>7, <1>8, <1>9, <1>10, <1>11, <1>12, <1>13, <1>14,
     <1>15, <1>16, <1>17, <1>18, <1>19, <1>20, <1>21, <1>22, <1>23, <1>24,
     <1>25, <1>26, <1>27, <1>28 DEF SlotStep

-----------------------------------------------------------------------------
LEMMA KeptInit == Init => Kept
<1> SUFFICES ASSUME Init PROVE Kept
  OBVIOUS
<1>1. scenario \in Scenarios
  BY DEF Init
<1>2. products = [p \in Products |-> products[p]]
  BY <1>1, StoresAssumption DEF Init
<1>3. Tabled
  BY <1>2 DEF Tabled, Init
<1>4. \A s \in Slots : Ongoing(s)
  BY DEF Init, NoCall, Ongoing, Whole, At
<1> QED
  BY <1>1, <1>3, <1>4 DEF Kept

\* Steps that are nobody's request: the customer pays, the payment is
\* reported, a mail is sent.
Outside ==
    \/ \E k \in Keys : Pay(k) \/ Webhook(k)
    \/ \E e \in events : MailReceipt(e) \/ MailStatus(e)

LEMMA OutsideLeaves ==
    ASSUME Kept, Outside \/ UNCHANGED vars
    PROVE  /\ UNCHANGED <<scenario, calls, orders, products>>
           /\ charges' = [k \in Keys |-> charges'[k]]
           /\ sessions' = [k \in Keys |-> sessions'[k]]
<1>1. /\ charges = [k \in Keys |-> charges[k]]
      /\ sessions = [k \in Keys |-> sessions[k]]
  BY DEF Kept, Tabled
<1>2. CASE \E k \in Keys : Pay(k)
  BY <1>1, <1>2 DEF Pay, catalogVars
<1>3. CASE \E k \in Keys : Webhook(k)
  BY <1>1, <1>3 DEF Webhook, catalogVars
<1>4. CASE \E e \in events : MailReceipt(e) \/ MailStatus(e)
  BY <1>1, <1>4 DEF MailReceipt, MailStatus, catalogVars
<1>5. CASE UNCHANGED vars
  BY <1>1, <1>5 DEF vars, ordersVars, catalogVars
<1> QED
  BY <1>2, <1>3, <1>4, <1>5 DEF Outside

LEMMA KeptStep == Kept /\ [Next]_vars => Kept'
<1> SUFFICES ASSUME Kept, [Next]_vars PROVE Kept'
  OBVIOUS
<1>1. ASSUME NEW s \in Slots, SlotStep(s) PROVE Kept'
  <2>1. Keeps(s)
    BY <1>1, SlotKeeps
  <2>2. Tabled'
    BY <1>1, <2>1, OrdersGrow, ChargesChange, ProductsGrow DEF Tabled, Keeps,
       Rest
  <2>3. ASSUME NEW t \in Slots PROVE Ongoing(t)'
    <3>1. CASE t = s
      BY <2>1, <3>1 DEF Keeps
    <3>2. CASE t # s
      <4>1. calls'[t] = calls[t] /\ scenario' = scenario
        BY <2>1, <3>2 DEF Keeps, Rest
      <4> QED
        BY <4>1 DEF Kept, Ongoing, Whole, At, Asked
    <3> QED
      BY <3>1, <3>2
  <2> QED
    BY <2>1, <2>2, <2>3 DEF Kept, Keeps
<1>2. ASSUME Outside \/ UNCHANGED vars PROVE Kept'
  <2>1. /\ UNCHANGED <<scenario, calls, orders, products>>
        /\ charges' = [k \in Keys |-> charges'[k]]
        /\ sessions' = [k \in Keys |-> sessions'[k]]
    BY <1>2, OutsideLeaves
  <2>2. Tabled'
    BY <2>1 DEF Kept, Tabled
  <2> QED
    BY <2>1, <2>2 DEF Kept, Ongoing, Whole, At, Asked
<1> QED
  BY <1>1, <1>2 DEF Next, Outside

\* Every request is one the scenario has, is past the gateway only if it was let
\* through, and is where its route leads it
\* (gateway/internal/server/server.go Run: the middleware before the handler).
THEOREM KeptAlways == Spec => []Kept
  BY KeptInit, KeptStep, PTL DEF Spec

-----------------------------------------------------------------------------
(***************************************************************************)
(* What the gateway lets through is what the services select by.           *)
(***************************************************************************)
LEMMA ChangesAllowed ==
    ASSUME Kept, NEW s \in Slots, SlotStep(s)
    PROVE  MayChange(Asked(s), s)
<1>0. ASSUME calls[s].pc \notin {"idle", "gateway", "done"}
      PROVE  /\ Passed(Asked(s))
             /\ Asked(s).route \in DOMAIN Routes
             /\ OnRoute(calls[s].pc, Asked(s).route)
  BY <1>0, Past, Asks
<1>1. ASSUME UpdateProduct(s) \/ InsertProduct(s) \/ DeleteProduct(s)
      PROVE  Asked(s).cookie /\ Asked(s).role = "admin"
  <2>1. calls[s].pc \in {"update_product", "insert_product", "delete_product"}
    BY <1>1 DEF UpdateProduct, InsertProduct, DeleteProduct, At
  <2>2. Asked(s).route \in {"UpdateProduct", "CreateProduct", "DeleteProduct"}
    BY <1>0, <2>1 DEF OnRoute
  <2> QED
    BY <1>0, <2>1, <2>2, PassedMay
<1>2. ASSUME DeleteOrder(s) \/ SetStatus(s)
      PROVE  Asked(s).cookie /\ Asked(s).role \in {"admin", "manager"}
  <2>1. calls[s].pc \in {"delete_order", "set_status"}
    BY <1>2 DEF DeleteOrder, SetStatus, At
  <2>2. Asked(s).route \in {"AdminDeleteOrder", "AdminUpdateOrderStatus"}
    BY <1>0, <2>1 DEF OnRoute
  <2> QED
    BY <1>0, <2>1, <2>2, PassedMay
<1>3. ASSUME DeletePayment(s)
      PROVE  Asked(s).cookie /\ Asked(s).role = "admin"
  <2>1. calls[s].pc = "delete_payment"
    BY <1>3 DEF DeletePayment, At
  <2>2. Asked(s).route = "AdminDeletePayment"
    BY <1>0, <2>1 DEF OnRoute
  <2> QED
    BY <1>0, <2>1, <2>2, PassedMay
<1>4. ASSUME InsertOrder(s) \/ SetPaymentInfo(s) \/ CreatePayment(s)
      PROVE  Asked(s).cookie
  <2>1. calls[s].pc \in {"insert_order", "set_payment", "create_payment"}
    BY <1>4 DEF InsertOrder, SetPaymentInfo, CreatePayment, At
  <2>2. Asked(s).route = "CreateOrder"
    BY <1>0, <2>1 DEF OnRoute
  <2> QED
    BY <1>0, <2>1, <2>2, PassedMay
<1>5. products' # products => Asked(s).role = "admin"
  BY <1>1, Writes
<1>6. \A k \in Keys : orders'[k] # orders[k]
        => k = s \/ Asked(s).role \in {"admin", "manager"}
  BY <1>2, OrdersGrow
<1>7. \A k \in Keys : charges'[k] # charges[k]
        => k = s \/ Asked(s).role = "admin"
  BY <1>3, ChargesChange
<1>8. <<products, orders, charges>>' # <<products, orders, charges>>
        => Asked(s).cookie
  BY <1>1, <1>2, <1>3, <1>4, Writes
<1> QED
  BY <1>5, <1>6, <1>7, <1>8 DEF MayChange

\* Only three statements put rows into an answer.
LEMMA Showing ==
    ASSUME Kept, NEW s \in Slots, SlotStep(s), calls[s].request # None
    PROVE  \/ calls'[s].shown = calls[s].shown
           \/ ReadOrders(s) /\ Shows(s, OrderRows(OrdersFound(Asked(s))))
           \/ NotifyStatusChanged(s) /\ Shows(s, OrderRows({Input(s).order}))
           \/ ReadPayments(s) /\ Shows(s, PaymentRows(PaymentsFound(Asked(s))))
<1> DEFINE Same == \E pc, status, did : Becomes(s, pc, status, did, calls[s].shown)
<1>1. (\E pc : Moves(s, pc)) \/ (\E pc, did : Does(s, pc, did))
         \/ (\E status : Ends(s, status)) \/ Errs(s)
      => Same
  BY DEF Moves, Does, Ends, Errs
<1>2. Same => calls'[s].shown = calls[s].shown
  BY DEF Becomes
<1> HIDE DEF Same
<1>3. CASE Fail(s) \/ Reply(s) \/ Elsewhere(s) \/ UserEmail(s) \/
          GetProducts(s) \/ InsertOrder(s) \/ CreatePayment(s) \/
          SetPaymentInfo(s)
  BY <1>3, <1>1, <1>2, Becoming
<1>4. CASE ViewCart(s) \/ DeleteOrder(s) \/ GetOrderToUpdate(s) \/
          SetStatus(s) \/ RereadOrder(s) \/ DeletePayment(s)
  BY <1>4, <1>1, <1>2, Becoming
<1>5. CASE GetProduct(s) \/ UpdateProduct(s) \/ RereadProduct(s) \/
          StampProduct(s) \/ InsertProduct(s) \/ DeleteProduct(s) \/
          CountProducts(s) \/ FindProducts(s)
  BY <1>5, <1>1, <1>2, Becoming
<1>6. CASE ReadOrders(s) \/ NotifyStatusChanged(s) \/ ReadPayments(s)
  BY <1>6, <1>1, <1>2, Becoming
<1>7. CASE Arrive(s)
  BY <1>7 DEF Arrive, Kept, Ongoing
<1>8. CASE Admit(s)
  BY <1>8, <1>1, <1>2, AdmitKeeps
<1>9. CASE Expire(s)
  BY <1>9, ExpireKeeps
<1>10. CASE TurnPage(s)
  BY <1>10, <1>2, TurnPageKeeps DEF Same
<1> QED
  BY <1>3, <1>4, <1>5, <1>6, <1>7, <1>8, <1>9, <1>10 DEF SlotStep

LEMMA ShownAllowed ==
    ASSUME Kept, NEW s \in Slots, SlotStep(s), calls[s].request # None,
           NEW row \in calls'[s].shown \ calls[s].shown
    PROVE  Asked(s).cookie /\ MaySee(Asked(s), row)
<1>0. ASSUME calls[s].pc \notin {"idle", "gateway", "done"}
      PROVE  /\ Passed(Asked(s))
             /\ Asked(s).route \in DOMAIN Routes
             /\ OnRoute(calls[s].pc, Asked(s).route)
  BY <1>0, Past, Asks
<1>1. CASE ReadOrders(s) /\ Shows(s, OrderRows(OrdersFound(Asked(s))))
  <2>1. calls[s].pc = "read_orders"
    BY <1>1 DEF ReadOrders, At
  <2>2. Asked(s).route \in {"GetOrder", "ListOrders", "AdminGetOrder", "AdminListOrders"}
    BY <1>0, <2>1 DEF OnRoute
  <2>3. PICK k \in OrdersFound(Asked(s)) : row = <<"order", k>>
    BY <1>1 DEF Shows, Becomes, OrderRows
  <2>4. CASE Asked(s).route \in {"AdminGetOrder", "AdminListOrders"}
    BY <1>0, <2>1, <2>4, <2>3, PassedMay DEF MaySee
  <2>5. CASE Asked(s).route \in {"GetOrder", "ListOrders"}
    <3>1. Asked(s).cookie /\ Asked(s).user # ""
      BY <1>0, <2>1, <2>5, PassedMay
    <3>2. k \in ForUser(Asked(s).user)
      BY <2>3, <2>5 DEF OrdersFound
    <3>3. orders[k].user = Asked(s).user
      BY <3>1, <3>2 DEF ForUser
    <3> QED
      BY <2>3, <3>1, <3>3 DEF MaySee
  <2> QED
    BY <2>2, <2>4, <2>5
<1>2. CASE NotifyStatusChanged(s) /\ Shows(s, OrderRows({Input(s).order}))
  <2>1. calls[s].pc = "reread_items"
    BY <1>2 DEF NotifyStatusChanged, At
  <2>2. Asked(s).route = "AdminUpdateOrderStatus"
    BY <1>0, <2>1 DEF OnRoute
  <2>3. row = <<"order", Input(s).order>>
    BY <1>2 DEF Shows, Becomes, OrderRows
  <2> QED
    BY <1>0, <2>1, <2>2, <2>3, PassedMay DEF MaySee
<1>3. CASE ReadPayments(s) /\ Shows(s, PaymentRows(PaymentsFound(Asked(s))))
  <2>1. calls[s].pc = "read_payments"
    BY <1>3 DEF ReadPayments, At
  <2>2. Asked(s).route \in {"AdminListPayments", "AdminGetPayment"}
    BY <1>0, <2>1 DEF OnRoute
  <2>3. PICK k \in PaymentsFound(Asked(s)) : row = <<"payment", k>>
    BY <1>3 DEF Shows, Becomes, PaymentRows
  <2> QED
    BY <1>0, <2>1, <2>2, <2>3, PassedMay DEF MaySee
<1> QED
  BY <1>1, <1>2, <1>3, Showing

LEMMA AuthorisedStep ==
    ASSUME Kept, [Next]_vars, NEW s \in Slots,
           calls[s].request # None, calls'[s] # calls[s]
    PROVE  /\ MayChange(Asked(s), s)
           /\ \A row \in calls'[s].shown \ calls[s].shown :
                Asked(s).cookie /\ MaySee(Asked(s), row)
<1>1. SlotStep(s)
  <2>1. ASSUME NEW t \in Slots, SlotStep(t) PROVE t = s
    BY <2>1, SlotKeeps DEF Keeps, Rest
  <2>2. ~(Outside \/ UNCHANGED vars)
    BY OutsideLeaves
  <2> QED
    BY <2>1, <2>2 DEF Next, Outside
<1> QED
  BY <1>1, ChangesAllowed, ShownAllowed

\* Authorised: no request, whatever else goes on at the same time, shows or
\* changes what the policy does not give to the user and role of its token
\* (gateway/internal/server/server.go RequireRole, order/internal/db/repo.go
\* GetForUser, ListForUser).
THEOREM AuthorisedAlways == Spec => Authorised
<1>1. Kept /\ [Next]_vars =>
        [\A s \in Slots :
            calls[s].request # None /\ calls'[s] # calls[s] =>
               /\ MayChange(Asked(s), s)
               /\ \A row \in calls'[s].shown \ calls[s].shown :
                     Asked(s).cookie /\ MaySee(Asked(s), row)]_vars
  BY AuthorisedStep
<1> QED
  BY <1>1, KeptAlways, PTL DEF Spec, Authorised

-----------------------------------------------------------------------------
(***************************************************************************)
(* What is reported was done, although others write in between.            *)
(***************************************************************************)
LEMMA Where ==
    ASSUME NEW s \in Slots
    PROVE  /\ Arrive(s) => calls[s].pc = "idle"
           /\ TurnPage(s) => calls[s].pc = "done" /\ Asked(s).route = "ListProducts"
           /\ Fail(s) => calls[s].pc \notin {"idle", "gateway", "email", "done"}
           /\ Admit(s) => calls[s].pc = "gateway"
           /\ Reply(s) => calls[s].pc = "reply"
           /\ Elsewhere(s) => calls[s].pc = "elsewhere"
           /\ UserEmail(s) => calls[s].pc = "email"
           /\ GetProducts(s) => calls[s].pc = "products"
           /\ InsertOrder(s) => calls[s].pc = "insert_order"
           /\ CreatePayment(s) => calls[s].pc = "create_payment"
           /\ SetPaymentInfo(s) => calls[s].pc = "set_payment"
           /\ ViewCart(s) => calls[s].pc = "view_cart"
           /\ ReadOrders(s) => calls[s].pc = "read_orders"
           /\ DeleteOrder(s) => calls[s].pc = "delete_order"
           /\ GetOrderToUpdate(s) => calls[s].pc = "get_order"
           /\ SetStatus(s) => calls[s].pc = "set_status"
           /\ RereadOrder(s) => calls[s].pc = "reread_order"
           /\ NotifyStatusChanged(s) => calls[s].pc = "reread_items"
           /\ ReadPayments(s) => calls[s].pc = "read_payments"
           /\ DeletePayment(s) => calls[s].pc = "delete_payment"
           /\ GetProduct(s) => calls[s].pc = "get_product"
           /\ UpdateProduct(s) => calls[s].pc = "update_product"
           /\ RereadProduct(s) => calls[s].pc = "reread_product"
           /\ StampProduct(s) => calls[s].pc = "stamp"
           /\ InsertProduct(s) => calls[s].pc = "insert_product"
           /\ DeleteProduct(s) => calls[s].pc = "delete_product"
           /\ CountProducts(s) => calls[s].pc = "count"
           /\ FindProducts(s) => calls[s].pc = "find"
<1> USE DEF At
<1>1. Arrive(s) => calls[s].pc = "idle"
  BY DEF Arrive
<1>2. TurnPage(s) => calls[s].pc = "done" /\ Asked(s).route = "ListProducts"
  BY DEF TurnPage
<1>3. Fail(s) => calls[s].pc \notin {"idle", "gateway", "email", "done"}
  BY DEF Fail
<1>4. Admit(s) => calls[s].pc = "gateway"
  BY DEF Admit
<1>5. Reply(s) => calls[s].pc = "reply"
  BY DEF Reply
<1>6. Elsewhere(s) => calls[s].pc = "elsewhere"
  BY DEF Elsewhere
<1>7. UserEmail(s) => calls[s].pc = "email"
  BY DEF UserEmail
<1>8. GetProducts(s) => calls[s].pc = "products"
  BY DEF GetProducts
<1>9. InsertOrder(s) => calls[s].pc = "insert_order"
  BY DEF InsertOrder
<1>10. CreatePayment(s) => calls[s].pc = "create_payment"
  BY DEF CreatePayment
<1>11. SetPaymentInfo(s) => calls[s].pc = "set_payment"
  BY DEF SetPaymentInfo
<1>12. ViewCart(s) => calls[s].pc = "view_cart"
  BY DEF ViewCart
<1>13. ReadOrders(s) => calls[s].pc = "read_orders"
  BY DEF ReadOrders
<1>14. DeleteOrder(s) => calls[s].pc = "delete_order"
  BY DEF DeleteOrder
<1>15. GetOrderToUpdate(s) => calls[s].pc = "get_order"
  BY DEF GetOrderToUpdate
<1>16. SetStatus(s) => calls[s].pc = "set_status"
  BY DEF SetStatus
<1>17. RereadOrder(s) => calls[s].pc = "reread_order"
  BY DEF RereadOrder
<1>18. NotifyStatusChanged(s) => calls[s].pc = "reread_items"
  BY DEF NotifyStatusChanged
<1>19. ReadPayments(s) => calls[s].pc = "read_payments"
  BY DEF ReadPayments
<1>20. DeletePayment(s) => calls[s].pc = "delete_payment"
  BY DEF DeletePayment
<1>21. GetProduct(s) => calls[s].pc = "get_product"
  BY DEF GetProduct
<1>22. UpdateProduct(s) => calls[s].pc = "update_product"
  BY DEF UpdateProduct
<1>23. RereadProduct(s) => calls[s].pc = "reread_product"
  BY DEF RereadProduct
<1>24. StampProduct(s) => calls[s].pc = "stamp"
  BY DEF StampProduct
<1>25. InsertProduct(s) => calls[s].pc = "insert_product"
  BY DEF InsertProduct
<1>26. DeleteProduct(s) => calls[s].pc = "delete_product"
  BY DEF DeleteProduct
<1>27. CountProducts(s) => calls[s].pc = "count"
  BY DEF CountProducts
<1>28. FindProducts(s) => calls[s].pc = "find"
  BY DEF FindProducts
<1> QED
  BY <1>1, <1>2, <1>3, <1>4, <1>5, <1>6, <1>7, <1>8, <1>9, <1>10, <1>11,
     <1>12, <1>13, <1>14, <1>15, <1>16, <1>17, <1>18, <1>19, <1>20, <1>21,
     <1>22, <1>23, <1>24, <1>25, <1>26, <1>27, <1>28

\* A new product is never on its way for a second time.
LEMMA CreatingStays ==
    ASSUME Kept, NEW s \in Slots, SlotStep(s), NEW q, q.route = "CreateProduct",
           Creating(s, q)'
    PROVE  Creating(s, q)
<1> DEFINE away == {"email", "products", "insert_order", "create_payment",
                    "set_payment", "reply", "set_status", "reread_order",
                    "reread_items", "update_product", "reread_product",
                    "find", "done"}
<1>1. ASSUME NEW pc \in away, NEW status, NEW did, NEW shown,
             Becomes(s, pc, status, did, shown)
      PROVE  FALSE
  <2>1. calls'[s].pc = pc
    BY <1>1, BecomesFields
  <2> QED
    BY <2>1 DEF Creating, At
<1>2. /\ \A pc \in away : ~Moves(s, pc)
      /\ \A pc \in away : \A did : ~Does(s, pc, did)
      /\ \A shown : ~Shows(s, shown)
      /\ \A status : ~Ends(s, status)
      /\ ~Errs(s)
  BY <1>1 DEF Moves, Does, Shows, Ends, Errs
<1> HIDE DEF away
<1>3. \A pc \in {"products", "insert_order", "create_payment", "set_payment",
                 "reply", "set_status", "reread_order", "reread_items",
                 "update_product", "reread_product", "find"} : pc \in away
  BY DEF away
<1>4. CASE Arrive(s)
  BY <1>4, Where DEF Creating, At
<1>5. CASE Admit(s)
  <2>1. calls'[s].request = calls[s].request
    BY <1>5, AdmitKeeps
  <2>2. calls'[s].pc \in {First(Asked(s)), "done"}
    BY <1>5, AdmitKeeps
  <2>3. calls'[s].pc # "idle"
    BY <2>2, FirstOnRoute DEF Starts
  <2> QED
    BY <1>5, <2>1, <2>3, Where DEF Creating, At, Asked
<1>6. CASE StampProduct(s)
  <2>1. Moves(s, "insert_product")
    BY <1>6, <1>2, Becoming
  <2>2. calls'[s].request = calls[s].request /\ calls'[s].pc = "insert_product"
    BY <2>1, MovesFields
  <2> QED
    BY <1>6, <2>2, Where DEF Creating, At, Asked
<1>7. CASE Expire(s)
  BY <1>7, ExpireKeeps DEF Creating, At, Asked
<1>8. CASE TurnPage(s)
  <2>1. calls'[s].request = calls[s].request /\ calls'[s].pc = "gateway"
    BY <1>8, TurnPageKeeps, BecomesFields
  <2> QED
    BY <1>8, <2>1, Where DEF Creating, At, Asked
<1>9. CASE Fail(s) \/ Reply(s) \/ Elsewhere(s) \/ UserEmail(s) \/
          GetProducts(s) \/ InsertOrder(s)
  BY <1>9, <1>2, <1>3, Becoming
<1>10. CASE CreatePayment(s) \/ SetPaymentInfo(s) \/ ViewCart(s) \/
          ReadOrders(s) \/ DeleteOrder(s) \/ GetOrderToUpdate(s)
  BY <1>10, <1>2, <1>3, Becoming
<1>11. CASE SetStatus(s) \/ RereadOrder(s) \/ NotifyStatusChanged(s) \/
          ReadPayments(s) \/ DeletePayment(s) \/ GetProduct(s)
  BY <1>11, <1>2, <1>3, Becoming
<1>12. CASE UpdateProduct(s) \/ RereadProduct(s) \/ InsertProduct(s) \/
          DeleteProduct(s) \/ CountProducts(s) \/ FindProducts(s)
  BY <1>12, <1>2, <1>3, Becoming
<1> QED
  BY <1>4, <1>5, <1>6, <1>7, <1>8, <1>9, <1>10, <1>11, <1>12 DEF SlotStep

LEMMA SettledStays ==
    ASSUME Kept, NEW s \in Slots, SlotStep(s), NEW p, Settled(p)
    PROVE  Settled(p)'
<1>1. scenario' = scenario /\ \A t \in Slots \ {s} : calls'[t] = calls[t]
  BY SlotKeeps DEF Keeps, Rest
<1>2. SUFFICES ASSUME NEW t \in Slots, NEW q \in Creates(t, p), Creating(t, q)'
               PROVE  Creating(t, q)
  BY <1>1 DEF Settled, Creates
<1>3. CASE t = s
  BY <1>2, <1>3, CreatingStays DEF Creates
<1>4. CASE t # s
  BY <1>1, <1>2, <1>4 DEF Creating, At, Asked
<1> QED
  BY <1>3, <1>4

LEMMA PlacedStays ==
    ASSUME Kept, NEW s \in Slots, SlotStep(s), NEW k, Placed(k)
    PROVE  Placed(k)'
<1>1. CASE k = s
  <2>1. /\ calls[s].pc \in {"create_payment", "set_payment", "reply", "done"}
        /\ Asked(s).route = "CreateOrder"
    BY <1>1 DEF Placed
  <2>2. ASSUME NEW pc \in {"set_payment", "reply", "done"},
               NEW status, NEW did, NEW shown, Becomes(s, pc, status, did, shown)
        PROVE  Placed(k)'
    <3>1. calls'[s].request = calls[s].request /\ calls'[s].pc = pc
      BY <2>2, BecomesFields
    <3> QED
      BY <1>1, <2>1, <3>1 DEF Placed, Asked
  <2>3. CASE Fail(s) \/ Reply(s)
    BY <2>3, <2>2, Becoming DEF Ends, Errs
  <2>4. CASE CreatePayment(s) \/ SetPaymentInfo(s)
    BY <2>4, <2>2, Becoming DEF Moves, Does, Ends, Errs
  <2>5. CASE Expire(s)
    BY <2>5, <1>1, <2>1, ExpireKeeps DEF Placed, Asked
  <2>6. CASE TurnPage(s)
    BY <2>1, <2>6, Where
  <2>7. CASE Arrive(s) \/ Admit(s) \/ Elsewhere(s) \/ UserEmail(s) \/
            GetProducts(s) \/ InsertOrder(s) \/ ViewCart(s)
    BY <2>1, <2>7, Where
  <2>8. CASE ReadOrders(s) \/ DeleteOrder(s) \/ GetOrderToUpdate(s) \/
            SetStatus(s) \/ RereadOrder(s) \/ NotifyStatusChanged(s) \/
            ReadPayments(s)
    BY <2>1, <2>8, Where
  <2>9. CASE DeletePayment(s) \/ GetProduct(s) \/ UpdateProduct(s) \/
            RereadProduct(s) \/ StampProduct(s) \/ InsertProduct(s) \/
            DeleteProduct(s) \/ CountProducts(s) \/ FindProducts(s)
    BY <2>1, <2>9, Where
  <2> QED
    BY <2>3, <2>4, <2>5, <2>6, <2>7, <2>8, <2>9 DEF SlotStep
<1>2. CASE k # s
  BY <1>2, SlotKeeps DEF Keeps, Rest, Placed, Asked
<1> QED
  BY <1>1, <1>2

LEMMA ReportingStep ==
    ASSUME Kept, Truthful, NEW s \in Slots, SlotStep(s)
    PROVE  Reporting(s)'
<1>0. Reporting(s) /\ Updating(s) /\ Editing(s)
  BY DEF Truthful
<1>1. ASSUME NEW pc, NEW did, calls[s].pc # "done",
             calls'[s].request = calls[s].request, calls'[s].pc = pc,
             calls'[s].status = calls[s].status, calls'[s].did = did,
             pc \in {"set_payment", "reread_items"} => did,
             pc = "reply" => did \/ Asked(s).route \notin Reported
      PROVE  Reporting(s)'
  <2>1. calls'[s].status = 0
    BY <1>0, <1>1 DEF Reporting, At
  <2>2. calls'[s].status \notin {200, 201}
    BY <2>1
  <2> QED
    BY <1>1, <2>1, <2>2, Zenon DEF Reporting, At, Asked
<1>2. ASSUME NEW pc, calls[s].pc # "done", Moves(s, pc),
             pc \in {"set_payment", "reread_items"} => calls[s].did,
             pc = "reply" => calls[s].did \/ Asked(s).route \notin Reported
      PROVE  Reporting(s)'
  BY <1>1, <1>2, MovesFields
<1>3. ASSUME NEW pc, calls[s].pc # "done", Does(s, pc, TRUE)
      PROVE  Reporting(s)'
  BY <1>1, <1>3, DoesFields
<1>4. ASSUME NEW status \in {400, 401, 403, 500}, Ends(s, status)
      PROVE  Reporting(s)'
  <2>1. calls'[s].pc = "done" /\ calls'[s].status = status
    BY <1>4 DEF Ends, Becomes
  <2> QED
    BY <2>1 DEF Reporting, At
<1>5. ASSUME Errs(s), calls[s].pc # "idle" PROVE Reporting(s)'
  BY <1>4, <1>5, Asks DEF Errs, At
<1>7. CASE Arrive(s)
  <2>1. calls = [t \in Slots |-> calls[t]]
    BY DEF Kept, Tabled
  <2>2. calls'[s].pc = "gateway" /\ calls'[s].status = 0
    BY <1>7, <2>1 DEF Arrive, NoCall
  <2> QED
    BY <2>2 DEF Reporting, At
<1>8. CASE Admit(s)
  <2>1. CASE \E refusal \in {400, 401, 403} : Ends(s, refusal)
    BY <1>4, <2>1
  <2>2. CASE Moves(s, First(Asked(s)))
    <3>1. /\ calls'[s].pc = First(Asked(s))
          /\ calls'[s].status = calls[s].status
      BY <2>2 DEF Moves, Becomes
    <3>2. calls'[s].pc \in Starts
      BY <3>1, FirstOnRoute
    <3>3. calls'[s].pc \notin {"set_payment", "reread_items", "reply"}
      BY <3>2 DEF Starts
    <3>4. calls'[s].status = 0
      BY <1>0, <1>8, <3>1, Where DEF Reporting, At
    <3>5. calls'[s].status \notin {200, 201}
      BY <3>4
    <3> QED
      BY <3>3, <3>4, <3>5, Zenon DEF Reporting, At
  <2> QED
    BY <1>8, <2>1, <2>2, AdmitKeeps
<1>9. CASE Expire(s)
  <2>1. calls' = calls
    BY <1>9, ExpireKeeps
  <2> QED
    BY <1>0, <2>1, Zenon DEF Reporting, At, Asked
<1>10. CASE TurnPage(s)
  <2>1. calls'[s].pc = "gateway" /\ calls'[s].status = 0
    <3>1. Becomes(s, "gateway", 0, calls[s].did, calls[s].shown)
      BY <1>10, TurnPageKeeps
    <3> QED
      BY <3>1 DEF Becomes
  <2> QED
    BY <2>1 DEF Reporting, At
<1>11. CASE Fail(s)
  BY <1>5, <1>11, Becoming, Where
<1>12. CASE Reply(s)
  <2>1. /\ calls'[s].pc = "done" /\ calls'[s].did = calls[s].did
        /\ calls'[s].request = calls[s].request
    <3>1. Ends(s, Routes[Asked(s).route].ok)
      BY <1>12, Becoming
    <3> QED
      BY <3>1 DEF Ends, Becomes, Asked
  <2>2. Asked(s).route \in Reported => calls[s].did
    <3>1. calls[s].pc = "reply"
      BY <1>12, Where
    <3> QED
      BY <1>0, <3>1, Zenon DEF Reporting, At
  <2>3. calls'[s].pc \notin {"set_payment", "reread_items", "reply"}
    BY <2>1
  <2> QED
    BY <2>1, <2>2, <2>3, Zenon DEF Reporting, At, Asked
\* The answers on routes that report nothing as done.
<1>13. CASE Elsewhere(s) \/ ViewCart(s) \/ FindProducts(s)
  <2>1. calls[s].pc \in {"elsewhere", "view_cart", "find"}
    BY <1>13, Where
  <2>2. Asked(s).route \notin Reported
    BY <2>1, Past DEF OnRoute, Reported
  <2> QED
    BY <1>2, <1>13, <2>1, <2>2, Becoming
<1>14. CASE ReadOrders(s) \/ ReadPayments(s)
  <2>1. calls[s].pc \in {"read_orders", "read_payments"}
    BY <1>14, Where
  <2>2. Asked(s).route \notin Reported
    BY <2>1, Past DEF OnRoute, Reported
  <2>3. CASE ~Errs(s)
    <3>1. /\ calls'[s].request = calls[s].request
          /\ calls'[s].pc = "reply"
          /\ calls'[s].status = calls[s].status
          /\ calls'[s].did = calls[s].did
      <4>1. \/ Shows(s, OrderRows(OrdersFound(Asked(s))))
            \/ Shows(s, PaymentRows(PaymentsFound(Asked(s))))
        BY <1>14, <2>3, Becoming
      <4> QED
        BY <4>1 DEF Shows, Becomes, Asked
    <3> QED
      BY <1>1, <2>1, <2>2, <3>1
  <2> QED
    BY <1>5, <2>1, <2>3
<1>15. CASE DeleteOrder(s) \/ DeleteProduct(s)
  <2>1. calls[s].pc \in {"delete_order", "delete_product"}
    BY <1>15, Where
  <2>2. Asked(s).route \notin Reported
    BY <2>1, Past DEF OnRoute, Reported
  <2> QED
    BY <1>1, <1>15, <2>1, <2>2, Becoming, DoesFields
\* The statements between.
<1>16. CASE UserEmail(s) \/ InsertOrder(s) \/ CountProducts(s)
  BY <1>2, <1>16, Becoming, Where
<1>17. CASE GetProducts(s) \/ GetOrderToUpdate(s) \/ StampProduct(s)
  BY <1>2, <1>5, <1>17, Becoming, Where
<1>18. CASE SetStatus(s) \/ UpdateProduct(s)
  <2>1. PICK pc \in {"reread_order", "reread_product"} :
           \E did : Does(s, pc, did)
    BY <1>18, Becoming
  <2>2. PICK did : Does(s, pc, did)
    BY <2>1
  <2>3. calls[s].pc # "done"
        /\ pc \notin {"set_payment", "reread_items", "reply"}
    BY <1>18, Where
  <2> QED
    BY <1>1, <2>2, <2>3, DoesFields
\* The routes that report.
<1>19. CASE CreatePayment(s) \/ DeletePayment(s) \/ InsertProduct(s)
  BY <1>3, <1>5, <1>19, Becoming, Where
<1>20. CASE SetPaymentInfo(s)
  <2>1. calls[s].pc = "set_payment" /\ calls[s].did
    BY <1>0, <1>20, Where DEF Reporting
  <2> QED
    BY <1>2, <1>20, <2>1, Becoming
<1>21. CASE RereadOrder(s)
  <2>1. calls[s].pc = "reread_order"
    BY <1>21, Where
  <2>2. orders[Input(s).order] # None => calls[s].did
    BY <1>0, <2>1 DEF Updating, At
  <2> QED
    BY <1>2, <1>5, <1>21, <2>1, <2>2, Becoming
<1>22. CASE NotifyStatusChanged(s)
  <2>1. calls[s].pc = "reread_items" /\ calls[s].did
    BY <1>0, <1>22, Where DEF Reporting
  <2>2. /\ calls'[s].request = calls[s].request
        /\ calls'[s].pc = "reply"
        /\ calls'[s].status = calls[s].status
        /\ calls'[s].did = calls[s].did
    <3>1. Shows(s, OrderRows({Input(s).order}))
      BY <1>22, Becoming
    <3> QED
      BY <3>1 DEF Shows, Becomes, Asked
  <2> QED
    BY <1>1, <2>1, <2>2
<1>23. CASE GetProduct(s)
  <2>1. calls[s].pc = "get_product"
    BY <1>23, Where
  <2>2. Asked(s).route = "GetProduct" => Asked(s).route \notin Reported
    BY DEF Reported
  <2> QED
    BY <1>2, <1>5, <1>23, <2>1, <2>2, Becoming
<1>24. CASE RereadProduct(s)
  <2>1. calls[s].pc = "reread_product"
    BY <1>24, Where
  <2>2. Stored(Input(s).product) => calls[s].did
    BY <1>0, <2>1 DEF Editing, At
  <2> QED
    BY <1>2, <1>5, <1>24, <2>1, <2>2, Becoming
<1> QED
  BY <1>7, <1>8, <1>9, <1>10, <1>11, <1>12, <1>13, <1>14, <1>15, <1>16, <1>17,
     <1>18, <1>19, <1>20, <1>21, <1>22, <1>23, <1>24 DEF SlotStep

LEMMA Landing ==
    ASSUME Kept, NEW s \in Slots
    PROVE  /\ Errs(s) \/ Reply(s) => calls'[s].pc = "done"
           /\ ReadOrders(s) \/ NotifyStatusChanged(s) \/ ReadPayments(s)
              => calls'[s].pc \in {"reply", "done"}
           /\ Arrive(s) \/ TurnPage(s) => calls'[s].pc = "gateway"
<1>1. Errs(s) => calls'[s].pc = "done"
  BY DEF Errs, Ends, Becomes
<1>2. ASSUME Reply(s) PROVE calls'[s].pc = "done"
  <2>1. Ends(s, Routes[Asked(s).route].ok)
    BY <1>2, Becoming
  <2> QED
    BY <2>1 DEF Ends, Becomes
<1>3. ASSUME ReadOrders(s) \/ NotifyStatusChanged(s) \/ ReadPayments(s), ~Errs(s)
      PROVE  calls'[s].pc = "reply"
  <2>1. \/ Shows(s, OrderRows(OrdersFound(Asked(s))))
        \/ Shows(s, OrderRows({Input(s).order}))
        \/ Shows(s, PaymentRows(PaymentsFound(Asked(s))))
    BY <1>3, Becoming
  <2> QED
    BY <2>1 DEF Shows, Becomes
<1>4. ASSUME Arrive(s) PROVE calls'[s].pc = "gateway"
  <2>1. calls = [t \in Slots |-> calls[t]]
    BY DEF Kept, Tabled
  <2> QED
    BY <1>4, <2>1 DEF Arrive, NoCall
<1>5. ASSUME TurnPage(s) PROVE calls'[s].pc = "gateway"
  <2>1. Becomes(s, "gateway", 0, calls[s].did, calls[s].shown)
    BY <1>5, TurnPageKeeps
  <2> QED
    BY <2>1 DEF Becomes
<1> QED
  BY <1>1, <1>2, <1>3, <1>4, <1>5

\* The only ways to the statements that follow a first look at a row.
LEMMA Reaches ==
    ASSUME Kept, NEW s \in Slots, SlotStep(s),
           calls'[s].pc \in {"set_status", "reread_order", "reread_items",
                             "update_product", "reread_product"}
    PROVE  \/ Expire(s) \/ GetOrderToUpdate(s) \/ SetStatus(s) \/ RereadOrder(s)
           \/ GetProduct(s) \/ UpdateProduct(s)
<1> DEFINE away == {"products", "insert_order", "create_payment", "set_payment",
                    "reply", "insert_product", "find"}
<1>1. ASSUME NEW pc \in away, Moves(s, pc) PROVE FALSE
  <2>1. calls'[s].pc = pc
    BY <1>1, MovesFields
  <2> QED
    BY <2>1
<1>2. ASSUME NEW pc \in away, NEW did, Does(s, pc, did) PROVE FALSE
  <2>1. calls'[s].pc = pc
    BY <1>2, DoesFields
  <2> QED
    BY <2>1
<1>3. ~Errs(s)
  BY Landing
<1> HIDE DEF away
<1>4. \A pc \in {"products", "insert_order", "create_payment", "set_payment",
                 "reply", "insert_product", "find"} : pc \in away
  BY DEF away
<1>5. ~Reply(s)
  BY Landing
<1>6. ~ReadOrders(s) /\ ~NotifyStatusChanged(s) /\ ~ReadPayments(s)
  BY Landing
<1>7. ~Arrive(s)
  BY Landing
<1>8. ~Admit(s)
  <2>1. Admit(s) => calls'[s].pc \in {First(Asked(s)), "done"}
    BY AdmitKeeps
  <2> QED
    BY <2>1, FirstOnRoute DEF Starts
<1>9. ~TurnPage(s)
  BY Landing
<1>10. CASE Fail(s) \/ Elsewhere(s) \/ UserEmail(s) \/ GetProducts(s) \/
          InsertOrder(s) \/ CreatePayment(s)
  BY <1>1, <1>2, <1>3, <1>4, <1>10, Becoming
<1>11. CASE SetPaymentInfo(s) \/ ViewCart(s) \/ DeleteOrder(s) \/
          DeletePayment(s) \/ RereadProduct(s)
  BY <1>1, <1>2, <1>3, <1>4, <1>11, Becoming
<1>12. CASE StampProduct(s) \/ InsertProduct(s) \/ DeleteProduct(s) \/
          CountProducts(s) \/ FindProducts(s)
  BY <1>1, <1>2, <1>3, <1>4, <1>12, Becoming
<1> QED
  BY <1>5, <1>6, <1>7, <1>8, <1>9, <1>10, <1>11, <1>12 DEF SlotStep

\* A status that is about to be set, or was, is that of an order that was placed.
LEMMA UpdatingStep ==
    ASSUME Kept, Truthful, NEW s \in Slots, SlotStep(s), NEW t \in Slots
    PROVE  Updating(t)'
<1>0. /\ Updating(t)
      /\ \A k \in Keys : orders[k] # None => Placed(k)
  BY DEF Truthful
<1>1. ASSUME NEW k \in Keys, Placed(k), orders[k] = None
      PROVE  orders'[k] = None
  <2>1. ~(k = s /\ InsertOrder(s))
    BY <1>1, Where DEF Placed
  <2> QED
    BY <1>1, <2>1, OrdersGrow
<1>2. ASSUME ~At(t, "idle"), Asked(t).route = "AdminUpdateOrderStatus"
      PROVE  Input(t).order \in Keys
  <2>1. Asked(t) \in scenario.requests[t] /\ scenario \in Scenarios
    BY <1>2 DEF Kept, Ongoing, Asked
  <2> QED
    BY <1>2, <2>1, ScenariosAssumption DEF Input
<1>3. ASSUME calls[t].pc \in {"get_order", "set_status", "reread_order", "reread_items"}
      PROVE  Input(t).order \in Keys
  BY <1>2, <1>3, Past DEF OnRoute
<1>4. ASSUME calls'[t].pc \notin {"set_status", "reread_order", "reread_items"}
      PROVE  Updating(t)'
  BY <1>4 DEF Updating, At
<1>5. CASE calls'[t] = calls[t]
  <2>1. CASE calls[t].pc \in {"set_status", "reread_order", "reread_items"}
    <3>1. Input(t).order \in Keys /\ Placed(Input(t).order)
      BY <1>0, <1>3, <2>1 DEF Updating
    <3>2. Placed(Input(t).order)'
      BY <3>1, <1>5, PlacedStays DEF Input, Asked
    <3>3. Input(t)' = Input(t)
      BY <1>5 DEF Input, Asked
    <3>4. calls[t].pc = "reread_order" /\ ~calls[t].did
          => orders'[Input(t).order] = None
      BY <1>0, <1>1, <3>1 DEF Updating, At
    <3> QED
      BY <1>5, <3>2, <3>3, <3>4, Zenon DEF Updating, At
  <2>2. CASE calls[t].pc \notin {"set_status", "reread_order", "reread_items"}
    BY <1>4, <1>5, <2>2
  <2> QED
    BY <2>1, <2>2
<1>6. CASE t # s
  BY <1>5, <1>6, SlotKeeps DEF Keeps, Rest
<1>7. CASE t = s /\ Expire(s)
  BY <1>5, <1>7, ExpireKeeps
<1>8. CASE t = s /\ GetOrderToUpdate(s)
  <2>1. calls[s].pc = "get_order"
    BY <1>8, Where
  <2>2. CASE Errs(s)
    <3>1. calls'[s].pc = "done"
      BY <2>2 DEF Errs, Ends, Becomes
    <3> QED
      BY <1>4, <1>8, <3>1
  <2>3. CASE orders[Input(s).order] # None /\ Moves(s, "set_status")
    <3>1. Input(s)' = Input(s) /\ calls'[s].pc = "set_status"
      BY <2>3, MovesFields DEF Input, Asked
    <3>2. Placed(Input(s).order)
      BY <1>0, <1>3, <1>8, <2>1, <2>3
    <3>3. Placed(Input(s).order)'
      BY <3>1, <3>2, PlacedStays DEF Placed
    <3> QED
      BY <1>8, <3>1, <3>3 DEF Updating, At
  <2> QED
    BY <1>8, <2>2, <2>3, Becoming
<1>9. CASE t = s /\ SetStatus(s)
  <2>1. calls[s].pc = "set_status"
    BY <1>9, Where
  <2>2. Input(s).order \in Keys /\ Placed(Input(s).order)
    BY <1>0, <1>3, <1>9, <2>1 DEF Updating
  <2>3. PICK did : /\ Does(s, "reread_order", did)
                   /\ did \/ orders[Input(s).order] = None
    BY <1>9, Becoming
  <2>4. /\ calls'[s].request = calls[s].request
        /\ calls'[s].pc = "reread_order"
        /\ calls'[s].did = did
    BY <2>3, DoesFields
  <2>5. Input(s)' = Input(s)
    BY <2>4 DEF Input, Asked
  <2>6. Placed(Input(s).order)'
    BY <2>2, <2>5, PlacedStays DEF Placed
  <2>7. calls'[s].did \/ orders'[Input(s).order] = None
    BY <1>1, <2>2, <2>3, <2>4
  <2> QED
    BY <1>9, <2>4, <2>5, <2>6, <2>7, Zenon DEF Updating, At
<1>10. CASE t = s /\ RereadOrder(s)
  <2>1. calls[s].pc = "reread_order"
    BY <1>10, Where
  <2>2. CASE Errs(s)
    <3>1. calls'[s].pc = "done"
      BY <2>2 DEF Errs, Ends, Becomes
    <3> QED
      BY <1>4, <1>10, <3>1
  <2>3. CASE Moves(s, "reread_items")
    <3>1. Input(s)' = Input(s) /\ calls'[s].pc = "reread_items"
      BY <2>3, MovesFields DEF Input, Asked
    <3>2. Placed(Input(s).order)
      BY <1>0, <1>10, <2>1 DEF Updating
    <3>3. Placed(Input(s).order)'
      BY <3>1, <3>2, PlacedStays DEF Placed
    <3> QED
      BY <1>10, <3>1, <3>3 DEF Updating, At
  <2> QED
    BY <1>10, <2>2, <2>3, Becoming
<1>11. CASE t = s /\ (GetProduct(s) \/ UpdateProduct(s))
  <2>1. \/ Errs(s)
        \/ \E pc \in {"reply", "update_product"} : Moves(s, pc)
        \/ \E pc \in {"reread_product"} : \E did : Does(s, pc, did)
    BY <1>11, Becoming
  <2>2. Errs(s) => calls'[s].pc = "done"
    BY DEF Errs, Ends, Becomes
  <2>3. calls'[s].pc \in {"done", "reply", "update_product", "reread_product"}
    BY <2>1, <2>2, MovesFields, DoesFields
  <2>4. calls'[s].pc \notin {"set_status", "reread_order", "reread_items"}
    BY <2>3
  <2> QED
    BY <1>4, <1>11, <2>4
<1> QED
  BY <1>4, <1>6, <1>7, <1>8, <1>9, <1>10, <1>11, Reaches

\* A product that is about to be updated, or was, is one that nobody will create.
LEMMA EditingStep ==
    ASSUME Kept, Truthful, NEW s \in Slots, SlotStep(s), NEW t \in Slots
    PROVE  Editing(t)'
<1>0. /\ Editing(t)
      /\ \A p \in Products : Stored(p) => Settled(p)
  BY DEF Truthful
<1>1. ASSUME NEW p \in Products, Settled(p), ~Stored(p)
      PROVE  ~Stored(p)'
  <2>1. SUFFICES ASSUME InsertProduct(s), p = Input(s).product
                 PROVE  FALSE
    BY <1>1, ProductsGrow
  <2>2. calls[s].pc = "insert_product"
    BY <2>1, Where
  <2>3. Asked(s).route = "CreateProduct" /\ ~At(s, "idle")
    BY <2>2, Past DEF OnRoute
  <2>4. Asked(s) \in Creates(s, p)
    BY <2>1, <2>3 DEF Kept, Ongoing, Asked, Creates, Input
  <2> QED
    BY <1>1, <2>2, <2>4 DEF Settled, Creating
<1>2. ASSUME calls[t].pc \in {"get_product", "update_product", "reread_product"},
             Asked(t).route = "UpdateProduct"
      PROVE  Input(t).product \in Products
  <2>1. Asked(t) \in scenario.requests[t] /\ scenario \in Scenarios
    BY <1>2 DEF Kept, Ongoing, Asked, At
  <2> QED
    BY <1>2, <2>1, ScenariosAssumption DEF Input
<1>3. ASSUME calls[t].pc \in {"update_product", "reread_product"}
      PROVE  /\ Input(t).product \in Products
             /\ Settled(Input(t).product)
  <2>1. Asked(t).route = "UpdateProduct"
    BY <1>3, Past DEF OnRoute
  <2> QED
    BY <1>0, <1>2, <1>3, <2>1 DEF Editing
<1>4. ASSUME calls'[t].pc \notin {"update_product", "reread_product"}
      PROVE  Editing(t)'
  BY <1>4 DEF Editing, At
<1>5. CASE calls'[t] = calls[t]
  <2>1. CASE calls[t].pc \in {"update_product", "reread_product"}
    <3>1. Input(t)' = Input(t)
      BY <1>5 DEF Input, Asked
    <3>2. Settled(Input(t).product)'
      BY <1>3, <2>1, <3>1, SettledStays DEF Settled
    <3>3. calls[t].pc = "reread_product" /\ ~calls[t].did
          => ~Stored(Input(t).product)
      BY <1>0 DEF Editing, At
    <3>4. calls[t].pc = "reread_product" /\ ~calls[t].did
          => ~Stored(Input(t).product)'
      BY <1>1, <1>3, <2>1, <3>1, <3>3 DEF Stored
    <3> QED
      BY <1>5, <3>1, <3>2, <3>4, Zenon DEF Editing, At
  <2>2. CASE calls[t].pc \notin {"update_product", "reread_product"}
    BY <1>4, <1>5, <2>2
  <2> QED
    BY <2>1, <2>2
<1>6. CASE t # s
  BY <1>5, <1>6, SlotKeeps DEF Keeps, Rest
<1>7. CASE t = s /\ Expire(s)
  BY <1>5, <1>7, ExpireKeeps
<1>8. CASE t = s /\ GetProduct(s)
  <2>1. CASE Asked(s).route # "GetProduct" /\ Stored(Input(s).product)
             /\ Moves(s, "update_product")
    <3>1. calls[s].pc = "get_product"
      BY <1>8, Where
    <3>2. Asked(s).route = "UpdateProduct"
      BY <2>1, <3>1, Past DEF OnRoute
    <3>3. Input(s).product \in Products /\ Settled(Input(s).product)
      BY <1>0, <1>2, <1>8, <2>1, <3>1, <3>2
    <3>4. Input(s)' = Input(s) /\ calls'[s].pc = "update_product"
      BY <2>1, MovesFields DEF Input, Asked
    <3>5. Settled(Input(s).product)'
      BY <3>3, <3>4, SettledStays DEF Settled
    <3> QED
      BY <1>8, <3>4, <3>5 DEF Editing, At
  <2>2. CASE Errs(s)
    <3>1. calls'[s].pc = "done"
      BY <2>2 DEF Errs, Ends, Becomes
    <3> QED
      BY <1>4, <1>8, <3>1
  <2>3. CASE Moves(s, "reply")
    <3>1. calls'[s].pc = "reply"
      BY <2>3, MovesFields
    <3> QED
      BY <1>4, <1>8, <3>1
  <2> QED
    BY <1>8, <2>1, <2>2, <2>3, Becoming
<1>9. CASE t = s /\ UpdateProduct(s)
  <2>1. calls[s].pc = "update_product"
    BY <1>9, Where
  <2>2. Input(s).product \in Products /\ Settled(Input(s).product)
    BY <1>3, <1>9, <2>1
  <2>3. PICK did : /\ Does(s, "reread_product", did)
                   /\ did \/ ~Stored(Input(s).product)
    BY <1>9, Becoming
  <2>4. /\ calls'[s].request = calls[s].request
        /\ calls'[s].pc = "reread_product"
        /\ calls'[s].did = did
    BY <2>3, DoesFields
  <2>5. Input(s)' = Input(s)
    BY <2>4 DEF Input, Asked
  <2>6. Settled(Input(s).product)'
    BY <2>2, <2>5, SettledStays DEF Settled
  <2>7. calls'[s].did \/ ~Stored(Input(s).product)'
    BY <1>1, <2>2, <2>3, <2>4, <2>5 DEF Stored
  <2> QED
    BY <1>9, <2>4, <2>6, <2>7, Zenon DEF Editing, At
<1>10. CASE t = s /\ (GetOrderToUpdate(s) \/ SetStatus(s) \/ RereadOrder(s))
  <2>1. \/ Errs(s)
        \/ \E pc \in {"set_status", "reread_items"} : Moves(s, pc)
        \/ \E pc \in {"reread_order"} : \E did : Does(s, pc, did)
    BY <1>10, Becoming
  <2>2. Errs(s) => calls'[s].pc = "done"
    BY DEF Errs, Ends, Becomes
  <2>3. calls'[s].pc \in {"done", "set_status", "reread_items", "reread_order"}
    BY <2>1, <2>2, MovesFields, DoesFields
  <2>4. calls'[s].pc \notin {"update_product", "reread_product"}
    BY <2>3
  <2> QED
    BY <1>4, <1>10, <2>4
<1> QED
  BY <1>4, <1>6, <1>7, <1>8, <1>9, <1>10, Reaches

\* An order that is stored was placed; a product that is stored will not be
\* created again.
LEMMA RowsStep ==
    ASSUME Kept, Truthful, NEW s \in Slots, SlotStep(s)
    PROVE  /\ \A k \in Keys : orders'[k] # None => Placed(k)'
           /\ \A p \in Products : Stored(p)' => Settled(p)'
<1>0. /\ \A k \in Keys : orders[k] # None => Placed(k)
      /\ \A p \in Products : Stored(p) => Settled(p)
  BY DEF Truthful
<1>1. ASSUME NEW k \in Keys, orders'[k] # None
      PROVE  Placed(k)'
  <2>1. CASE orders[k] # None
    BY <1>0, <2>1, PlacedStays
  <2>2. CASE orders[k] = None
    <3>1. k = s /\ InsertOrder(s)
      BY <1>1, <2>2, OrdersGrow
    <3>2. Moves(s, "create_payment")
      BY <3>1, Becoming
    <3>3. /\ calls'[s].request = calls[s].request
          /\ calls'[s].pc = "create_payment"
      BY <3>2, MovesFields
    <3>4. calls[s].pc = "insert_order"
      BY <3>1, Where
    <3>5. Asked(s).route = "CreateOrder"
      BY <3>4, Past DEF OnRoute
    <3> QED
      BY <3>1, <3>3, <3>5 DEF Placed, Asked
  <2> QED
    BY <2>1, <2>2
<1>2. ASSUME NEW p \in Products, Stored(p)'
      PROVE  Settled(p)'
  <2>1. CASE Stored(p)
    BY <1>0, <2>1, SettledStays
  <2>2. CASE ~Stored(p)
    <3>1. InsertProduct(s) /\ p = Input(s).product
      BY <1>2, <2>2, ProductsGrow
    <3>2. calls[s].pc = "insert_product"
      BY <3>1, Where
    <3>3. /\ Asked(s).route = "CreateProduct" /\ ~At(s, "idle")
          /\ Asked(s) \in scenario.requests[s] /\ scenario \in Scenarios
      BY <3>2, Past DEF OnRoute, Kept, Ongoing, Asked
    <3>4. Does(s, "reply", TRUE)
      BY <3>1, Becoming
    <3>5. calls'[s].pc = "reply"
      BY <3>4, DoesFields
    <3>6. scenario' = scenario
      BY SlotKeeps DEF Keeps
    <3>7. SUFFICES ASSUME NEW t \in Slots, NEW q \in Creates(t, p)
                   PROVE  ~Creating(t, q)'
      BY <3>6 DEF Settled, Creates
    <3>8. CASE t = s
      BY <3>5, <3>8 DEF Creating, At
    <3>9. CASE t # s
      <4>1. /\ q \in scenario.requests[t]
            /\ q.route = "CreateProduct" /\ q.input.product = Input(s).product
        BY <3>1 DEF Creates
      <4>2. \A u \in Slots \ {s} : \A r \in scenario.requests[u] :
              r.route = "CreateProduct"
              => r.input.product # Asked(s).input.product
        BY <3>3, ScenariosAssumption
      <4> QED
        BY <3>9, <4>1, <4>2 DEF Input
    <3> QED
      BY <3>8, <3>9
  <2> QED
    BY <2>1, <2>2
<1> QED
  BY <1>1, <1>2

LEMMA TruthfulInit == Init /\ Kept => Truthful
<1> SUFFICES ASSUME Init, Kept PROVE Truthful
  OBVIOUS
<1>1. \A s \in Slots : calls[s].pc = "idle" /\ calls[s].status = 0
  BY DEF Init, NoCall
<1>2. ASSUME NEW s \in Slots
      PROVE  Reporting(s) /\ Updating(s) /\ Editing(s)
  <2>1. Reporting(s)
    BY <1>1 DEF Reporting, At
  <2>2. Updating(s)
    BY <1>1 DEF Updating, At
  <2>3. Editing(s)
    BY <1>1 DEF Editing, At
  <2> QED
    BY <2>1, <2>2, <2>3
<1>3. ASSUME NEW k \in Keys, orders[k] # None
      PROVE  Placed(k)
  <2>1. k = Earlier
    BY <1>3 DEF Init
  <2> QED
    BY <2>1, EarlierAssumption DEF Placed
<1>4. ASSUME NEW p \in Products, Stored(p)
      PROVE  Settled(p)
  <2>1. products[p] # None /\ products = scenario.products /\ scenario \in Scenarios
    BY <1>4 DEF Stored, Init
  <2> QED
    BY <2>1, ScenariosAssumption DEF Settled, Creates
<1> QED
  BY <1>2, <1>3, <1>4 DEF Truthful

LEMMA TruthfulStep == Kept /\ Truthful /\ [Next]_vars => Truthful'
<1> SUFFICES ASSUME Kept, Truthful, [Next]_vars PROVE Truthful'
  OBVIOUS
<1>1. ASSUME NEW s \in Slots, SlotStep(s) PROVE Truthful'
  <2>1. ASSUME NEW t \in Slots PROVE Reporting(t)'
    <3>1. CASE t = s
      BY <1>1, <3>1, ReportingStep
    <3>2. CASE t # s
      <4>1. calls'[t] = calls[t]
        BY <1>1, <3>2, SlotKeeps DEF Keeps, Rest
      <4>2. Reporting(t)
        BY DEF Truthful
      <4> QED
        BY <4>1, <4>2, Zenon DEF Reporting, At, Asked
    <3> QED
      BY <3>1, <3>2
  <2>2. \A t \in Slots : Updating(t)' /\ Editing(t)'
    BY <1>1, UpdatingStep, EditingStep
  <2>3. /\ \A k \in Keys : orders'[k] # None => Placed(k)'
        /\ \A p \in Products : Stored(p)' => Settled(p)'
    BY <1>1, RowsStep
  <2> QED
    BY <2>1, <2>2, <2>3, Zenon DEF Truthful
<1>2. CASE Outside \/ UNCHANGED vars
  <2>1. UNCHANGED <<scenario, calls, orders, products>>
    BY <1>2, OutsideLeaves
  <2>2. /\ \A k : Placed(k) => Placed(k)'
        /\ \A p : Settled(p) => Settled(p)'
        /\ \A p : Stored(p)' <=> Stored(p)
    BY <2>1 DEF Placed, Settled, Creates, Creating, Stored, At, Asked
  <2>3. ASSUME NEW t \in Slots
        PROVE  Reporting(t)' /\ Updating(t)' /\ Editing(t)'
    <3>1. Reporting(t) /\ Updating(t) /\ Editing(t)
      BY DEF Truthful
    <3>2. Reporting(t)'
      BY <2>1, <3>1, Zenon DEF Reporting, At, Asked
    <3>3. Updating(t)'
      BY <2>1, <2>2, <3>1, Zenon DEF Updating, Placed, At, Asked, Input
    <3>4. Editing(t)'
      BY <2>1, <3>1, Zenon DEF Editing, Settled, Creates, Creating, Stored, At,
                               Asked, Input
    <3> QED
      BY <3>2, <3>3, <3>4
  <2>4. \A k \in Keys : orders'[k] # None => Placed(k)'
    BY <2>1, <2>2 DEF Truthful
  <2>5. \A p \in Products : Stored(p)' => Settled(p)'
    BY <2>2 DEF Truthful
  <2> QED
    BY <2>3, <2>4, <2>5 DEF Truthful
<1> QED
  BY <1>1, <1>2 DEF Next, Outside

\* SuccessMeansDone: a request that was told it created, updated or deleted
\* something did, whatever other requests wrote between its statements
\* (order/internal/db/repo.go UpdateStatus, catalog/internal/db/repo.go Update).
THEOREM SuccessMeansDoneAlways == Spec => []SuccessMeansDone
<1>1. Init => Kept /\ Truthful
  BY KeptInit, TruthfulInit
<1>2. (Kept /\ Truthful) /\ [Next]_vars => (Kept /\ Truthful)'
  BY KeptStep, TruthfulStep
<1>3. Truthful => SuccessMeansDone
  BY DEF Truthful, Reporting, Reported, SuccessMeansDone
<1> QED
  BY <1>1, <1>2, <1>3, PTL DEF Spec

(***************************************************************************)
(* The arithmetic.  Sums and the printing of amounts are recursive         *)
(* functions; what holds of all their arguments is shown of a least one of *)
(* those for which it would not hold.                                      *)
(***************************************************************************)
LEMMA SuccessorInduction ==
    ASSUME NEW A, 0 \in A, \A n \in Nat : n \in A => n + 1 \in A
    PROVE  \A n \in Nat : n \in A
<1> DEFINE T == {n \in Nat : n \notin A}
<1> SUFFICES ASSUME T # {} PROVE FALSE
  OBVIOUS
<1>1. PICK n \in T : \A m \in T : <<m, n>> \notin OpToRel(<, Nat)
  <2>1. T \subseteq Nat
    OBVIOUS
  <2> HIDE DEF T
  <2> QED
    BY <2>1, NatLessThanWellFounded, WFMin
<1>2. \A m \in T : ~(m < n)
  BY <1>1 DEF OpToRel
<1>3. n # 0 /\ n - 1 \in Nat
  OBVIOUS
<1>4. n - 1 \notin T
  BY <1>2, <1>3
<1> QED
  BY <1>3, <1>4

LEMMA WrapType == \A n \in Int : Wrap(n) \in Amount
BY HalfAssumption DEF Wrap, Amount

LEMMA WrapFits == \A n \in Amount : Wrap(n) = n
BY HalfAssumption DEF Wrap, Amount

LEMMA WrapHalf == Wrap(Half) = -Half
BY HalfAssumption DEF Wrap

LEMMA MaxIsMember ==
    ASSUME NEW n \in Nat, NEW s \in SUBSET (1..n), s # {}
    PROVE  Max(s) \in s /\ \A x \in s : x <= Max(s)
<1> DEFINE A == {k \in Nat : \A t \in SUBSET (1..k) :
                   t # {} => \E x \in t : \A y \in t : x >= y}
<1>1. 0 \in A
  <2>1. 1..0 = {}
    OBVIOUS
  <2> QED
    BY <2>1
<1>2. ASSUME NEW k \in Nat, k \in A PROVE k + 1 \in A
  <2> SUFFICES ASSUME NEW t \in SUBSET (1..(k + 1)), t # {}
               PROVE  \E x \in t : \A y \in t : x >= y
    OBVIOUS
  <2>1. CASE k + 1 \in t
    BY <2>1
  <2>2. CASE k + 1 \notin t
    <3>1. t \in SUBSET (1..k)
      BY <2>2
    <3> QED
      BY <1>2, <3>1
  <2> QED
    BY <2>1, <2>2
<1>3. n \in A
  <2> HIDE DEF A
  <2> QED
    BY <1>1, <1>2, SuccessorInduction
<1>4. \E x \in s : \A y \in s : x >= y
  BY <1>3
<1>5. Max(s) \in s /\ \A y \in s : Max(s) >= y
  BY <1>4 DEF Max
<1> QED
  BY <1>5

LEMMA MaxOfInterval == \A n \in Nat \ {0} : Max(1..n) = n
<1> TAKE n \in Nat \ {0}
<1> DEFINE s == 1..n
<1>1. n \in s /\ s \in SUBSET (1..n) /\ s # {}
  OBVIOUS
<1>2. Max(s) \in s /\ n <= Max(s)
  <2> HIDE DEF s
  <2> QED
    BY <1>1, MaxIsMember
<1> QED
  BY <1>2

\* At a set of places, it is what op makes of the numbers that q has there.
Folded(it, n, q, op) ==
    /\ it \in [SUBSET (1..n) -> Int]
    /\ \A s \in SUBSET (1..n) :
          it[s] = IF s = {} THEN 0 ELSE op[it[s \ {Max(s)}]][q[Max(s)]]

\* Each set is given what step makes of its predecessor.
Stepping(chosen, step, n) ==
    \A s \in SUBSET (1..n) : chosen[s] = IF s = {} THEN 0 ELSE step[s]

\* A fold from the left exists: it can be extended from the subsets of 1..k to
\* those of 1..k+1.
LEMMA FoldExists ==
    ASSUME NEW n \in Nat, NEW q, \A i \in 1..n : q[i] \in Int,
           NEW op \in [Int -> [Int -> Int]]
    PROVE  \E it : Folded(it, n, q, op)
<1> DEFINE Sets(k) == SUBSET (1..k)
<1> DEFINE Step(it, s) == IF s = {} THEN 0 ELSE op[it[s \ {Max(s)}]][q[Max(s)]]
<1> DEFINE Folds(it, k) == /\ it \in [Sets(k) -> Int]
                           /\ \A s \in Sets(k) : it[s] = Step(it, s)
<1> DEFINE A == {k \in Nat : k <= n => \E it : Folds(it, k)}
<1>1. 0 \in A
  <2> DEFINE it == [s \in Sets(0) |-> 0]
  <2>1. \A s \in Sets(0) : s = {}
    <3>1. 1..0 = {}
      OBVIOUS
    <3> HIDE DEF it
    <3> QED
      BY <3>1
  <2> HIDE DEF Sets
  <2>2. it \in [Sets(0) -> Int]
    OBVIOUS
  <2>3. \A s \in Sets(0) : it[s] = Step(it, s)
    BY <2>1
  <2>4. Folds(it, 0)
    BY <2>2, <2>3
  <2> QED
    BY <2>4
<1>2. ASSUME NEW k \in Nat, k \in A PROVE k + 1 \in A
  <2> HIDE DEF Folds
  <2> SUFFICES ASSUME k + 1 <= n PROVE \E it : Folds(it, k + 1)
    OBVIOUS
  <2>1. PICK it : Folds(it, k)
    BY <1>2
  <2> USE DEF Folds
  <2> DEFINE new == [s \in Sets(k + 1) |-> Step(it, s)]
  <2>2. ASSUME NEW s \in Sets(k + 1)
        PROVE  Step(it, s) = Step(new, s) /\ Step(it, s) \in Int
    <3>1. CASE s # {}
      <4> DEFINE t == s \ {Max(s)}
      <4> DEFINE m == Max(s)
      <4>0. k + 1 \in Nat /\ s \in SUBSET (1..(k + 1))
        OBVIOUS
      <4>1. m \in s /\ \A x \in s : x <= m
        <5> HIDE DEF new, Step
        <5> QED
          BY <3>1, <4>0, MaxIsMember
      <4> HIDE DEF m, new, Step
      <4>2. q[m] \in Int
        BY <4>0, <4>1
      <4>3. t \in Sets(k) /\ t \in Sets(k + 1)
        <5>1. t = s \ {m}
          BY DEF m
        <5> HIDE DEF t
        <5> QED
          BY <4>0, <4>1, <5>1
      <4> USE DEF new, Step, m
      <4>4. it[t] = Step(it, t) /\ it[t] \in Int
        BY <2>1, <4>3
      <4>5. new[t] = Step(it, t)
        BY <4>3
      <4> HIDE DEF new, Sets, t
      <4>6. Step(it, s) = op[it[t]][q[Max(s)]] /\ Step(new, s) = op[new[t]][q[Max(s)]]
        BY <3>1 DEF t
      <4> HIDE DEF Step
      <4> QED
        BY <4>2, <4>4, <4>5, <4>6
    <3>2. CASE s = {}
      BY <3>2
    <3> QED
      BY <3>1, <3>2
  <2>3. new \in [Sets(k + 1) -> Int]
    <3> HIDE DEF Step, Sets
    <3> QED
      BY <2>2
  <2>4. \A s \in Sets(k + 1) : new[s] = Step(it, s)
    OBVIOUS
  <2> HIDE DEF new, Step, Sets
  <2>5. Folds(new, k + 1)
    BY <2>2, <2>3, <2>4
  <2> QED
    BY <2>5
<1>3. n \in A
  <2> HIDE DEF A
  <2> QED
    BY <1>1, <1>2, SuccessorInduction
<1>4. PICK it : Folds(it, n)
  <2> HIDE DEF Folds
  <2> QED
    BY <1>3
<1> QED
  BY <1>4 DEF Folded

\* A fold's values on the intervals from 1 run through the sequence.
LEMMA IntervalRuns ==
    ASSUME NEW n \in Nat, NEW chosen, NEW step, Stepping(chosen, step, n)
    PROVE  /\ chosen[1..0] = 0
           /\ \A k \in 1..n : /\ chosen[1..k] = step[1..k]
                             /\ Max(1..k) = k
                             /\ (1..k) \ {Max(1..k)} = 1..(k - 1)
<1> USE DEF Stepping
<1>1. chosen[1..0] = 0
  <2>1. 1..0 = {}
    OBVIOUS
  <2> QED
    BY <2>1
<1>2. ASSUME NEW k \in 1..n
      PROVE  /\ chosen[1..k] = step[1..k]
             /\ Max(1..k) = k
             /\ (1..k) \ {Max(1..k)} = 1..(k - 1)
  <2> DEFINE t == 1..k
  <2>1. t \in SUBSET (1..n) /\ k \in t
    OBVIOUS
  <2>2. Max(1..k) = k
    <3>1. k \in Nat \ {0}
      OBVIOUS
    <3> QED
      BY <3>1, MaxOfInterval
  <2>3. (1..k) \ {k} = 1..(k - 1)
    OBVIOUS
  <2>4. chosen[t] = step[t]
    <3> HIDE DEF t
    <3> QED
      BY <2>1
  <2> QED
    BY <2>2, <2>3, <2>4
<1> QED
  BY <1>1, <1>2

\* One more group of digits.
Shifted(n, group) == 1000 * n + group

LEMMA ValueRuns ==
    ASSUME NEW g \in Seq(Int)
    PROVE  \E r \in [0..Len(g) -> Int] :
             /\ r[0] = 0
             /\ \A k \in 1..Len(g) : r[k] = Shifted(r[k - 1], g[k])
             /\ Value(g) = r[Len(g)]
<1> DEFINE n == Len(g)
<1> DEFINE op == [a \in Int |-> [b \in Int |-> Shifted(a, b)]]
<1> DEFINE Eq(it) == it = [s \in SUBSET (DOMAIN g) |->
                       IF s = {} THEN 0 ELSE Shifted(it[s \ {Max(s)}], g[Max(s)])]
<1>1. n \in Nat /\ DOMAIN g = 1..n /\ \A i \in 1..n : g[i] \in Int
  OBVIOUS
<1>2. op \in [Int -> [Int -> Int]] /\ \A a, b \in Int : op[a][b] = Shifted(a, b)
  BY DEF Shifted
<1> HIDE DEF op, n
<1>3. PICK it \in [SUBSET (1..n) -> Int] : \A s \in SUBSET (1..n) :
        it[s] = IF s = {} THEN 0 ELSE op[it[s \ {Max(s)}]][g[Max(s)]]
  <2> HIDE DEF Eq
  <2>1. \E it : Folded(it, n, g, op)
    BY <1>1, <1>2, FoldExists
  <2> QED
    BY <2>1 DEF Folded
<1>4. Eq(it)
  <2>1. ASSUME NEW s \in SUBSET (1..n)
        PROVE  it[s] = IF s = {} THEN 0 ELSE Shifted(it[s \ {Max(s)}], g[Max(s)])
    <3>1. CASE s = {}
      BY <1>3, <3>1
    <3>2. CASE s # {}
      <4> DEFINE m == Max(s)
      <4> DEFINE t == s \ {m}
      <4>1. m \in 1..n
        BY <1>1, <3>2, MaxIsMember
      <4>2. t \in SUBSET (1..n)
        OBVIOUS
      <4>3. it[s] = op[it[t]][g[m]]
        BY <1>3, <3>2
      <4> HIDE DEF m, t
      <4>4. g[m] \in Int /\ it[t] \in Int
        BY <1>1, <4>1, <4>2
      <4>5. it[s] = Shifted(it[t], g[m])
        <5>1. op[it[t]][g[m]] = Shifted(it[t], g[m])
          BY <1>2, <4>4, Zenon
        <5> QED
          BY <4>3, <5>1
      <4> QED
        BY <3>2, <4>5 DEF m, t
    <3> QED
      BY <3>1, <3>2
  <2> QED
    BY <1>1, <2>1
<1> DEFINE chosen == CHOOSE f : Eq(f)
<1>5. Eq(chosen)
  <2> HIDE DEF Eq
  <2> QED
    BY <1>4
<1>6. Value(g) = chosen[DOMAIN g]
  BY DEF Value, Shifted, FoldLeft, MapThenFoldSet
<1> HIDE DEF chosen
<1> DEFINE step == [s \in SUBSET (1..n) |-> Shifted(chosen[s \ {Max(s)}], g[Max(s)])]
<1>7. Stepping(chosen, step, n)
  <2> SUFFICES ASSUME NEW s \in SUBSET (1..n)
               PROVE  chosen[s] = IF s = {} THEN 0 ELSE step[s]
    BY DEF Stepping
  <2>1. step[s] = Shifted(chosen[s \ {Max(s)}], g[Max(s)])
    OBVIOUS
  <2>2. chosen[s] = IF s = {} THEN 0 ELSE Shifted(chosen[s \ {Max(s)}], g[Max(s)])
    <3>1. s \in SUBSET (DOMAIN g)
      BY <1>1
    <3> QED
      BY <1>5, <3>1, Zenon
  <2> QED
    BY <2>1, <2>2
<1>8. /\ chosen[1..0] = 0
      /\ \A k \in 1..n : /\ chosen[1..k] = step[1..k]
                        /\ Max(1..k) = k
                        /\ (1..k) \ {Max(1..k)} = 1..(k - 1)
  <2> HIDE DEF step, Eq
  <2> QED
    BY <1>1, <1>7, IntervalRuns
<1> DEFINE r == [k \in 0..n |-> chosen[1..k]]
<1>9. r[0] = 0 /\ \A k \in 1..n : r[k] = Shifted(r[k - 1], g[k])
  <2> HIDE DEF Eq
  <2>1. r[0] = 0
    BY <1>1, <1>8
  <2>2. ASSUME NEW k \in 1..n PROVE r[k] = Shifted(r[k - 1], g[k])
    <3>1. k \in 0..n /\ k - 1 \in 0..n /\ 1..k \in SUBSET (1..n)
      BY <1>1
    <3>2. step[1..k] = Shifted(chosen[(1..k) \ {Max(1..k)}], g[Max(1..k)])
      BY <3>1
    <3> HIDE DEF step
    <3>3. chosen[1..k] = Shifted(chosen[1..(k - 1)], g[k])
      <4>1. /\ chosen[1..k] = step[1..k]
            /\ Max(1..k) = k
            /\ (1..k) \ {Max(1..k)} = 1..(k - 1)
        BY <1>8
      <4> QED
        BY <3>2, <4>1, Zenon
    <3> QED
      BY <3>1, <3>3
  <2> QED
    BY <2>1, <2>2
<1> HIDE DEF r, Eq, step
<1> DEFINE A == {k \in Nat : k <= n => r[k] \in Int}
<1>10. \A k \in Nat : k \in A
  <2>1. 0 \in A
    BY <1>9
  <2>2. ASSUME NEW k \in Nat, k \in A PROVE k + 1 \in A
    <3> SUFFICES ASSUME k + 1 <= n PROVE r[k + 1] \in Int
      OBVIOUS
    <3>1. r[k] \in Int /\ g[k + 1] \in Int /\ k + 1 \in 1..n /\ (k + 1) - 1 = k
      BY <1>1, <2>2
    <3>2. r[k + 1] = Shifted(r[k], g[k + 1])
      BY <1>9, <3>1
    <3> QED
      BY <3>1, <3>2 DEF Shifted
  <2> HIDE DEF A
  <2> QED
    BY <2>1, <2>2, SuccessorInduction
<1>11. r \in [0..n -> Int]
  <2>1. \A k \in 0..n : r[k] \in Int
    BY <1>1, <1>10
  <2> QED
    BY <2>1 DEF r
<1>12. Value(g) = r[n]
  BY <1>1, <1>6 DEF r
<1> QED
  BY <1>9, <1>11, <1>12 DEF n

\* One more amount.
Summed(sum, amount) == Wrap(sum + amount)

LEMMA AddUpRuns ==
    ASSUME NEW q \in Seq(Int)
    PROVE  \E r \in [0..Len(q) -> Int] :
             /\ r[0] = 0
             /\ \A k \in 1..Len(q) : r[k] = Summed(r[k - 1], q[k])
             /\ AddUp(q) = r[Len(q)]
<1> DEFINE n == Len(q)
<1> DEFINE op == [a \in Int |-> [b \in Int |-> Summed(a, b)]]
<1> DEFINE Eq(it) == it = [s \in SUBSET (DOMAIN q) |->
                       IF s = {} THEN 0 ELSE Summed(it[s \ {Max(s)}], q[Max(s)])]
<1>1. n \in Nat /\ DOMAIN q = 1..n /\ \A i \in 1..n : q[i] \in Int
  OBVIOUS
<1>2. op \in [Int -> [Int -> Int]] /\ \A a, b \in Int : op[a][b] = Summed(a, b)
  BY WrapType DEF Summed, Amount
<1> HIDE DEF op, n
<1>3. PICK it \in [SUBSET (1..n) -> Int] : \A s \in SUBSET (1..n) :
        it[s] = IF s = {} THEN 0 ELSE op[it[s \ {Max(s)}]][q[Max(s)]]
  <2> HIDE DEF Eq
  <2>1. \E it : Folded(it, n, q, op)
    BY <1>1, <1>2, FoldExists
  <2> QED
    BY <2>1 DEF Folded
<1>4. Eq(it)
  <2>1. ASSUME NEW s \in SUBSET (1..n)
        PROVE  it[s] = IF s = {} THEN 0 ELSE Summed(it[s \ {Max(s)}], q[Max(s)])
    <3>1. CASE s = {}
      BY <1>3, <3>1
    <3>2. CASE s # {}
      <4> DEFINE m == Max(s)
      <4> DEFINE t == s \ {m}
      <4>1. m \in 1..n
        BY <1>1, <3>2, MaxIsMember
      <4>2. t \in SUBSET (1..n)
        OBVIOUS
      <4>3. it[s] = op[it[t]][q[m]]
        BY <1>3, <3>2
      <4> HIDE DEF m, t
      <4>4. q[m] \in Int /\ it[t] \in Int
        BY <1>1, <4>1, <4>2
      <4>5. it[s] = Summed(it[t], q[m])
        <5>1. op[it[t]][q[m]] = Summed(it[t], q[m])
          BY <1>2, <4>4, Zenon
        <5> QED
          BY <4>3, <5>1
      <4> QED
        BY <3>2, <4>5 DEF m, t
    <3> QED
      BY <3>1, <3>2
  <2> QED
    BY <1>1, <2>1
<1> DEFINE chosen == CHOOSE f : Eq(f)
<1>5. Eq(chosen)
  <2> HIDE DEF Eq
  <2> QED
    BY <1>4
<1>6. AddUp(q) = chosen[DOMAIN q]
  BY DEF AddUp, Summed, FoldLeft, MapThenFoldSet
<1> HIDE DEF chosen
<1> DEFINE step == [s \in SUBSET (1..n) |-> Summed(chosen[s \ {Max(s)}], q[Max(s)])]
<1>7. Stepping(chosen, step, n)
  <2> SUFFICES ASSUME NEW s \in SUBSET (1..n)
               PROVE  chosen[s] = IF s = {} THEN 0 ELSE step[s]
    BY DEF Stepping
  <2>1. step[s] = Summed(chosen[s \ {Max(s)}], q[Max(s)])
    OBVIOUS
  <2>2. chosen[s] = IF s = {} THEN 0 ELSE Summed(chosen[s \ {Max(s)}], q[Max(s)])
    <3>1. s \in SUBSET (DOMAIN q)
      BY <1>1
    <3> QED
      BY <1>5, <3>1, Zenon
  <2> QED
    BY <2>1, <2>2
<1>8. /\ chosen[1..0] = 0
      /\ \A k \in 1..n : /\ chosen[1..k] = step[1..k]
                        /\ Max(1..k) = k
                        /\ (1..k) \ {Max(1..k)} = 1..(k - 1)
  <2> HIDE DEF step, Eq
  <2> QED
    BY <1>1, <1>7, IntervalRuns
<1> DEFINE r == [k \in 0..n |-> chosen[1..k]]
<1>9. r[0] = 0 /\ \A k \in 1..n : r[k] = Summed(r[k - 1], q[k])
  <2> HIDE DEF Eq
  <2>1. r[0] = 0
    BY <1>1, <1>8
  <2>2. ASSUME NEW k \in 1..n PROVE r[k] = Summed(r[k - 1], q[k])
    <3>1. k \in 0..n /\ k - 1 \in 0..n /\ 1..k \in SUBSET (1..n)
      BY <1>1
    <3>2. step[1..k] = Summed(chosen[(1..k) \ {Max(1..k)}], q[Max(1..k)])
      BY <3>1
    <3> HIDE DEF step
    <3>3. chosen[1..k] = Summed(chosen[1..(k - 1)], q[k])
      <4>1. /\ chosen[1..k] = step[1..k]
            /\ Max(1..k) = k
            /\ (1..k) \ {Max(1..k)} = 1..(k - 1)
        BY <1>8
      <4> QED
        BY <3>2, <4>1, Zenon
    <3> QED
      BY <3>1, <3>3
  <2> QED
    BY <2>1, <2>2
<1> HIDE DEF r, Eq, step
<1> DEFINE A == {k \in Nat : k <= n => r[k] \in Int}
<1>10. \A k \in Nat : k \in A
  <2>1. 0 \in A
    BY <1>9
  <2>2. ASSUME NEW k \in Nat, k \in A PROVE k + 1 \in A
    <3> SUFFICES ASSUME k + 1 <= n PROVE r[k + 1] \in Int
      OBVIOUS
    <3>1. r[k] \in Int /\ q[k + 1] \in Int /\ k + 1 \in 1..n /\ (k + 1) - 1 = k
      BY <1>1, <2>2
    <3>2. r[k + 1] = Summed(r[k], q[k + 1])
      BY <1>9, <3>1
    <3>3. r[k] + q[k + 1] \in Int
      BY <3>1
    <3> QED
      BY <3>2, <3>3, WrapType DEF Summed, Amount
  <2> HIDE DEF A
  <2> QED
    BY <2>1, <2>2, SuccessorInduction
<1>11. r \in [0..n -> Int]
  <2>1. \A k \in 0..n : r[k] \in Int
    BY <1>1, <1>10
  <2> QED
    BY <2>1 DEF r
<1>12. AddUp(q) = r[n]
  BY <1>1, <1>6 DEF r
<1> QED
  BY <1>9, <1>11, <1>12 DEF n

LEMMA ValueAppend ==
    ASSUME NEW g \in Seq(Int), NEW x \in Int
    PROVE  Value(Append(g, x)) = 1000 * Value(g) + x /\ Value(g) \in Int
<1> DEFINE n == Len(g)
<1> DEFINE h == Append(g, x)
<1>1. /\ n \in Nat /\ h \in Seq(Int) /\ Len(h) = n + 1
      /\ h[n + 1] = x /\ \A k \in 1..n : h[k] = g[k]
  OBVIOUS
<1> HIDE DEF h
<1>2. PICK r \in [0..n -> Int] :
        /\ r[0] = 0 /\ Value(g) = r[n]
        /\ \A k \in 1..n : r[k] = Shifted(r[k - 1], g[k])
  BY ValueRuns
<1> HIDE DEF n
<1>3. PICK t \in [0..(n + 1) -> Int] :
        /\ t[0] = 0 /\ Value(h) = t[n + 1]
        /\ \A k \in 1..(n + 1) : t[k] = Shifted(t[k - 1], h[k])
  <2>1. \E t \in [0..Len(h) -> Int] :
          /\ t[0] = 0
          /\ \A k \in 1..Len(h) : t[k] = Shifted(t[k - 1], h[k])
          /\ Value(h) = t[Len(h)]
    BY <1>1, ValueRuns
  <2> QED
    BY <1>1, <2>1
<1> DEFINE A == {k \in Nat : k <= n => t[k] = r[k]}
<1>4. 0 \in A
  BY <1>2, <1>3
<1>5. ASSUME NEW k \in Nat, k \in A PROVE k + 1 \in A
  <2> SUFFICES ASSUME k + 1 <= n PROVE t[k + 1] = r[k + 1]
    OBVIOUS
  <2>1. k + 1 \in 1..n /\ k + 1 \in 1..(n + 1) /\ (k + 1) - 1 = k /\ t[k] = r[k]
    BY <1>1, <1>5
  <2>2. t[k + 1] = Shifted(t[k], h[k + 1]) /\ r[k + 1] = Shifted(r[k], g[k + 1])
    BY <1>2, <1>3, <2>1
  <2> QED
    BY <1>1, <2>1, <2>2
<1>6. n \in A
  <2> HIDE DEF A
  <2> QED
    BY <1>1, <1>4, <1>5, SuccessorInduction
<1>7. t[n] = r[n] /\ r[n] \in Int
  BY <1>1, <1>2, <1>6
<1>8. t[n + 1] = Shifted(t[n], h[n + 1])
  <2>1. n + 1 \in 1..(n + 1) /\ (n + 1) - 1 = n
    BY <1>1
  <2> QED
    BY <1>3, <2>1
<1> QED
  BY <1>1, <1>2, <1>3, <1>7, <1>8 DEF Shifted, h

LEMMA ValueOne == \A x \in Int : Value(<<x>>) = x
<1> TAKE x \in Int
<1>1. <<x>> \in Seq(Int) /\ Len(<<x>>) = 1 /\ <<x>>[1] = x
  OBVIOUS
<1> DEFINE g == <<x>>
<1> HIDE DEF g
<1>2. PICK r \in [0..1 -> Int] :
        /\ r[0] = 0 /\ Value(g) = r[1]
        /\ \A k \in 1..1 : r[k] = Shifted(r[k - 1], g[k])
  BY <1>1, ValueRuns DEF g
<1>3. r[1] = Shifted(r[0], g[1])
  <2>1. 1 \in 1..1 /\ 1 - 1 = 0
    OBVIOUS
  <2> QED
    BY <1>2, <2>1
<1> QED
  BY <1>1, <1>2, <1>3 DEF Shifted, g

\* What a sum comes to is an amount, whatever is added up.
LEMMA AddUpType == \A q \in Seq(Int) : AddUp(q) \in Amount
<1> TAKE q \in Seq(Int)
<1> DEFINE n == Len(q)
<1>1. n \in Nat
  OBVIOUS
<1>2. PICK r \in [0..n -> Int] :
        /\ r[0] = 0 /\ AddUp(q) = r[n]
        /\ \A k \in 1..n : r[k] = Summed(r[k - 1], q[k])
  BY AddUpRuns
<1>3. CASE n = 0
  BY <1>2, <1>3, HalfAssumption DEF Amount
<1>4. CASE n # 0
  <2>1. n \in 1..n /\ n - 1 \in 0..n /\ q[n] \in Int
    BY <1>1, <1>4
  <2>2. r[n] = Summed(r[n - 1], q[n]) /\ r[n - 1] \in Int
    BY <1>2, <2>1
  <2> HIDE DEF n
  <2> QED
    BY <1>2, <2>1, <2>2, WrapType DEF Summed
<1> QED
  BY <1>3, <1>4

-----------------------------------------------------------------------------
\* What Thousands makes of m, given what it makes of smaller numbers.
Groups(f, m) ==
    IF m < 1000 THEN <<m>> ELSE Append(f[m \div 1000], m % 1000)

Grouped(f, n) == f = [m \in 0..n |-> Groups(f, m)]

LEMMA GroupsExist == \A n \in Nat : \E f : Grouped(f, n)
<1> DEFINE A == {n \in Nat : \E f : Grouped(f, n)}
<1>1. 0 \in A
  <2> DEFINE f == [m \in 0..0 |-> <<m>>]
  <2>1. \A m \in 0..0 : f[m] = Groups(f, m)
    BY DEF Groups
  <2>2. f = [m \in 0..0 |-> f[m]]
    OBVIOUS
  <2> HIDE DEF f
  <2>3. Grouped(f, 0)
    BY <2>1, <2>2 DEF Grouped
  <2> QED
    BY <2>3
<1>2. ASSUME NEW n \in Nat, n \in A PROVE n + 1 \in A
  <2>1. PICK f : Grouped(f, n)
    BY <1>2
  <2> DEFINE new == [m \in 0..(n + 1) |-> Groups(f, m)]
  <2>2. \A m \in 0..n : f[m] = Groups(f, m)
    BY <2>1, Zenon DEF Grouped
  <2>3. \A m \in 0..n : new[m] = f[m]
    BY <2>2
  <2>4. ASSUME NEW m \in 0..(n + 1) PROVE Groups(f, m) = Groups(new, m)
    <3> HIDE DEF new
    <3>1. CASE m < 1000
      BY <3>1 DEF Groups
    <3>2. CASE ~(m < 1000)
      <4> DEFINE l == m \div 1000
      <4>1. l \in 0..n
        BY <3>2
      <4>2. new[l] = f[l]
        <5> HIDE DEF l
        <5> QED
          BY <2>3, <4>1
      <4> QED
        BY <3>2, <4>2 DEF Groups
    <3> QED
      BY <3>1, <3>2
  <2>5. new = [m \in 0..(n + 1) |-> Groups(new, m)]
    <3>1. new = [m \in 0..(n + 1) |-> Groups(f, m)]
      OBVIOUS
    <3> HIDE DEF new
    <3> QED
      BY <2>4, <3>1
  <2>6. Grouped(new, n + 1)
    <3> HIDE DEF new
    <3> QED
      BY <2>5 DEF Grouped
  <2> QED
    BY <2>6
<1> HIDE DEF A
<1>3. \A n \in Nat : n \in A
  BY <1>1, <1>2, SuccessorInduction
<1> QED
  BY <1>3 DEF A

\* The groups between the commas are read as the number that was printed.
LEMMA ThousandsRead ==
    ASSUME NEW n \in Nat
    PROVE  Value(Thousands(n)) = n
<1> DEFINE groups == CHOOSE f : Grouped(f, n)
<1>1. Thousands(n) = groups[n]
  BY DEF Thousands, Grouped, Groups
<1>2. Grouped(groups, n)
  BY GroupsExist
<1> HIDE DEF groups
<1>3. \A m \in 0..n : groups[m] = Groups(groups, m)
  BY <1>2, Zenon DEF Grouped
<1> DEFINE Good(m) == groups[m] \in Seq(Int) /\ Value(groups[m]) = m
<1> DEFINE A == {k \in Nat : \A m \in 0..k : m <= n => Good(m)}
<1>4. ASSUME NEW m \in 0..n, \A l \in 0..(m - 1) : Good(l)
      PROVE  Good(m)
  <2>1. CASE m < 1000
    <3>1. groups[m] = <<m>>
      <4>1. Groups(groups, m) = <<m>>
        BY <2>1 DEF Groups
      <4> QED
        BY <1>3, <4>1
    <3> QED
      BY <3>1, ValueOne
  <2>2. CASE ~(m < 1000)
    <3> DEFINE l == m \div 1000
    <3> DEFINE x == m % 1000
    <3>1. l \in 0..(m - 1) /\ x \in Int /\ m = 1000 * l + x
      BY <2>2
    <3>2. groups[m] = Append(groups[l], x)
      <4>1. Groups(groups, m) = Append(groups[l], x)
        BY <2>2 DEF Groups
      <4> QED
        BY <1>3, <4>1
    <3> HIDE DEF l, x
    <3>3. Good(l)
      BY <1>4, <3>1
    <3> QED
      BY <3>1, <3>2, <3>3, ValueAppend
  <2> QED
    BY <2>1, <2>2
<1> HIDE DEF Good
<1>5. 0 \in A
  BY <1>4
<1>6. ASSUME NEW k \in Nat, k \in A PROVE k + 1 \in A
  BY <1>4, <1>6
<1>7. n \in A
  <2> HIDE DEF A
  <2> QED
    BY <1>5, <1>6, SuccessorInduction
<1>8. Good(n)
  BY <1>7
<1> QED
  BY <1>1, <1>8 DEF Good

\* A printed amount is read as the amount, whatever the currency and however
\* large it is, the least integer with its second minus included
\* (notification/internal/nats/receipt.go formatAmount, addThousandsSeparator).
THEOREM AmountRead ==
    ASSUME NEW amount \in Amount, NEW currency
    PROVE  ReadAmount(FormatAmount(amount, currency)) = amount
<1> DEFINE size == IF amount < 0 THEN Wrap(-amount) ELSE amount
<1> DEFINE digits == IF size < 0 THEN -size ELSE size
<1> DEFINE whole == Upper[currency] \in ZeroDecimal
<1> DEFINE printed == FormatAmount(amount, currency)
<1>1. digits \in Nat /\ amount = IF amount < 0 THEN -digits ELSE digits
  <2>1. amount \in Int /\ -Half <= amount /\ amount < Half
    BY HalfAssumption DEF Amount
  <2>2. CASE amount < 0 /\ amount # -Half
    <3>1. -amount \in Amount
      BY <2>1, <2>2, HalfAssumption DEF Amount
    <3>2. Wrap(-amount) = -amount
      BY <3>1, WrapFits
    <3> QED
      BY <2>1, <2>2, <3>2
  <2>3. CASE amount = -Half
    <3>1. -amount = Half /\ amount < 0
      BY <2>1, <2>3, HalfAssumption
    <3>2. size = -Half
      BY <3>1, WrapHalf
    <3> QED
      BY <2>3, <3>1, <3>2, HalfAssumption
  <2>4. CASE amount >= 0
    BY <2>1, <2>4
  <2> QED
    BY <2>1, <2>2, <2>3, <2>4
<1>2. /\ printed.negative = (amount < 0)
      /\ printed.groups = Thousands(IF whole THEN digits ELSE digits \div 100)
      /\ printed.cents = IF whole THEN <<>> ELSE <<digits % 100>>
  BY DEF FormatAmount
<1> HIDE DEF size, digits, whole, printed
<1>3. CASE whole
  <2>1. Value(printed.groups) = digits
    BY <1>1, <1>2, <1>3, ThousandsRead
  <2> QED
    BY <1>1, <1>2, <1>3, <2>1 DEF ReadAmount, printed
<1>4. CASE ~whole
  <2>1. digits \div 100 \in Nat /\ digits = 100 * (digits \div 100) + (digits % 100)
    BY <1>1
  <2>2. Value(printed.groups) = digits \div 100
    BY <1>2, <1>4, <2>1, ThousandsRead
  <2>3. printed.cents # <<>> /\ printed.cents[1] = digits % 100
    BY <1>2, <1>4
  <2> QED
    BY <1>1, <1>2, <2>1, <2>2, <2>3 DEF ReadAmount, printed
<1> QED
  BY <1>3, <1>4

(***************************************************************************)
(* What the customer was promised, and what is charged, published, mailed. *)
(***************************************************************************)
\* Where each step takes its request.
LEMMA Lands ==
    ASSUME Kept, NEW s \in Slots
    PROVE  /\ Arrive(s) \/ TurnPage(s) => calls'[s].pc = "gateway"
           /\ Admit(s) => calls'[s].pc \in {First(Asked(s)), "done"}
           /\ Fail(s) \/ Reply(s) => calls'[s].pc = "done"
           /\ Elsewhere(s) \/ SetPaymentInfo(s) \/ ViewCart(s) \/ DeleteOrder(s)
              \/ NotifyStatusChanged(s) \/ InsertProduct(s) \/ DeleteProduct(s)
              \/ FindProducts(s) => calls'[s].pc = "reply"
           /\ ReadOrders(s) \/ ReadPayments(s) \/ DeletePayment(s)
              \/ RereadProduct(s) => calls'[s].pc \in {"reply", "done"}
           /\ UserEmail(s) => calls'[s].pc = "products"
           /\ GetProducts(s) => calls'[s].pc \in {"insert_order", "done"}
           /\ InsertOrder(s) => calls'[s].pc = "create_payment"
           /\ CreatePayment(s) => calls'[s].pc \in {"set_payment", "done"}
           /\ GetOrderToUpdate(s) => calls'[s].pc \in {"set_status", "done"}
           /\ SetStatus(s) => calls'[s].pc = "reread_order"
           /\ RereadOrder(s) => calls'[s].pc \in {"reread_items", "done"}
           /\ GetProduct(s) => calls'[s].pc \in {"reply", "update_product", "done"}
           /\ UpdateProduct(s) => calls'[s].pc = "reread_product"
           /\ StampProduct(s) => calls'[s].pc \in {"insert_product", "done"}
           /\ CountProducts(s) => calls'[s].pc = "find"
<1>1. /\ \A pc : Moves(s, pc) => calls'[s].pc = pc
      /\ \A pc, did : Does(s, pc, did) => calls'[s].pc = pc
      /\ \A shown : Shows(s, shown) => calls'[s].pc = "reply"
      /\ \A status : Ends(s, status) => calls'[s].pc = "done"
      /\ Errs(s) => calls'[s].pc = "done"
  BY BecomesFields DEF Moves, Does, Shows, Ends, Errs
<1>2. /\ Fail(s) \/ Reply(s) => calls'[s].pc = "done"
      /\ Elsewhere(s) \/ SetPaymentInfo(s) \/ ViewCart(s)
         \/ NotifyStatusChanged(s) \/ InsertProduct(s) \/ FindProducts(s)
         => calls'[s].pc = "reply"
      /\ DeleteOrder(s) \/ DeleteProduct(s) => calls'[s].pc = "reply"
  BY <1>1, Becoming
<1>3. /\ ReadOrders(s) \/ ReadPayments(s) => calls'[s].pc \in {"reply", "done"}
      /\ DeletePayment(s) \/ RereadProduct(s) => calls'[s].pc \in {"reply", "done"}
      /\ UserEmail(s) => calls'[s].pc = "products"
      /\ GetProducts(s) => calls'[s].pc \in {"insert_order", "done"}
      /\ InsertOrder(s) => calls'[s].pc = "create_payment"
  BY <1>1, Becoming
<1>4. /\ CreatePayment(s) => calls'[s].pc \in {"set_payment", "done"}
      /\ GetOrderToUpdate(s) => calls'[s].pc \in {"set_status", "done"}
      /\ SetStatus(s) => calls'[s].pc = "reread_order"
      /\ RereadOrder(s) => calls'[s].pc \in {"reread_items", "done"}
  BY <1>1, Becoming
<1>5. /\ GetProduct(s) => calls'[s].pc \in {"reply", "update_product", "done"}
      /\ UpdateProduct(s) => calls'[s].pc = "reread_product"
      /\ StampProduct(s) => calls'[s].pc \in {"insert_product", "done"}
      /\ CountProducts(s) => calls'[s].pc = "find"
  BY <1>1, Becoming
<1> QED
  BY <1>2, <1>3, <1>4, <1>5, AdmitKeeps, Landing

\* Most steps leave alone what the request has in its hand, and a failing one
\* always does.
LEMMA HandStays ==
    ASSUME Kept, NEW s \in Slots
    PROVE  /\ Error(s) => calls'[s].hand = calls[s].hand
           /\ Admit(s) \/ Expire(s) \/ Fail(s) \/ Reply(s) \/ Elsewhere(s)
              \/ InsertOrder(s) \/ CreatePayment(s) \/ SetPaymentInfo(s)
              \/ ReadOrders(s) \/ DeleteOrder(s) \/ GetOrderToUpdate(s)
              \/ SetStatus(s) \/ NotifyStatusChanged(s) \/ ReadPayments(s)
              \/ DeletePayment(s) \/ GetProduct(s) \/ UpdateProduct(s)
              \/ RereadProduct(s) \/ StampProduct(s) \/ InsertProduct(s)
              \/ DeleteProduct(s) \/ CountProducts(s)
              => calls'[s].hand = calls[s].hand
<1>0. Whole(calls[s]) /\ calls = [t \in Slots |-> calls[t]]
  BY DEF Kept, Tabled, Ongoing
<1>1. ASSUME NEW pc, NEW status, NEW did, NEW shown,
             calls' = [calls EXCEPT ![s].pc = pc, ![s].status = status,
                                    ![s].did = did, ![s].shown = shown]
      PROVE  calls'[s].hand = calls[s].hand
  BY <1>0, <1>1 DEF Whole
<1>2. /\ \A pc : Goto(s, pc) => calls'[s].hand = calls[s].hand
      /\ \A status : Answer(s, status) => calls'[s].hand = calls[s].hand
      /\ Error(s) => calls'[s].hand = calls[s].hand
  BY <1>0 DEF Whole, Goto, Answer, Error
<1>3. /\ \A pc, did : calls' = [calls EXCEPT ![s].pc = pc, ![s].did = did]
           => calls'[s].hand = calls[s].hand
      /\ \A pc, shown : calls' = [calls EXCEPT ![s].pc = pc, ![s].shown = shown]
           => calls'[s].hand = calls[s].hand
  BY <1>0 DEF Whole
<1>4. Admit(s) \/ Expire(s) \/ Fail(s) \/ Reply(s) \/ Elsewhere(s)
      => calls'[s].hand = calls[s].hand
  BY <1>2 DEF Admit, Expire, Fail, Reply, Elsewhere
<1>5. InsertOrder(s) \/ CreatePayment(s) \/ SetPaymentInfo(s) \/ ReadOrders(s)
      => calls'[s].hand = calls[s].hand
  BY <1>2, <1>3 DEF InsertOrder, CreatePayment, SetPaymentInfo, ReadOrders
<1>6. DeleteOrder(s) \/ GetOrderToUpdate(s) \/ SetStatus(s)
      \/ NotifyStatusChanged(s) => calls'[s].hand = calls[s].hand
  BY <1>2, <1>3 DEF DeleteOrder, GetOrderToUpdate, SetStatus, NotifyStatusChanged
<1>7. ReadPayments(s) \/ DeletePayment(s) \/ GetProduct(s) \/ UpdateProduct(s)
      => calls'[s].hand = calls[s].hand
  BY <1>2, <1>3 DEF ReadPayments, DeletePayment, GetProduct, UpdateProduct
<1>8. RereadProduct(s) \/ StampProduct(s) \/ InsertProduct(s)
      \/ DeleteProduct(s) \/ CountProducts(s) => calls'[s].hand = calls[s].hand
  BY <1>2, <1>3 DEF RereadProduct, StampProduct, InsertProduct, DeleteProduct,
                    CountProducts
<1> QED
  BY <1>2, <1>4, <1>5, <1>6, <1>7, <1>8

\* What was promised to the customer does not change once the order is placed.
LEMMA PromisedStays ==
    ASSUME Kept, NEW s \in Slots, SlotStep(s), NEW k \in Keys, Placed(k)
    PROVE  Promised(k)' = Promised(k)
<1>1. scenario' = scenario /\ \A t \in Slots \ {s} : calls'[t] = calls[t]
  BY SlotKeeps DEF Keeps, Rest
<1>2. CASE k = Earlier
  BY <1>1, <1>2 DEF Promised
<1>3. CASE k # Earlier /\ k # s
  BY <1>1, <1>3 DEF Promised, Keys
<1>4. CASE k = s /\ k # Earlier
  <2>1. /\ calls[s].pc \in {"create_payment", "set_payment", "reply", "done"}
        /\ Asked(s).route = "CreateOrder"
    BY <1>4 DEF Placed
  <2>2. SUFFICES calls'[s].hand = calls[s].hand
    BY <1>4 DEF Promised
  <2>3. CASE Admit(s) \/ Expire(s) \/ Fail(s) \/ Reply(s) \/ Elsewhere(s)
             \/ InsertOrder(s) \/ CreatePayment(s) \/ SetPaymentInfo(s)
             \/ ReadOrders(s) \/ DeleteOrder(s) \/ GetOrderToUpdate(s)
    BY <2>3, HandStays
  <2>4. CASE SetStatus(s) \/ NotifyStatusChanged(s) \/ ReadPayments(s)
             \/ DeletePayment(s) \/ GetProduct(s) \/ UpdateProduct(s)
             \/ RereadProduct(s) \/ StampProduct(s) \/ InsertProduct(s)
             \/ DeleteProduct(s) \/ CountProducts(s)
    BY <2>4, HandStays
  <2>5. CASE Arrive(s) \/ UserEmail(s) \/ GetProducts(s) \/ ViewCart(s)
             \/ RereadOrder(s) \/ FindProducts(s) \/ TurnPage(s)
    BY <2>1, <2>5, Where
  <2> QED
    BY <2>3, <2>4, <2>5 DEF SlotStep
<1> QED
  BY <1>2, <1>3, <1>4

-----------------------------------------------------------------------------
LEMMA LinesType ==
    ASSUME NEW lines \in Seq(OrderLine)
    PROVE  /\ [i \in DOMAIN lines |-> LineAmount(lines[i])] \in Seq(Int)
           /\ \A i \in DOMAIN lines : LineAmount(lines[i]) \in Amount
           /\ Total(lines) \in Amount
<1>1. ASSUME NEW i \in DOMAIN lines PROVE LineAmount(lines[i]) \in Amount
  <2>1. lines[i] \in OrderLine
    OBVIOUS
  <2>2. lines[i].price \in Int /\ lines[i].quantity \in Int
    BY <2>1, HalfAssumption DEF OrderLine, Amount
  <2>3. lines[i].price * lines[i].quantity \in Int
    BY <2>2
  <2> QED
    BY <2>3, WrapType DEF LineAmount
<1>2. Amount \subseteq Int
  BY HalfAssumption DEF Amount
<1>3. [i \in DOMAIN lines |-> LineAmount(lines[i])] \in Seq(Int)
  <2>1. DOMAIN lines = 1..Len(lines) /\ Len(lines) \in Nat
    OBVIOUS
  <2>2. \A i \in 1..Len(lines) : LineAmount(lines[i]) \in Int
    BY <1>1, <1>2, <2>1
  <2>3. [i \in 1..Len(lines) |-> LineAmount(lines[i])] \in Seq(Int)
    BY <2>1, <2>2
  <2> QED
    BY <2>1, <2>3
<1> QED
  BY <1>1, <1>3, AddUpType DEF Total

\* An order that is not refused is one that was priced.
LEMMA Resolved ==
    ASSUME NEW items \in Seq(CartItem), NEW rows, ~Refused(items, rows),
           \A p \in DOMAIN rows : Sellable(rows[p])
    PROVE  LET priced == ResolveItems(items, rows) IN
           /\ priced.lines \in Seq(OrderLine) /\ priced.lines # <<>>
           /\ \A i \in DOMAIN priced.lines :
                 priced.lines[i].price > 0 /\ priced.lines[i].quantity > 0
           /\ priced.total = Total(priced.lines)
           /\ priced.total \in Amount
           /\ priced.currency \in DOMAIN Upper
<1> DEFINE lines == OrderLines(items, rows)
<1>1. /\ items # <<>>
      /\ \A i \in DOMAIN items :
            items[i].product \in DOMAIN rows /\ ~(items[i].quantity < 1)
  BY DEF Refused
<1>2. /\ \A i \in DOMAIN items : items[i] \in CartItem
      /\ DOMAIN items = 1..Len(items) /\ Len(items) \in Nat
  OBVIOUS
<1>3. ASSUME NEW i \in DOMAIN items
      PROVE  /\ lines[i] \in OrderLine
             /\ lines[i].price > 0 /\ lines[i].quantity > 0
  <2>1. Sellable(rows[items[i].product])
    BY <1>1
  <2>2. items[i].product \in Products /\ items[i].quantity \in Int
    BY <1>2 DEF CartItem
  <2>3. lines[i] = [product |-> items[i].product, quantity |-> items[i].quantity,
                    price |-> rows[items[i].product].price]
    BY DEF OrderLines
  <2> QED
    BY <1>1, <2>1, <2>2, <2>3 DEF Sellable, CatalogRow, OrderLine
<1>4. DOMAIN lines = DOMAIN items
  BY DEF OrderLines
<1>5. lines \in Seq(OrderLine) /\ lines # <<>>
  <2>1. lines = [i \in 1..Len(items) |-> lines[i]]
    BY <1>2 DEF OrderLines
  <2>2. 1 \in DOMAIN items
    BY <1>1, <1>2
  <2> HIDE DEF lines
  <2> QED
    BY <1>2, <1>3, <1>4, <2>1, <2>2
<1>6. Upper[rows[Head(items).product].currency] \in DOMAIN Upper
  <2>1. 1 \in DOMAIN items /\ Head(items) = items[1]
    BY <1>1, <1>2
  <2>2. Sellable(rows[items[1].product])
    BY <1>1, <2>1
  <2>3. \A c \in DOMAIN Upper : Upper[c] \in DOMAIN Upper
    BY DEF Upper
  <2> QED
    BY <2>1, <2>2, <2>3 DEF Sellable, CatalogRow
<1>7. Total(lines) \in Amount
  BY <1>5, LinesType
<1> QED
  BY <1>3, <1>4, <1>5, <1>6, <1>7 DEF ResolveItems

-----------------------------------------------------------------------------
\* An order whose lines add up to its total.
Priced(order) == Ordered(order) /\ order.total = Total(order.items)

\* What a request is about to do is right.
Standing(s) ==
    /\ calls[s].status \in {0, 200, 201, 400, 401, 403, 500}
    /\ calls[s].pc \in {"insert_order", "create_payment", "set_payment"}
          => Priced(calls[s].hand)
    /\ At(s, "reread_items") =>
          Priced(calls[s].hand) /\ calls[s].hand.total = Promised(Input(s).order)
    /\ At(s, "set_status") => Input(s).status \in Statuses
    /\ calls[s].pc \in {"update_product", "insert_product"} => Complete(Input(s))

\* A payment of what was promised, which is more than nothing.
Owed(charge, k) ==
    /\ Placed(k)
    /\ DOMAIN charge = {"amount", "currency", "paid"}
    /\ charge.amount = Promised(k)
    /\ charge.amount \in Amount /\ charge.amount > 0

\* What is stored of an order, here and at Stripe, is what was promised.
Booked(k) ==
    /\ orders[k] # None => Priced(orders[k]) /\ orders[k].total = Promised(k)
    /\ charges[k] # None => Owed(charges[k], k)
    /\ sessions[k] # None => Owed(sessions[k], k)

\* And so is what the mails are written from.
Published(e) ==
    /\ e.order \in Keys /\ Placed(e.order)
    /\ e.kind = "paid" => e.amount = Promised(e.order) /\ e.amount \in Amount
    /\ e.kind = "status" =>
          /\ e.total = Promised(e.order) /\ e.total \in Amount
          /\ \E lines \in Seq(OrderLine) :
                /\ e.items = ReceiptItems(lines)
                /\ lines # <<>> => Total(lines) = Promised(e.order)

\* What MailsAddUp says of one mail.
AddsUp(m) ==
    LET text == m.text
        sum == AddUp([i \in DOMAIN text.lines |-> ReadAmount(text.lines[i])])
    IN /\ Len(text.lines) = m.items
       /\ text.lines # <<>> => sum = Promised(m.order)
       /\ text.total # <<>> => ReadAmount(text.total[1]) = Promised(m.order)
       /\ text.subtotal # <<>> =>
             ReadAmount(text.subtotal[1]) = Promised(m.order)

Sent(m) == m.order \in Keys /\ Placed(m.order) /\ AddsUp(m)

\* All that is made of a promise repeats it.
Accounted ==
    /\ expired \subseteq Slots
    /\ \A p \in Products : Stored(p) => Sellable(products[p])
    /\ \A s \in Slots : Standing(s)
    /\ \A k \in Keys : Booked(k)
    /\ \A e \in events : Published(e)
    /\ \A m \in mails : Sent(m)

-----------------------------------------------------------------------------
\* The lines of a mail, and what a reader adds them up to.
Printed(items, currency) ==
    [i \in DOMAIN items |-> FormatAmount(items[i].amount, currency)]

SumRead(printed) == AddUp([i \in DOMAIN printed |-> ReadAmount(printed[i])])

\* The lines of a mail, read again, add up to the lines of the order.
LEMMA LinesRead ==
    ASSUME NEW lines \in Seq(OrderLine), NEW currency, NEW printed,
           printed = Printed(ReceiptItems(lines), currency)
    PROVE  /\ Len(printed) = Len(lines)
           /\ printed # <<>> <=> lines # <<>>
           /\ SumRead(printed) = Total(lines)
<1>1. DOMAIN lines = 1..Len(lines) /\ Len(lines) \in Nat
  OBVIOUS
<1>2. /\ DOMAIN ReceiptItems(lines) = DOMAIN lines
      /\ \A i \in DOMAIN lines : ReceiptItems(lines)[i].amount = LineAmount(lines[i])
  BY DEF ReceiptItems
<1>3. /\ DOMAIN printed = DOMAIN lines
      /\ \A i \in DOMAIN lines :
            printed[i] = FormatAmount(LineAmount(lines[i]), currency)
  BY <1>2 DEF Printed
<1>4. \A i \in DOMAIN lines : ReadAmount(printed[i]) = LineAmount(lines[i])
  BY <1>3, LinesType, AmountRead
<1>5. [i \in DOMAIN printed |-> ReadAmount(printed[i])]
         = [i \in DOMAIN lines |-> LineAmount(lines[i])]
  BY <1>3, <1>4
<1>6. printed \in Seq({printed[i] : i \in DOMAIN lines}) /\ Len(printed) = Len(lines)
  <2>1. printed = [i \in 1..Len(lines) |-> printed[i]]
    BY <1>1, <1>2 DEF Printed
  <2> QED
    BY <1>1, <2>1
<1>7. printed # <<>> <=> lines # <<>>
  BY <1>6
<1> QED
  BY <1>5, <1>6, <1>7 DEF Total, SumRead

\* A receipt is built twice and reads as if it were built once.
LEMMA ReceiptReads ==
    ASSUME NEW lines \in Seq(OrderLine), NEW e, e.amount \in Amount,
           lines # <<>> => Total(lines) = e.amount
    PROVE  LET text == Receipt(e, ReceiptItems(lines)) IN
           /\ Len(text.lines) = Len(lines)
           /\ text.lines # <<>> => SumRead(text.lines) = e.amount
           /\ text.total # <<>> => ReadAmount(text.total[1]) = e.amount
           /\ text.subtotal # <<>> => ReadAmount(text.subtotal[1]) = e.amount
<1> DEFINE items == ReceiptItems(lines)
<1> DEFINE data == ReceiptData(e, items)
<1> DEFINE once == BuildReceiptData(data)
<1> DEFINE text == BuildReceiptData(once)
<1> DEFINE printed == Printed(items, e.currency)
<1> DEFINE sum == AddUp([i \in DOMAIN items |-> items[i].amount])
<1>0. Receipt(e, items) = text
  BY DEF Receipt
<1>1. /\ items # <<>> <=> lines # <<>>
      /\ sum = Total(lines)
  <2>1. DOMAIN lines = 1..Len(lines) /\ Len(lines) \in Nat
    OBVIOUS
  <2>2. /\ DOMAIN items = DOMAIN lines
        /\ \A i \in DOMAIN lines : items[i].amount = LineAmount(lines[i])
    BY DEF ReceiptItems
  <2>3. [i \in DOMAIN items |-> items[i].amount]
           = [i \in DOMAIN lines |-> LineAmount(lines[i])]
    BY <2>2
  <2>4. items # <<>> <=> lines # <<>>
    <3>1. items \in Seq({items[i] : i \in DOMAIN lines}) /\ Len(items) = Len(lines)
      <4>1. items = [i \in 1..Len(lines) |-> items[i]]
        BY <2>1, <2>2 DEF ReceiptItems
      <4> QED
        BY <2>1, <4>1
    <3> QED
      BY <3>1
  <2> QED
    BY <2>3, <2>4 DEF Total
<1> HIDE DEF items, sum
<1>2. /\ once.items = <<>> /\ once.amount = e.amount /\ once.currency = e.currency
      /\ items # <<>> => /\ once.lines = printed
                         /\ once.subtotal = <<FormatAmount(sum, e.currency)>>
      /\ items = <<>> => once.lines = <<>> /\ once.subtotal = <<>>
  <2>1. data = [amount |-> e.amount, currency |-> e.currency, items |-> items,
                lines |-> <<>>, subtotal |-> <<>>, total |-> <<>>]
    BY DEF ReceiptData
  <2>2. sum = AddUp([i \in DOMAIN data.items |-> data.items[i].amount])
    BY <2>1 DEF sum
  <2>3. printed = PrintedLines(data)
    BY <2>1 DEF PrintedLines, Printed
  <2> DEFINE built == [data EXCEPT !.items = <<>>,
                         !.total = <<FormatAmount(data.amount, data.currency)>>]
  <2>4. /\ built.items = <<>> /\ built.amount = e.amount
        /\ built.currency = e.currency
        /\ built.lines = <<>> /\ built.subtotal = <<>>
        /\ DOMAIN built = {"amount", "currency", "items", "lines", "subtotal", "total"}
    BY <2>1
  <2>5. once = IF items = <<>> THEN built
               ELSE [built EXCEPT !.lines = printed,
                       !.subtotal = <<FormatAmount(sum, e.currency)>>]
    <3>1. data.items = items /\ data.currency = e.currency
      BY <2>1
    <3> HIDE DEF data, sum, printed
    <3> QED
      BY <2>2, <2>3, <3>1 DEF BuildReceiptData
  <2> HIDE DEF data, once, built, printed
  <2> QED
    BY <2>4, <2>5
<1>3. /\ text.lines = once.lines /\ text.subtotal = once.subtotal
      /\ text.total = <<FormatAmount(e.amount, e.currency)>>
  <2>1. DOMAIN once = {"amount", "currency", "items", "lines", "subtotal", "total"}
    BY DEF BuildReceiptData, ReceiptData
  <2> HIDE DEF once
  <2> QED
    BY <1>2, <2>1 DEF BuildReceiptData
<1> HIDE DEF once, text
<1>4. ReadAmount(text.total[1]) = e.amount
  BY <1>3, AmountRead
<1>5. CASE lines = <<>>
  BY <1>0, <1>1, <1>2, <1>3, <1>4, <1>5 DEF items
<1>6. CASE lines # <<>>
  <2>1. text.lines = printed /\ text.subtotal = <<FormatAmount(sum, e.currency)>>
    BY <1>1, <1>2, <1>3, <1>6
  <2>2. /\ Len(printed) = Len(lines)
        /\ SumRead(printed) = Total(lines)
    BY LinesRead DEF items
  <2>3. ReadAmount(text.subtotal[1]) = sum
    BY <1>1, <1>6, <2>1, AmountRead
  <2> HIDE DEF printed
  <2> QED
    BY <1>0, <1>1, <1>4, <1>6, <2>1, <2>2, <2>3 DEF items
<1> QED
  BY <1>5, <1>6

\* A status mail as well.
LEMMA StatusReads ==
    ASSUME NEW lines \in Seq(OrderLine), NEW e, e.items = ReceiptItems(lines),
           e.total \in Amount, lines # <<>> => Total(lines) = e.total
    PROVE  LET text == StatusMail(e) IN
           /\ Len(text.lines) = Len(e.items)
           /\ text.lines # <<>> => SumRead(text.lines) = e.total
           /\ text.total # <<>> => ReadAmount(text.total[1]) = e.total
           /\ text.subtotal = <<>>
<1> DEFINE text == StatusMail(e)
<1>1. /\ text.lines = Printed(ReceiptItems(lines), e.currency)
      /\ text.subtotal = <<>>
      /\ text.total = IF e.total > 0 THEN <<FormatAmount(e.total, e.currency)>>
                      ELSE <<>>
  BY DEF StatusMail, Printed
<1> HIDE DEF text
<1>2. /\ Len(text.lines) = Len(lines)
      /\ text.lines # <<>> <=> lines # <<>>
      /\ SumRead(text.lines) = Total(lines)
  BY <1>1, LinesRead
<1>3. Len(e.items) = Len(lines)
  <2>1. DOMAIN lines = 1..Len(lines) /\ Len(lines) \in Nat
    OBVIOUS
  <2>2. ReceiptItems(lines)
           = [i \in 1..Len(lines) |-> [amount |-> LineAmount(lines[i])]]
    BY <2>1 DEF ReceiptItems
  <2> QED
    BY <2>1, <2>2
<1>4. text.total # <<>> => ReadAmount(text.total[1]) = e.total
  <2> SUFFICES ASSUME text.total # <<>>
               PROVE  ReadAmount(text.total[1]) = e.total
    OBVIOUS
  <2>1. text.total = <<FormatAmount(e.total, e.currency)>>
    BY <1>1
  <2>2. text.total[1] = FormatAmount(e.total, e.currency)
    BY <2>1
  <2> QED
    BY <2>2, AmountRead
<1> QED
  BY <1>1, <1>2, <1>3, <1>4 DEF text

-----------------------------------------------------------------------------
LEMMA Comes ==
    ASSUME Kept, NEW s \in Slots, SlotStep(s)
    PROVE  /\ calls'[s].pc = "insert_order" => GetProducts(s) \/ Expire(s)
           /\ calls'[s].pc = "create_payment" => InsertOrder(s) \/ Expire(s)
           /\ calls'[s].pc = "set_payment" => CreatePayment(s) \/ Expire(s)
           /\ calls'[s].pc = "reread_items" => RereadOrder(s) \/ Expire(s)
           /\ calls'[s].pc = "set_status" => GetOrderToUpdate(s) \/ Expire(s)
           /\ calls'[s].pc = "update_product" => GetProduct(s) \/ Expire(s)
           /\ calls'[s].pc = "insert_product" => StampProduct(s) \/ Expire(s)
           /\ calls'[s].pc = "idle" => Expire(s)
<1> DEFINE Ours(pc) == pc \in {"insert_order", "create_payment", "set_payment",
                              "reread_items", "set_status", "update_product",
                              "insert_product", "idle"}
<1>1. ASSUME Admit(s) PROVE ~Ours(calls'[s].pc)
  BY <1>1, Lands, FirstOnRoute DEF Starts
<1>2. Arrive(s) \/ TurnPage(s) \/ Fail(s) \/ Reply(s) => ~Ours(calls'[s].pc)
  BY Lands
<1>3. Elsewhere(s) \/ SetPaymentInfo(s) \/ ViewCart(s) \/ DeleteOrder(s)
      \/ NotifyStatusChanged(s) \/ InsertProduct(s) \/ DeleteProduct(s)
      \/ FindProducts(s) => ~Ours(calls'[s].pc)
  BY Lands
<1>4. ReadOrders(s) \/ ReadPayments(s) \/ DeletePayment(s) \/ RereadProduct(s)
      \/ UserEmail(s) \/ SetStatus(s) \/ UpdateProduct(s) \/ CountProducts(s)
      => ~Ours(calls'[s].pc)
  BY Lands
<1>5. /\ GetProducts(s) => calls'[s].pc \in {"insert_order", "done"}
      /\ InsertOrder(s) => calls'[s].pc = "create_payment"
      /\ CreatePayment(s) => calls'[s].pc \in {"set_payment", "done"}
      /\ GetOrderToUpdate(s) => calls'[s].pc \in {"set_status", "done"}
      /\ RereadOrder(s) => calls'[s].pc \in {"reread_items", "done"}
      /\ GetProduct(s) => calls'[s].pc \in {"reply", "update_product", "done"}
      /\ StampProduct(s) => calls'[s].pc \in {"insert_product", "done"}
  BY Lands
<1> QED
  BY <1>1, <1>2, <1>3, <1>4, <1>5 DEF SlotStep

LEMMA StatusStep ==
    ASSUME Kept, NEW s \in Slots, SlotStep(s)
    PROVE  \/ calls'[s].status = calls[s].status
           \/ calls'[s].status \in {0, 200, 201, 400, 401, 403, 500}
<1> DEFINE Same == calls'[s].status = calls[s].status
<1> DEFINE Fine == calls'[s].status \in {0, 200, 201, 400, 401, 403, 500}
<1>1. /\ \A pc : Moves(s, pc) => Same
      /\ \A pc, did : Does(s, pc, did) => Same
      /\ \A shown : Shows(s, shown) => Same
  BY BecomesFields DEF Moves, Does, Shows
<1>2. ASSUME NEW status \in {200, 201, 400, 401, 403, 500}, Ends(s, status)
      PROVE  Fine
  <2>1. calls'[s].status = status
    BY <1>2, BecomesFields DEF Ends
  <2> QED
    BY <2>1
<1>3. ASSUME calls[s].pc # "idle", Errs(s) PROVE Fine
  BY <1>2, <1>3, Asks DEF Errs, At
<1> HIDE DEF Fine, Same
<1> SUFFICES Same \/ Fine
  BY DEF Same, Fine
<1>4. CASE Arrive(s)
  <2>1. calls = [t \in Slots |-> calls[t]]
    BY DEF Kept, Tabled
  <2>2. PICK q : calls' = [calls EXCEPT ![s] =
                    [NoCall EXCEPT !.request = q, !.pc = "gateway", !.hand = Before(q)]]
    BY <1>4 DEF Arrive
  <2>3. calls'[s].status = 0
    BY <2>1, <2>2 DEF NoCall
  <2> QED
    BY <2>3 DEF Fine
<1>5. CASE Admit(s)
  BY <1>1, <1>2, <1>5, AdmitKeeps
<1>6. CASE Expire(s)
  BY <1>6, ExpireKeeps DEF Same
<1>7. CASE TurnPage(s)
  <2>1. calls'[s].status = 0
    BY <1>7, TurnPageKeeps, BecomesFields
  <2> QED
    BY <2>1 DEF Fine
<1>8. CASE Fail(s)
  BY <1>3, <1>8, Becoming, Where
<1>9. CASE Reply(s)
  <2>1. calls[s].pc = "reply"
    BY <1>9, Where
  <2>2. Routes[Asked(s).route].ok \in {200, 201}
    BY <2>1, Asks DEF At
  <2>3. Ends(s, Routes[Asked(s).route].ok)
    BY <1>9, Becoming
  <2> QED
    BY <1>2, <2>2, <2>3
<1>10. CASE Elsewhere(s) \/ UserEmail(s) \/ InsertOrder(s) \/ SetPaymentInfo(s)
            \/ ViewCart(s) \/ CountProducts(s) \/ FindProducts(s)
  BY <1>1, <1>10, Becoming
<1>11. CASE DeleteOrder(s) \/ SetStatus(s) \/ NotifyStatusChanged(s)
            \/ UpdateProduct(s) \/ InsertProduct(s) \/ DeleteProduct(s)
  BY <1>1, <1>11, Becoming
<1>12. CASE GetProducts(s) \/ CreatePayment(s) \/ ReadOrders(s)
            \/ GetOrderToUpdate(s) \/ RereadOrder(s)
  <2>1. calls[s].pc # "idle"
    BY <1>12, Where
  <2> QED
    BY <1>1, <1>3, <1>12, <2>1, Becoming
<1>13. CASE ReadPayments(s) \/ DeletePayment(s) \/ GetProduct(s)
            \/ RereadProduct(s) \/ StampProduct(s)
  <2>1. calls[s].pc # "idle"
    BY <1>13, Where
  <2> QED
    BY <1>1, <1>3, <1>13, <2>1, Becoming
<1> QED
  BY <1>4, <1>5, <1>6, <1>7, <1>8, <1>9, <1>10, <1>11, <1>12, <1>13 DEF SlotStep

LEMMA UpdatesOrder ==
    ASSUME Kept, NEW s \in Slots,
           calls[s].pc \in {"get_order", "set_status", "reread_order", "reread_items"}
    PROVE  Input(s).order \in Keys
<1>1. Asked(s).route = "AdminUpdateOrderStatus" /\ ~At(s, "idle")
  BY Past DEF OnRoute
<1>2. Asked(s) \in scenario.requests[s] /\ scenario \in Scenarios
  BY <1>1 DEF Kept, Ongoing, Asked
<1> QED
  BY <1>1, <1>2, ScenariosAssumption DEF Input

\* What a request asks for stays the same.
LEMMA InputStays ==
    ASSUME Kept, NEW s \in Slots, SlotStep(s), ~Arrive(s), NEW t \in Slots
    PROVE  Asked(t)' = Asked(t) /\ Input(t)' = Input(t)
<1>1. \A u \in Slots \ {s} : calls'[u] = calls[u]
  BY SlotKeeps DEF Keeps, Rest
<1>2. /\ \A pc : Moves(s, pc) => calls'[s].request = calls[s].request
      /\ \A pc, did : Does(s, pc, did) => calls'[s].request = calls[s].request
      /\ \A shown : Shows(s, shown) => calls'[s].request = calls[s].request
      /\ \A status : Ends(s, status) => calls'[s].request = calls[s].request
      /\ Errs(s) => calls'[s].request = calls[s].request
  BY BecomesFields DEF Moves, Does, Shows, Ends, Errs
<1>3. CASE Admit(s) \/ Expire(s) \/ TurnPage(s)
  BY <1>1, <1>3, AdmitKeeps, ExpireKeeps, TurnPageKeeps, BecomesFields
     DEF Asked, Input
<1>4. CASE calls'[s].request = calls[s].request
  BY <1>1, <1>4 DEF Asked, Input
<1>5. CASE Fail(s) \/ Reply(s) \/ Elsewhere(s) \/ UserEmail(s) \/ GetProducts(s)
           \/ InsertOrder(s) \/ CreatePayment(s)
  BY <1>2, <1>4, <1>5, Becoming
<1>6. CASE SetPaymentInfo(s) \/ ViewCart(s) \/ ReadOrders(s) \/ DeleteOrder(s)
           \/ GetOrderToUpdate(s) \/ SetStatus(s) \/ RereadOrder(s)
  BY <1>2, <1>4, <1>6, Becoming
<1>7. CASE NotifyStatusChanged(s) \/ ReadPayments(s) \/ DeletePayment(s)
           \/ GetProduct(s) \/ UpdateProduct(s) \/ RereadProduct(s)
  BY <1>2, <1>4, <1>7, Becoming
<1>8. CASE StampProduct(s) \/ InsertProduct(s) \/ DeleteProduct(s)
           \/ CountProducts(s) \/ FindProducts(s)
  BY <1>2, <1>4, <1>8, Becoming
<1> QED
  BY <1>3, <1>5, <1>6, <1>7, <1>8 DEF SlotStep

\* The only statement of a request that publishes.
LEMMA Publishes ==
    ASSUME NEW s \in Slots, SlotStep(s)
    PROVE  /\ mails' = mails
           /\ events' = events \/ NotifyStatusChanged(s)
           /\ expired' = expired \/ expired' = expired \cup {s}
<1> USE DEF ordersVars
<1>1. CASE Arrive(s) \/ Admit(s) \/ Expire(s) \/ Fail(s) \/ Reply(s) \/
          Elsewhere(s) \/ UserEmail(s)
  BY <1>1 DEF Arrive, Admit, Expire, Fail, Reply, Elsewhere, UserEmail
<1>2. CASE GetProducts(s) \/ InsertOrder(s) \/ CreatePayment(s) \/
          SetPaymentInfo(s) \/ ViewCart(s)
  BY <1>2 DEF GetProducts, InsertOrder, CreatePayment, SetPaymentInfo, ViewCart
<1>3. CASE ReadOrders(s) \/ DeleteOrder(s) \/ GetOrderToUpdate(s) \/
          SetStatus(s) \/ RereadOrder(s) \/ NotifyStatusChanged(s)
  BY <1>3 DEF ReadOrders, DeleteOrder, GetOrderToUpdate, SetStatus,
             RereadOrder, NotifyStatusChanged
<1>4. CASE ReadPayments(s) \/ DeletePayment(s)
  BY <1>4 DEF ReadPayments, DeletePayment
<1>5. CASE GetProduct(s) \/ UpdateProduct(s) \/ RereadProduct(s) \/
          StampProduct(s) \/ InsertProduct(s) \/ DeleteProduct(s)
  BY <1>5 DEF GetProduct, UpdateProduct, RereadProduct, StampProduct,
             InsertProduct, DeleteProduct
<1>6. CASE CountProducts(s) \/ FindProducts(s) \/ TurnPage(s)
  BY <1>6 DEF CountProducts, FindProducts, TurnPage
<1> QED
  BY <1>1, <1>2, <1>3, <1>4, <1>5, <1>6 DEF SlotStep

\* An order is priced from the rows that were read.
LEMMA OrderPriced ==
    ASSUME Kept, Accounted, NEW s \in Slots, GetProducts(s), ~Error(s)
    PROVE  Priced(calls'[s].hand)
<1> DEFINE items == Input(s).items
<1> DEFINE rows == Rows({items[i].product : i \in DOMAIN items})
<1> DEFINE priced == ResolveItems(items, rows)
<1>1. Whole(calls[s]) /\ calls = [t \in Slots |-> calls[t]]
  BY DEF Kept, Tabled, Ongoing
<1>2. /\ ~Refused(items, rows)
      /\ calls' = [calls EXCEPT ![s].pc = "insert_order",
                 ![s].hand = [user |-> Asked(s).user, email |-> @.email,
                              items |-> priced.lines, total |-> priced.total,
                              currency |-> priced.currency,
                              status |-> "pending", payment |-> FALSE]]
  BY DEF GetProducts
<1>3. items \in Seq(CartItem)
  <2>1. calls[s].pc = "products"
    BY Where
  <2>2. Asked(s).route = "CreateOrder" /\ ~At(s, "idle")
    BY <2>1, Past DEF OnRoute
  <2>3. Asked(s) \in scenario.requests[s] /\ scenario \in Scenarios
    BY <2>2 DEF Kept, Ongoing, Asked
  <2> QED
    BY <2>2, <2>3, InputsAssumption DEF Input
<1>4. \A p \in DOMAIN rows : Sellable(rows[p])
  <2>1. ASSUME NEW p \in DOMAIN rows PROVE Sellable(rows[p])
    <3>1. /\ rows[p] = products[p] /\ Stored(p)
          /\ p \in {items[i].product : i \in DOMAIN items}
      BY DEF Rows
    <3>2. p \in Products
      <4>1. PICK i \in DOMAIN items : p = items[i].product
        BY <3>1
      <4>2. items[i] \in CartItem
        BY <1>3
      <4> QED
        BY <4>1, <4>2 DEF CartItem
    <3> QED
      BY <3>1, <3>2 DEF Accounted
  <2> QED
    BY <2>1
<1> HIDE DEF items, rows, priced
<1>5. /\ priced.lines \in Seq(OrderLine) /\ priced.lines # <<>>
      /\ \A i \in DOMAIN priced.lines :
            priced.lines[i].price > 0 /\ priced.lines[i].quantity > 0
      /\ priced.total = Total(priced.lines)
      /\ priced.total \in Amount
      /\ priced.currency \in DOMAIN Upper
  BY <1>2, <1>3, <1>4, Resolved DEF priced
<1>6. PICK email :
        calls'[s].hand = [user |-> Asked(s).user, email |-> email,
                          items |-> priced.lines, total |-> priced.total,
                          currency |-> priced.currency,
                          status |-> "pending", payment |-> FALSE]
  BY <1>1, <1>2 DEF Whole
<1> QED
  BY <1>5, <1>6 DEF Priced, Ordered, Statuses

\* An order is handed on as it was stored.
LEMMA OrderRead ==
    ASSUME Kept, NEW s \in Slots, RereadOrder(s), calls'[s].pc = "reread_items"
    PROVE  /\ orders[Input(s).order] # None
           /\ calls'[s].hand = orders[Input(s).order]
<1>1. Whole(calls[s]) /\ calls = [t \in Slots |-> calls[t]]
  BY DEF Kept, Tabled, Ongoing
<1>2. ~Error(s)
  BY ErrorErrs, Landing DEF RereadOrder
<1> QED
  BY <1>1, <1>2 DEF RereadOrder, Whole

LEMMA StandingStep ==
    ASSUME Kept, Truthful, Accounted, NEW s \in Slots, SlotStep(s), NEW t \in Slots
    PROVE  Standing(t)'
<1>0. Standing(t) /\ Updating(t)
  BY DEF Accounted, Truthful
<1>1. calls[t].pc = "reread_items" =>
        Input(t).order \in Keys /\ Placed(Input(t).order)
  BY <1>0, UpdatesOrder DEF Updating
<1>2. CASE calls'[t] = calls[t]
  <2>1. Input(t)' = Input(t)
    BY <1>2 DEF Input, Asked
  <2>2. calls'[t].pc = "reread_items" =>
          Promised(Input(t).order)' = Promised(Input(t).order)
    <3>1. ASSUME NEW k, k = Input(t).order, calls[t].pc = "reread_items"
          PROVE  Promised(k)' = Promised(k)
      BY <1>1, <3>1, PromisedStays
    <3> QED
      BY <1>2, <2>1, <3>1 DEF Promised
  <2>3. /\ calls'[t].status \in {0, 200, 201, 400, 401, 403, 500}
        /\ calls'[t].pc \in {"insert_order", "create_payment", "set_payment"}
              => Priced(calls'[t].hand)
    <3>1. /\ calls[t].status \in {0, 200, 201, 400, 401, 403, 500}
          /\ calls[t].pc \in {"insert_order", "create_payment", "set_payment"}
                => Priced(calls[t].hand)
      BY <1>0 DEF Standing
    <3> QED
      BY <1>2, <3>1
  <2>4. calls'[t].pc = "reread_items" =>
          Priced(calls'[t].hand) /\ calls'[t].hand.total = Promised(Input(t).order)'
    BY <1>0, <1>2, <2>2 DEF Standing, At
  <2>5. /\ calls'[t].pc = "set_status" => Input(t)'.status \in Statuses
        /\ calls'[t].pc \in {"update_product", "insert_product"}
              => Complete(Input(t))'
    <3>1. Complete(Input(t))' <=> Complete(Input(t))
      BY <2>1 DEF Complete
    <3> QED
      BY <1>0, <1>2, <2>1, <3>1 DEF Standing, At
  <2> QED
    BY <2>3, <2>4, <2>5 DEF Standing, At
<1>3. CASE t # s
  BY <1>2, <1>3, SlotKeeps DEF Keeps, Rest
<1>4. CASE t = s /\ Expire(s)
  BY <1>2, <1>4, ExpireKeeps
<1>5. CASE t = s /\ ~Expire(s)
  <2>1. calls'[s].status \in {0, 200, 201, 400, 401, 403, 500}
    BY <1>0, <1>5, StatusStep DEF Standing
  <2>2. calls'[s].pc = "insert_order" => Priced(calls'[s].hand)
    <3> SUFFICES ASSUME calls'[s].pc = "insert_order" PROVE Priced(calls'[s].hand)
      OBVIOUS
    <3>1. GetProducts(s)
      BY <1>5, Comes
    <3>2. ~Error(s)
      <4>1. Error(s) => Errs(s)
        BY <3>1, ErrorErrs DEF GetProducts
      <4> QED
        BY <4>1, Landing
    <3> QED
      BY <3>1, <3>2, OrderPriced
  <2>3. calls'[s].pc \in {"create_payment", "set_payment"} => Priced(calls'[s].hand)
    <3> SUFFICES ASSUME calls'[s].pc \in {"create_payment", "set_payment"}
                 PROVE  Priced(calls'[s].hand)
      OBVIOUS
    <3>1. InsertOrder(s) \/ CreatePayment(s)
      BY <1>5, Comes
    <3>2. calls[s].pc \in {"insert_order", "create_payment"}
      BY <3>1, Where
    <3>3. Priced(calls[s].hand)
      BY <1>0, <1>5, <3>2 DEF Standing
    <3>4. calls'[s].hand = calls[s].hand
      BY <3>1, HandStays
    <3> QED
      BY <3>3, <3>4
  <2>4. calls'[s].pc = "reread_items" =>
          Priced(calls'[s].hand) /\ calls'[s].hand.total = Promised(Input(s).order)'
    <3> SUFFICES ASSUME calls'[s].pc = "reread_items"
                 PROVE  /\ Priced(calls'[s].hand)
                        /\ calls'[s].hand.total = Promised(Input(s).order)'
      OBVIOUS
    <3>1. RereadOrder(s)
      BY <1>5, Comes
    <3> DEFINE k == Input(s).order
    <3>2. orders[k] # None /\ calls'[s].hand = orders[k]
      BY <3>1, OrderRead
    <3>3. calls[s].pc = "reread_order" /\ ~Arrive(s)
      BY <3>1, Where
    <3>4. k \in Keys /\ Placed(k)
      BY <1>0, <1>5, <3>3, UpdatesOrder DEF Updating
    <3>5. Booked(k)
      BY <3>4 DEF Accounted
    <3>6. k' = k
      BY <3>3, InputStays
    <3> HIDE DEF k
    <3>7. Promised(k)' = Promised(k)
      <4>1. PICK j : j = k
        OBVIOUS
      <4>2. Promised(j)' = Promised(j)
        BY <3>4, <4>1, PromisedStays
      <4> QED
        BY <3>6, <4>1, <4>2 DEF Promised
    <3> QED
      BY <3>2, <3>5, <3>7 DEF Booked, k
  <2>5. calls'[s].pc = "set_status" => Input(s)'.status \in Statuses
    <3> SUFFICES ASSUME calls'[s].pc = "set_status"
                 PROVE  Input(s)'.status \in Statuses
      OBVIOUS
    <3>1. GetOrderToUpdate(s)
      BY <1>5, Comes
    <3>2. ~Error(s)
      BY <3>1, ErrorErrs, Landing DEF GetOrderToUpdate
    <3>3. Input(s)' = Input(s)
      BY <3>1, Where, InputStays
    <3> QED
      BY <3>1, <3>2, <3>3 DEF GetOrderToUpdate
  <2>6. calls'[s].pc \in {"update_product", "insert_product"} => Complete(Input(s))'
    <3> SUFFICES ASSUME calls'[s].pc \in {"update_product", "insert_product"}
                 PROVE  Complete(Input(s))'
      OBVIOUS
    <3>1. GetProduct(s) \/ StampProduct(s)
      BY <1>5, Comes
    <3>2. ~Error(s)
      BY <3>1, ErrorErrs, Landing DEF GetProduct, StampProduct
    <3>3. Input(s)' = Input(s)
      BY <3>1, Where, InputStays
    <3>4. GetProduct(s) => Asked(s).route = "UpdateProduct"
      <4>1. SUFFICES ASSUME GetProduct(s), Asked(s).route # "UpdateProduct"
                     PROVE  FALSE
        OBVIOUS
      <4>2. calls[s].pc = "get_product"
        BY <4>1, Where
      <4>3. Asked(s).route = "GetProduct"
        BY <4>1, <4>2, Past DEF OnRoute
      <4>4. Goto(s, "reply")
        BY <3>2, <4>1, <4>3 DEF GetProduct
      <4>5. calls = [u \in Slots |-> calls[u]] /\ Whole(calls[s])
        BY DEF Kept, Tabled, Ongoing
      <4> QED
        BY <4>4, <4>5 DEF Goto, Whole
    <3>5. Complete(Input(s))
      BY <3>1, <3>2, <3>4 DEF GetProduct, StampProduct
    <3> QED
      BY <3>3, <3>5 DEF Complete
  <2> QED
    BY <1>5, <2>1, <2>2, <2>3, <2>4, <2>5, <2>6 DEF Standing, At
<1> QED
  BY <1>3, <1>4, <1>5

\* What the statements of a request do to an order leaves its price alone.
LEMMA OrderEdited ==
    ASSUME NEW order, Priced(order), NEW status \in Statuses
    PROVE  /\ Priced([order EXCEPT !.payment = TRUE])
           /\ [order EXCEPT !.payment = TRUE].total = order.total
           /\ Priced([order EXCEPT !.status = status])
           /\ [order EXCEPT !.status = status].total = order.total
<1>1. DOMAIN order =
        {"user", "email", "items", "total", "currency", "status", "payment"}
  BY DEF Priced, Ordered
<1> DEFINE paid == [order EXCEPT !.payment = TRUE]
<1> DEFINE set == [order EXCEPT !.status = status]
<1>2. /\ DOMAIN paid = DOMAIN order /\ DOMAIN set = DOMAIN order
      /\ paid.items = order.items /\ set.items = order.items
      /\ paid.total = order.total /\ set.total = order.total
      /\ paid.currency = order.currency /\ set.currency = order.currency
      /\ paid.status = order.status /\ set.status = status
  BY <1>1
<1> HIDE DEF paid, set
<1>3. Priced(paid) /\ Priced(set)
  BY <1>2 DEF Priced, Ordered
<1> QED
  BY <1>2, <1>3 DEF paid, set

\* What a row is made of is what the request brings.
LEMMA RowAsked ==
    ASSUME Kept, Accounted, NEW s \in Slots,
           calls[s].pc \in {"update_product", "insert_product"}
    PROVE  \A active \in {Input(s).active, TRUE} :
              Sellable([price |-> Input(s).price, currency |-> Input(s).currency,
                        active |-> active])
<1> DEFINE in == Input(s)
<1>1. Asked(s).route \in {"CreateProduct", "UpdateProduct"} /\ ~At(s, "idle")
  BY Past DEF OnRoute
<1>2. Asked(s) \in scenario.requests[s] /\ scenario \in Scenarios
  BY <1>1 DEF Kept, Ongoing, Asked
<1>3. /\ in.price \in Amount /\ in.currency \in DOMAIN Upper
      /\ in.active \in BOOLEAN
  BY <1>1, <1>2, InputsAssumption DEF Input
<1>4. in.price > 0
  BY DEF Accounted, Standing, Complete
<1> QED
  BY <1>3, <1>4 DEF Sellable, CatalogRow

\* No row of the catalog sells for nothing.
LEMMA SellableStep ==
    ASSUME Kept, Accounted, NEW s \in Slots, SlotStep(s), NEW p \in Products,
           Stored(p)'
    PROVE  Sellable(products'[p])
<1> DEFINE in == Input(s)
<1>1. products = [q \in Products |-> products[q]]
  BY DEF Kept, Tabled
<1>2. Stored(p) => Sellable(products[p])
  BY DEF Accounted
<1>3. CASE products'[p] = products[p]
  BY <1>2, <1>3 DEF Stored
<1>4. ASSUME calls[s].pc \in {"update_product", "insert_product"}
      PROVE  \A active \in {in.active, TRUE} :
                Sellable([price |-> in.price, currency |-> in.currency,
                          active |-> active])
  BY <1>4, RowAsked
<1> HIDE DEF in
<1>5. CASE UpdateProduct(s)
  <2>1. calls[s].pc = "update_product" /\ Update(in.product, in)
    BY <1>5, Where DEF UpdateProduct, in
  <2>2. products'[p] = products[p] \/ p = in.product
    BY <1>1, <2>1 DEF Update
  <2>3. CASE p = in.product
    BY <1>1, <1>3, <1>4, <2>1, <2>3 DEF Update
  <2> QED
    BY <1>3, <2>2, <2>3
<1>6. CASE InsertProduct(s)
  <2>1. calls[s].pc = "insert_product" /\ Create(in.product, in)
    BY <1>6, Where DEF InsertProduct, in
  <2>2. products'[p] = products[p] \/ p = in.product
    BY <1>1, <2>1 DEF Create
  <2>3. CASE p = in.product
    BY <1>1, <1>4, <2>1, <2>3 DEF Create
  <2> QED
    BY <1>3, <2>2, <2>3
<1>7. CASE DeleteProduct(s)
  <2>1. Delete(in.product)
    BY <1>7 DEF DeleteProduct, in
  <2>2. products'[p] = products[p] \/ products'[p] = Gone
    BY <1>1, <2>1 DEF Delete
  <2> QED
    BY <1>3, <2>2 DEF Stored
<1> QED
  BY <1>3, <1>5, <1>6, <1>7, Writes

\* A stored order keeps its price, which is what was promised.
LEMMA OrdersStep ==
    ASSUME Kept, Truthful, Accounted, NEW s \in Slots, SlotStep(s),
           NEW k \in Keys, orders'[k] # None
    PROVE  Priced(orders'[k]) /\ orders'[k].total = Promised(k)'
<1>1. orders = [j \in Keys |-> orders[j]]
  BY DEF Kept, Tabled
<1>2. ASSUME orders[k] # None
      PROVE  /\ Promised(k)' = Promised(k)
             /\ Priced(orders[k]) /\ orders[k].total = Promised(k)
  <2>1. Placed(k)
    BY <1>2 DEF Truthful
  <2> QED
    BY <1>2, <2>1, PromisedStays DEF Accounted, Booked
<1>3. CASE orders'[k] = orders[k]
  BY <1>2, <1>3
<1>4. CASE InsertOrder(s) /\ k = s
  <2>1. calls[s].pc = "insert_order"
    BY <1>4, Where
  <2>2. Priced(calls[s].hand)
    BY <2>1 DEF Accounted, Standing
  <2>3. orders'[s] = calls[s].hand
    BY <1>1, <1>4 DEF InsertOrder, Keys
  <2>4. calls'[s].hand = calls[s].hand
    BY <1>4, HandStays
  <2>5. Promised(s)' = calls'[s].hand.total
    BY EarlierAssumption DEF Promised
  <2> QED
    BY <1>4, <2>2, <2>3, <2>4, <2>5
<1>5. CASE SetPaymentInfo(s) /\ orders[k] # None
  <2>1. orders'[k] = orders[k] \/ orders'[k] = [orders[k] EXCEPT !.payment = TRUE]
    BY <1>1, <1>5 DEF SetPaymentInfo
  <2>2. "paid" \in Statuses
    BY DEF Statuses
  <2> QED
    BY <1>2, <1>3, <1>5, <2>1, <2>2, OrderEdited
<1>6. CASE SetStatus(s) /\ orders[k] # None
  <2>1. \/ orders'[k] = orders[k]
        \/ orders'[k] = [orders[k] EXCEPT !.status = Input(s).status]
    BY <1>1, <1>6 DEF SetStatus
  <2>2. Input(s).status \in Statuses
    BY <1>6, Where DEF Accounted, Standing, At
  <2> QED
    BY <1>2, <1>3, <1>6, <2>1, <2>2, OrderEdited
<1>7. CASE DeleteOrder(s)
  BY <1>1, <1>3, <1>7 DEF DeleteOrder
<1>8. orders'[k] = orders[k] \/ orders[k] # None \/ (InsertOrder(s) /\ k = s)
  BY OrdersGrow
<1>9. InsertOrder(s) /\ k # s => orders'[k] = orders[k]
  BY <1>1 DEF InsertOrder
<1> QED
  BY <1>3, <1>4, <1>5, <1>6, <1>7, <1>8, <1>9, Writes

LEMMA OwedStays ==
    ASSUME NEW charge, NEW k, Owed(charge, k), Placed(k)',
           Promised(k)' = Promised(k), NEW c, c = charge
    PROVE  Owed(c, k)'
BY DEF Owed

\* A payment and its session are for the order, and only for a positive total.
LEMMA ChargesSet ==
    ASSUME Kept, NEW s \in Slots, CreatePayment(s)
    PROVE  /\ ~(calls[s].hand.total <= 0)
              => /\ charges'[s] = Charge(calls[s].hand, FALSE)
                 /\ sessions'[s] = Charge(calls[s].hand, FALSE)
           /\ \A k \in Keys : calls[s].hand.total <= 0 \/ k # s
                 => charges'[k] = charges[k] /\ sessions'[k] = sessions[k]
<1>1. /\ charges = [j \in Keys |-> charges[j]]
      /\ sessions = [j \in Keys |-> sessions[j]]
  BY DEF Kept, Tabled
<1>2. s \in Keys
  BY DEF Keys
<1> DEFINE charge == Charge(calls[s].hand, FALSE)
           refused == calls[s].hand.total <= 0
<1>3. IF refused THEN charges' = charges /\ sessions' = sessions
      ELSE /\ charges' = [charges EXCEPT ![s] = charge]
           /\ sessions' = [sessions EXCEPT ![s] = charge]
  BY DEF CreatePayment
<1> HIDE DEF charge, refused
<1>4. /\ ~refused => charges'[s] = charge /\ sessions'[s] = charge
      /\ \A k \in Keys : refused \/ k # s
            => charges'[k] = charges[k] /\ sessions'[k] = sessions[k]
  BY <1>1, <1>2, <1>3
<1> QED
  BY <1>4 DEF charge, refused

\* So does a payment.
LEMMA ChargesStep ==
    ASSUME Kept, Accounted, NEW s \in Slots, SlotStep(s), NEW k \in Keys
    PROVE  /\ charges'[k] # None => Owed(charges[k], k)'
           /\ sessions'[k] # None => Owed(sessions[k], k)'
<1>1. /\ charges = [j \in Keys |-> charges[j]]
      /\ sessions = [j \in Keys |-> sessions[j]]
  BY DEF Kept, Tabled
<1>2. ASSUME NEW charge, Owed(charge, k)
      PROVE  Placed(k)' /\ Promised(k)' = Promised(k)
  BY <1>2, PromisedStays, PlacedStays DEF Owed
<1>3. charges[k] # None /\ charges'[k] = charges[k] => Owed(charges[k], k)'
  BY <1>2 DEF Accounted, Booked, Owed
<1>4. sessions[k] # None /\ sessions'[k] = sessions[k] => Owed(sessions[k], k)'
  BY <1>2 DEF Accounted, Booked, Owed
<1>5. CASE CreatePayment(s) /\ k = s /\ calls[s].hand.total > 0
  <2>1. calls[s].pc = "create_payment"
    BY <1>5, Where
  <2>2. calls[s].hand.total \in Amount
    BY <2>1 DEF Accounted, Standing, Priced, Ordered
  <2>3. /\ charges'[s] = Charge(calls[s].hand, FALSE)
        /\ sessions'[s] = Charge(calls[s].hand, FALSE)
    <3>1. ~(calls[s].hand.total <= 0)
      BY <1>5, <2>2, HalfAssumption DEF Amount
    <3> QED
      BY <1>5, <3>1, ChargesSet
  <2>4. Promised(s)' = calls'[s].hand.total /\ calls'[s].hand = calls[s].hand
    BY <1>5, HandStays, EarlierAssumption DEF Promised
  <2>5. Placed(s)'
    <3>1. Placed(s)
      BY <2>1, Past DEF Placed, OnRoute
    <3> QED
      BY <3>1, PlacedStays
  <2>6. /\ Charge(calls[s].hand, FALSE).amount = calls[s].hand.total
        /\ DOMAIN Charge(calls[s].hand, FALSE) = {"amount", "currency", "paid"}
    BY DEF Charge
  <2> QED
    BY <1>5, <2>2, <2>3, <2>4, <2>5, <2>6 DEF Owed
<1>6. CASE CreatePayment(s) /\ ~(k = s /\ calls[s].hand.total > 0)
  <2>1. calls[s].hand.total \in Int
    BY <1>6, Where, HalfAssumption
       DEF Accounted, Standing, Priced, Ordered, Amount
  <2>2. calls[s].hand.total <= 0 \/ k # s
    BY <1>6, <2>1
  <2>3. charges'[k] = charges[k] /\ sessions'[k] = sessions[k]
    BY <1>6, <2>2, ChargesSet
  <2> QED
    BY <1>3, <1>4, <2>3
<1>7. CASE DeletePayment(s)
  <2>1. sessions'[k] = sessions[k]
    BY <1>7 DEF DeletePayment
  <2>2. charges'[k] = charges[k] \/ charges'[k] = None
    BY <1>1, <1>7 DEF DeletePayment
  <2> QED
    BY <1>3, <1>4, <2>1, <2>2
<1> QED
  BY <1>3, <1>4, <1>5, <1>6, <1>7, Writes

LEMMA PublishedStays ==
    ASSUME NEW e, Published(e), Placed(e.order)',
           Promised(e.order)' = Promised(e.order)
    PROVE  Published(e)'
<1>1. e.order \in Keys
  BY DEF Published
<1> QED
  BY <1>1 DEF Published

LEMMA SentStays ==
    ASSUME NEW m, Sent(m), Placed(m.order)',
           Promised(m.order)' = Promised(m.order)
    PROVE  Sent(m)'
BY DEF Sent, AddsUp

\* The event of a status update is written from the order as it was read.
LEMMA EventsStep ==
    ASSUME Kept, Truthful, Accounted, NEW s \in Slots, SlotStep(s), NEW e \in events'
    PROVE  Published(e)'
<1>1. CASE e \in events
  <2>1. Published(e)
    BY <1>1 DEF Accounted
  <2>2. e.order \in Keys /\ Placed(e.order)
    BY <2>1 DEF Published
  <2>3. PICK k \in Keys : k = e.order
    BY <2>2
  <2>4. Placed(k)' /\ Promised(k)' = Promised(k)
    BY <2>2, <2>3, PlacedStays, PromisedStays
  <2> QED
    BY <2>1, <2>3, <2>4, PublishedStays
<1>2. CASE e \notin events
  <2>1. NotifyStatusChanged(s)
    BY <1>2, Publishes
  <2>2. calls[s].pc = "reread_items"
    BY <2>1, Where
  <2> DEFINE hand == calls[s].hand
  <2>3. PICK k \in Keys : k = Input(s).order
    BY <2>2, UpdatesOrder
  <2>4. Placed(k)
    BY <2>2, <2>3 DEF Truthful, Updating
  <2>5. Priced(hand) /\ hand.total = Promised(k)
    <3>1. Standing(s)
      BY DEF Accounted
    <3> QED
      BY <2>2, <2>3, <3>1, Zenon DEF Standing, At
  <2>6. Placed(k)' /\ Promised(k)' = Promised(k)
    BY <2>4, PlacedStays, PromisedStays
  <2>7. PICK order : /\ order = hand \/ order = [hand EXCEPT !.items = <<>>]
                     /\ e = StatusEvent(k, order)
    BY <1>2, <2>1, <2>3 DEF NotifyStatusChanged
  <2>8. /\ order.total = hand.total /\ order.items \in Seq(OrderLine)
        /\ order.items # <<>> => Total(order.items) = hand.total
    <3>1. /\ hand.items \in Seq(OrderLine) /\ hand.total = Total(hand.items)
          /\ "items" \in DOMAIN hand /\ "total" \in DOMAIN hand
      BY <2>5 DEF Priced, Ordered
    <3> HIDE DEF hand
    <3>2. CASE order = hand
      BY <3>1, <3>2
    <3>3. CASE order = [hand EXCEPT !.items = <<>>]
      <4>1. order.total = hand.total /\ order.items = <<>>
        BY <3>1, <3>3
      <4> QED
        BY <4>1
    <3> QED
      BY <2>7, <3>2, <3>3
  <2>9. /\ e.kind = "status" /\ e.order = k /\ e.total = order.total
        /\ e.items = ReceiptItems(order.items)
    BY <2>7 DEF StatusEvent, ReceiptItems
  <2>10. order.total \in Amount
    BY <2>5, <2>8 DEF Priced, Ordered
  <2>11. \E lines \in Seq(OrderLine) :
            /\ e.items = ReceiptItems(lines)
            /\ lines # <<>> => Total(lines) = Promised(k)
    BY <2>5, <2>8, <2>9
  <2> HIDE DEF hand
  <2> QED
    BY <2>5, <2>6, <2>8, <2>9, <2>10, <2>11 DEF Published
<1> QED
  BY <1>1, <1>2

LEMMA AccountedSlotStep ==
    ASSUME Kept, Truthful, Accounted, NEW s \in Slots, SlotStep(s)
    PROVE  Accounted'
<1>1. expired' \subseteq Slots
  BY Publishes DEF Accounted
<1>2. \A p \in Products : Stored(p)' => Sellable(products'[p])
  BY SellableStep
<1>3. \A t \in Slots : Standing(t)'
  BY StandingStep
<1>4. \A k \in Keys : Booked(k)'
  BY OrdersStep, ChargesStep DEF Booked
<1>5. \A e \in events' : Published(e)'
  BY EventsStep
<1>6. ASSUME NEW m \in mails' PROVE Sent(m)'
  <2>1. Sent(m)
    BY Publishes DEF Accounted
  <2>2. PICK k \in Keys : k = m.order /\ Placed(k)
    BY <2>1 DEF Sent
  <2>3. Placed(k)' /\ Promised(k)' = Promised(k)
    BY <2>2, PlacedStays, PromisedStays
  <2> QED
    BY <2>1, <2>2, <2>3, SentStays
<1> QED
  BY <1>1, <1>2, <1>3, <1>4, <1>5, <1>6 DEF Accounted

\* While no request moves, what was promised and priced stays.
LEMMA Unmoved ==
    ASSUME UNCHANGED <<scenario, calls, orders, products>>
    PROVE  /\ \A k : Placed(k)' <=> Placed(k)
           /\ \A k : Promised(k)' = Promised(k)
           /\ \A s : Standing(s)' <=> Standing(s)
           /\ \A p : Stored(p)' <=> Stored(p)
<1>1. \A k : Placed(k)' <=> Placed(k)
  BY DEF Placed, Asked
<1>2. \A k : Promised(k)' = Promised(k)
  BY DEF Promised
<1>3. \A p : Stored(p)' <=> Stored(p)
  BY DEF Stored
<1>4. ASSUME NEW s PROVE Standing(s)' <=> Standing(s)
  <2>1. Input(s)' = Input(s)
    BY DEF Input, Asked
  <2>2. Promised(Input(s).order)' = Promised(Input(s).order)
    BY <2>1 DEF Promised
  <2>3. Complete(Input(s))' <=> Complete(Input(s))
    BY <2>1 DEF Complete
  <2> QED
    BY <2>1, <2>2, <2>3 DEF Standing, At
<1> QED
  BY <1>1, <1>2, <1>3, <1>4

\* Where a payment is known, it is of what was promised.
LEMMA OutsideAccounted ==
    ASSUME Accounted, UNCHANGED <<scenario, calls, orders, products, expired, mails>>,
           \A k \in Keys : charges'[k] # None => Owed(charges'[k], k),
           \A k \in Keys : sessions'[k] # None => Owed(sessions'[k], k),
           \A e \in events' : Published(e)
    PROVE  Accounted'
<1>1. \A k \in Keys : Booked(k)'
  BY Unmoved DEF Accounted, Booked, Owed
<1>2. ASSUME NEW e \in events' PROVE Published(e)'
  BY Unmoved, PublishedStays DEF Published
<1>3. ASSUME NEW m \in mails' PROVE Sent(m)'
  <2>1. Sent(m)
    BY DEF Accounted
  <2> QED
    BY <2>1, Unmoved, SentStays DEF Sent
<1>4. /\ expired' \subseteq Slots
      /\ \A p \in Products : Stored(p)' => Sellable(products'[p])
      /\ \A s \in Slots : Standing(s)'
  BY Unmoved DEF Accounted
<1> QED
  BY <1>1, <1>2, <1>3, <1>4 DEF Accounted

\* The customer pays what was promised.
LEMMA PayAccounted ==
    ASSUME Kept, Accounted, NEW k \in Keys, Pay(k)
    PROVE  Accounted'
<1>1. sessions = [j \in Keys |-> sessions[j]]
  BY DEF Kept, Tabled
<1>2. /\ UNCHANGED <<scenario, calls, orders, products, expired, mails>>
      /\ charges' = charges /\ events' = events
  BY DEF Pay, catalogVars
<1>3. Owed(sessions[k], k)
  BY DEF Accounted, Booked, Pay
<1>4. /\ sessions'[k] = [sessions[k] EXCEPT !.paid = TRUE]
      /\ \A j \in Keys : j # k => sessions'[j] = sessions[j]
  BY <1>1 DEF Pay
<1>5. Owed(sessions'[k], k)
  <2>1. /\ DOMAIN sessions'[k] = {"amount", "currency", "paid"}
        /\ sessions'[k].amount = sessions[k].amount
    BY <1>3, <1>4 DEF Owed
  <2> QED
    BY <1>3, <2>1 DEF Owed
<1>6. \A j \in Keys : sessions'[j] # None => Owed(sessions'[j], j)
  BY <1>4, <1>5 DEF Accounted, Booked
<1> QED
  BY <1>2, <1>6, OutsideAccounted DEF Accounted, Booked

\* The payment that is reported is the one that was stored, or was made at
\* Stripe.
LEMMA WebhookAccounted ==
    ASSUME Kept, Accounted, NEW k \in Keys, Webhook(k)
    PROVE  Accounted'
<1>1. charges = [j \in Keys |-> charges[j]]
  BY DEF Kept, Tabled
<1>2. /\ UNCHANGED <<scenario, calls, orders, products, expired, mails>>
      /\ sessions' = sessions
  BY DEF Webhook, catalogVars
<1> DEFINE row == IF charges[k] = None THEN sessions[k] ELSE charges[k]
<1> DEFINE event == [kind |-> "paid", order |-> k, amount |-> row.amount,
                     currency |-> row.currency]
<1>3. Owed(row, k)
  BY DEF Accounted, Booked, Webhook
<1>4. /\ charges' = [charges EXCEPT ![k] = [row EXCEPT !.paid = TRUE]]
      /\ events' = events \cup {event}
  BY DEF Webhook
<1> HIDE DEF row
<1>5. Owed(charges'[k], k)
  <2>1. charges'[k] = [row EXCEPT !.paid = TRUE]
    BY <1>1, <1>4
  <2>2. /\ DOMAIN charges'[k] = {"amount", "currency", "paid"}
        /\ charges'[k].amount = row.amount
    BY <1>3, <2>1 DEF Owed
  <2> QED
    BY <1>3, <2>2 DEF Owed
<1>6. \A j \in Keys : charges'[j] # None => Owed(charges'[j], j)
  BY <1>1, <1>4, <1>5 DEF Accounted, Booked
<1>7. Published(event)
  BY <1>3 DEF Published, Owed
<1>8. \A e \in events' : Published(e)
  BY <1>4, <1>7 DEF Accounted
<1> QED
  BY <1>2, <1>6, <1>8, OutsideAccounted DEF Accounted, Booked

\* A mail is written from the event, and from the order if it is still there.
LEMMA MailAccounted ==
    ASSUME Kept, Truthful, Accounted, NEW e \in events, MailReceipt(e) \/ MailStatus(e)
    PROVE  Accounted'
<1>1. /\ UNCHANGED <<scenario, calls, orders, products>>
      /\ expired' = expired /\ charges' = charges /\ sessions' = sessions
      /\ events' \subseteq events
  BY DEF MailReceipt, MailStatus, catalogVars
<1>2. Published(e)
  BY DEF Accounted
<1> DEFINE k == e.order
<1>3. k \in Keys /\ Placed(k)
  BY <1>2 DEF Published
<1>4. ASSUME NEW m \in mails', m \notin mails PROVE Sent(m)
  <2>1. CASE MailReceipt(e)
    <3>1. PICK lines : /\ lines = <<>> \/ (orders[k] # None /\ lines = orders[k].items)
                       /\ m = [order |-> k, items |-> Len(lines),
                               text |-> Receipt(e, ReceiptItems(lines))]
      BY <1>4, <2>1 DEF MailReceipt
    <3>2. e.amount = Promised(k) /\ e.amount \in Amount
      BY <1>2, <2>1 DEF MailReceipt, Published
    <3>3. Booked(k)
      BY <1>3 DEF Accounted
    <3>4. lines \in Seq(OrderLine) /\ (lines # <<>> => Total(lines) = e.amount)
      <4>1. CASE lines = <<>>
        BY <4>1
      <4>2. CASE orders[k] # None /\ lines = orders[k].items
        <5>1. Priced(orders[k]) /\ orders[k].total = Promised(k)
          BY <3>3, <4>2 DEF Booked
        <5>2. /\ orders[k].items \in Seq(OrderLine)
              /\ orders[k].total = Total(orders[k].items)
          BY <5>1 DEF Priced, Ordered
        <5> QED
          BY <3>2, <4>2, <5>1, <5>2
      <4> QED
        BY <3>1, <4>1, <4>2
    <3> DEFINE text == Receipt(e, ReceiptItems(lines))
    <3>5. /\ Len(text.lines) = Len(lines)
          /\ text.lines # <<>> => SumRead(text.lines) = e.amount
          /\ text.total # <<>> => ReadAmount(text.total[1]) = e.amount
          /\ text.subtotal # <<>> => ReadAmount(text.subtotal[1]) = e.amount
      BY <3>2, <3>4, ReceiptReads
    <3>6. m.order = k /\ m.items = Len(lines) /\ m.text = text
      BY <3>1
    <3> HIDE DEF k, text
    <3> QED
      BY <1>3, <3>2, <3>5, <3>6 DEF Sent, AddsUp, SumRead
  <2>2. CASE MailStatus(e)
    <3>1. /\ e.kind = "status"
          /\ m = [order |-> k, items |-> Len(e.items), text |-> StatusMail(e)]
      BY <1>4, <2>2 DEF MailStatus
    <3>2. /\ e.total = Promised(k) /\ e.total \in Amount
          /\ \E lines \in Seq(OrderLine) :
                /\ e.items = ReceiptItems(lines)
                /\ lines # <<>> => Total(lines) = Promised(k)
      BY <1>2, <3>1 DEF Published
    <3>3. PICK lines \in Seq(OrderLine) :
             /\ e.items = ReceiptItems(lines)
             /\ lines # <<>> => Total(lines) = Promised(k)
      BY <3>2
    <3> DEFINE text == StatusMail(e)
    <3>4. /\ Len(text.lines) = Len(e.items)
          /\ text.lines # <<>> => SumRead(text.lines) = e.total
          /\ text.total # <<>> => ReadAmount(text.total[1]) = e.total
          /\ text.subtotal = <<>>
      BY <3>2, <3>3, StatusReads
    <3>5. m.order = k /\ m.items = Len(e.items) /\ m.text = text
      BY <3>1
    <3> HIDE DEF k, text
    <3> QED
      BY <1>3, <3>2, <3>4, <3>5 DEF Sent, AddsUp, SumRead
  <2> QED
    BY <2>1, <2>2
<1>5. ASSUME NEW m \in mails' PROVE Sent(m)'
  <2>1. Sent(m)
    BY <1>4 DEF Accounted
  <2> QED
    BY <1>1, <2>1, Unmoved, SentStays DEF Sent
<1>6. ASSUME NEW f \in events' PROVE Published(f)'
  <2>1. Published(f)
    BY <1>1 DEF Accounted
  <2> QED
    BY <1>1, <2>1, Unmoved, PublishedStays DEF Published
<1>7. /\ expired' \subseteq Slots
      /\ \A p \in Products : Stored(p)' => Sellable(products'[p])
      /\ \A s \in Slots : Standing(s)'
  BY <1>1, Unmoved DEF Accounted
<1>8. \A j \in Keys : Booked(j)'
  BY <1>1, Unmoved DEF Accounted, Booked, Owed
<1> QED
  BY <1>5, <1>6, <1>7, <1>8 DEF Accounted

LEMMA AccountedStep == Kept /\ Truthful /\ Accounted /\ [Next]_vars => Accounted'
<1> SUFFICES ASSUME Kept, Truthful, Accounted, [Next]_vars PROVE Accounted'
  OBVIOUS
<1>1. ASSUME UNCHANGED vars PROVE Accounted'
  <2>1. /\ UNCHANGED <<scenario, calls, orders, products>>
        /\ expired' = expired /\ charges' = charges /\ sessions' = sessions
        /\ events' = events /\ mails' = mails
    BY <1>1 DEF vars, ordersVars, catalogVars
  <2>2. \A e : Published(e) => Published(e)'
    BY <2>1, Unmoved, PublishedStays DEF Published
  <2>3. \A m : Sent(m) => Sent(m)'
    BY <2>1, Unmoved, SentStays DEF Sent
  <2>4. \A j : Booked(j)' <=> Booked(j)
    BY <2>1, Unmoved DEF Booked, Owed
  <2> QED
    BY <2>1, <2>2, <2>3, <2>4, Unmoved DEF Accounted
<1> QED
  BY <1>1, AccountedSlotStep, PayAccounted, WebhookAccounted, MailAccounted
     DEF Next

LEMMA AccountedInit == Init => Accounted
<1> SUFFICES ASSUME Init PROVE Accounted
  OBVIOUS
<1>1. scenario \in Scenarios /\ products = scenario.products
  BY DEF Init
<1>2. \A p \in Products : Stored(p) => Sellable(products[p])
  BY <1>1, StoresAssumption DEF Stored
<1>3. \A s \in Slots : Standing(s)
  BY DEF Init, NoCall, Standing, At
<1>4. ASSUME NEW k \in Keys PROVE Booked(k)
  <2>1. /\ orders[k] = IF k = Earlier THEN scenario.earlier ELSE None
        /\ charges[k] = IF k = Earlier /\ scenario.earlier # None
                        THEN Charge(scenario.earlier, FALSE) ELSE None
        /\ sessions[k] = charges[k]
    BY DEF Init
  <2>2. scenario.earlier # None =>
          Priced(scenario.earlier) /\ scenario.earlier.total > 0
    BY <1>1, StoresAssumption DEF Priced
  <2>3. k = Earlier => Placed(k) /\ Promised(k) = scenario.earlier.total
    BY EarlierAssumption DEF Placed, Promised
  <2>4. CASE k = Earlier /\ scenario.earlier # None
    <3>1. charges[k].amount = scenario.earlier.total
          /\ DOMAIN charges[k] = {"amount", "currency", "paid"}
      BY <2>1, <2>4 DEF Charge
    <3>2. scenario.earlier.total \in Amount
      BY <2>2, <2>4 DEF Priced, Ordered
    <3>3. Owed(charges[k], k)
      BY <2>2, <2>3, <2>4, <3>1, <3>2 DEF Owed
    <3> QED
      BY <2>1, <2>2, <2>3, <2>4, <3>3 DEF Booked
  <2>5. CASE ~(k = Earlier /\ scenario.earlier # None)
    BY <2>1, <2>5 DEF Booked
  <2> QED
    BY <2>4, <2>5
<1>5. expired \subseteq Slots /\ events = {} /\ mails = {}
  BY DEF Init
<1> QED
  BY <1>2, <1>3, <1>4, <1>5 DEF Accounted

\* TypeOK: whatever is stored is well formed, and a payment is over a positive
\* amount although the total of its order may have wrapped around
\* (payments/internal/server/service.go CreatePayment).
THEOREM TypeCorrect == Spec => []TypeOK
<1>1. Init => Kept /\ Truthful /\ Accounted
  BY KeptInit, TruthfulInit, AccountedInit
<1>2. (Kept /\ Truthful /\ Accounted) /\ [Next]_vars
      => (Kept /\ Truthful /\ Accounted)'
  BY KeptStep, TruthfulStep, AccountedStep
<1>3. Kept /\ Accounted => TypeOK
  <2> SUFFICES ASSUME Kept, Accounted PROVE TypeOK
    OBVIOUS
  <2>1. scenario \in Scenarios
    BY DEF Kept
  <2>2. /\ expired \subseteq Slots
        /\ \A p \in Products : Stored(p) => Sellable(products[p])
    BY DEF Accounted
  <2>3. ASSUME NEW k \in Keys
        PROVE  /\ orders[k] # None => Ordered(orders[k])
               /\ charges[k] # None =>
                    charges[k].amount \in Amount /\ charges[k].amount > 0
               /\ sessions[k] # None => sessions[k].amount \in Amount
    BY DEF Accounted, Booked, Owed, Priced
  <2>4. \A s \in Slots : calls[s].status \in {0, 200, 201, 400, 401, 403, 500}
    BY DEF Accounted, Standing
  <2> QED
    BY <2>1, <2>2, <2>3, <2>4 DEF TypeOK
<1> QED
  BY <1>1, <1>2, <1>3, PTL DEF Spec

\* MailsAddUp: the lines, the subtotal and the total of every mail read as what
\* the customer was promised, whatever was changed or deleted since
\* (notification/internal/nats/receipt.go BuildReceiptData, formatAmount).
THEOREM MailsAddUpAlways == Spec => []MailsAddUp
<1>1. Init => Kept /\ Truthful /\ Accounted
  BY KeptInit, TruthfulInit, AccountedInit
<1>2. (Kept /\ Truthful /\ Accounted) /\ [Next]_vars
      => (Kept /\ Truthful /\ Accounted)'
  BY KeptStep, TruthfulStep, AccountedStep
<1>3. Accounted => MailsAddUp
  BY DEF Accounted, Sent, AddsUp, MailsAddUp
<1> QED
  BY <1>1, <1>2, <1>3, PTL DEF Spec

(***************************************************************************)
(* The order of the catalog: rows and their ranks by created_at.           *)
(***************************************************************************)
\* p has its created_at.
Stamped(p) == created[p] # 0

\* Every row has one.
Dated ==
    /\ created \in [Products -> Nat]
    /\ \A p \in Products : products[p] # None => Stamped(p)

\* The created_at of q is before that of p.
Precedes(q, p) == created[q] < created[p]

\* The rows.
Here == {p \in Products : Stored(p)}

LEMMA RowsHere ==
    /\ DOMAIN AllRows = Here
    /\ IsFiniteSet(Here)
<1>1. DOMAIN AllRows = Here
  BY DEF AllRows, Rows, Here
<1>2. Here \in SUBSET Products
  BY DEF Here
<1>3. IsFiniteSet(Here)
  BY <1>2, ProductsAssumption, FS_Subset
<1> QED
  BY <1>1, <1>3

\* The rows that come before p wherever the others are put.
Ahead(p) == {q \in Here : Precedes(q, p)}

Rank(p) == Cardinality(Ahead(p))

LEMMA AheadType ==
    ASSUME NEW p
    PROVE  IsFiniteSet(Ahead(p)) /\ Rank(p) \in Nat
<1>1. Ahead(p) \in SUBSET Here
  BY DEF Ahead
<1>2. IsFiniteSet(Ahead(p))
  BY <1>1, RowsHere, FS_Subset
<1> QED
  BY <1>2, FS_CardinalityType DEF Rank

\* A row that shares its created_at with no other is before or after each.
LEMMA BeforeOrders ==
    ASSUME Dated, NEW p \in Here, NEW q \in Here
    PROVE  /\ ~Precedes(p, p)
           /\ p # q /\ ~Shared(p) => Precedes(p, q) \/ Precedes(q, p)
           /\ \A r \in Here : Precedes(r, p) /\ Precedes(p, q) => Precedes(r, q)
<1>1. \A r \in Here : r \in Products /\ created[r] \in Nat /\ products[r] # None
  BY DEF Dated, Here, Stored
<1>2. p # q /\ ~Shared(p) => created[q] # created[p]
  BY <1>1 DEF Shared
<1> QED
  BY <1>1, <1>2 DEF Precedes

\* A row of an earlier date has a lower rank.
LEMMA RankLess ==
    ASSUME Dated, NEW p \in Here, NEW q \in Here, Precedes(p, q)
    PROVE  Rank(p) < Rank(q)
<1>1. /\ IsFiniteSet(Ahead(p)) /\ Rank(p) \in Nat
      /\ IsFiniteSet(Ahead(q)) /\ Rank(q) \in Nat
  BY AheadType
<1>2. p \notin Ahead(p)
  BY BeforeOrders DEF Ahead
<1>3. Ahead(p) \cup {p} \in SUBSET Ahead(q)
  BY BeforeOrders DEF Ahead
<1>4. Cardinality(Ahead(p) \cup {p}) = Cardinality(Ahead(p)) + 1
  BY <1>1, <1>2, FS_AddElement
<1>5. Cardinality(Ahead(p) \cup {p}) <= Cardinality(Ahead(q))
  BY <1>1, <1>3, FS_Subset
<1> QED
  BY <1>1, <1>4, <1>5 DEF Rank

LEMMA RankDistinct ==
    ASSUME Dated, NEW p \in Here, NEW q \in Here, ~Shared(p), Rank(p) = Rank(q)
    PROVE  p = q
<1>1. SUFFICES ASSUME p # q PROVE FALSE
  OBVIOUS
<1>2. Precedes(p, q) \/ Precedes(q, p)
  BY <1>1, BeforeOrders
<1>3. Rank(p) < Rank(q) \/ Rank(q) < Rank(p)
  BY <1>2, RankLess
<1> QED
  BY <1>3, AheadType

\* A query gives every row a place of its own, and leaves none free.
LEMMA PlaceType ==
    ASSUME NEW place \in Sortings
    PROVE  /\ Cardinality(Here) \in Nat
           /\ \A p \in Here : place[p] \in 0 .. Cardinality(Here) - 1
           /\ \A p, q \in Here : place[p] = place[q] => p = q
           /\ \A n \in 0 .. Cardinality(Here) - 1 : \E p \in Here : place[p] = n
           /\ \A p, q \in Here : Precedes(p, q) => place[p] < place[q]
<1>1. Cardinality(Here) \in Nat
  BY RowsHere, FS_CardinalityType
<1>2. /\ place \in Bijection(Here, 0 .. Cardinality(Here) - 1)
      /\ \A p, q \in Here : created[p] < created[q] => place[p] < place[q]
  BY RowsHere DEF Sortings
<1>3. /\ place \in [Here -> 0 .. Cardinality(Here) - 1]
      /\ \A p, q \in Here : place[p] = place[q] => p = q
      /\ \A n \in 0 .. Cardinality(Here) - 1 : \E p \in Here : place[p] = n
  BY <1>2 DEF Bijection, Injection, IsInjective, Surjection
<1> QED
  BY <1>1, <1>2, <1>3 DEF Precedes

\* Rows that are given as many places as there are in ranks are that many.
LEMMA PlacesCounted ==
    ASSUME NEW place \in Sortings, NEW rows \in SUBSET Here,
           NEW first \in Nat, NEW size \in Nat,
           \A p \in rows : place[p] \in first .. first + size - 1,
           \A n \in first .. first + size - 1 : \E p \in rows : place[p] = n
    PROVE  Cardinality(rows) = size
<1> DEFINE ranks == first .. first + size - 1
<1> DEFINE f == [p \in rows |-> place[p]]
<1>1. IsFiniteSet(ranks) /\ Cardinality(ranks) = size
  BY FS_Interval
<1> HIDE DEF ranks
<1>2. f \in [rows -> ranks]
  BY DEF ranks
<1>3. \A p, q \in rows : f[p] = f[q] => p = q
  BY PlaceType
<1>4. f \in Injection(rows, ranks)
  BY <1>2, <1>3 DEF Injection, IsInjective
<1>5. \A n \in ranks : \E p \in rows : f[p] = n
  BY DEF ranks
<1>6. f \in Surjection(rows, ranks)
  BY <1>2, <1>5 DEF Surjection
<1> HIDE DEF f
<1> QED
  BY <1>1, <1>4, <1>6, FS_Injection

\* A row that shares its created_at with no other has its place in any query.
LEMMA PlaceRank ==
    ASSUME Dated, NEW place \in Sortings, NEW p \in Here, ~Shared(p)
    PROVE  place[p] = Rank(p)
<1>1. /\ Cardinality(Here) \in Nat
      /\ \A q \in Here : place[q] \in 0 .. Cardinality(Here) - 1
      /\ \A n \in 0 .. Cardinality(Here) - 1 : \E q \in Here : place[q] = n
      /\ \A q, r \in Here : Precedes(q, r) => place[q] < place[r]
  BY PlaceType
<1>2. ASSUME NEW q \in Ahead(p) PROVE place[q] \in 0 .. 0 + place[p] - 1
  BY <1>1 DEF Ahead
<1>3. ASSUME NEW n \in 0 .. 0 + place[p] - 1 PROVE \E q \in Ahead(p) : place[q] = n
  <2>1. PICK q \in Here : place[q] = n
    BY <1>1
  <2>2. q # p /\ ~Precedes(p, q)
    BY <1>1, <2>1
  <2>3. Precedes(q, p)
    BY <2>2, BeforeOrders
  <2> QED
    BY <2>1, <2>3 DEF Ahead
<1>4. Ahead(p) \in SUBSET Here /\ place[p] \in Nat
  BY <1>1 DEF Ahead
<1>5. Cardinality(Ahead(p)) = place[p]
  BY <1>2, <1>3, <1>4, PlacesCounted
<1> QED
  BY <1>5 DEF Rank

\* A page is full as long as a row comes after it.
LEMMA PageFull ==
    ASSUME NEW place \in Sortings, NEW page \in Nat \ {0}, NEW size \in Nat \ {0},
           NEW p \in Here, ~(place[p] < page * size)
    PROVE  Cardinality(Page(place, page, size)) = size
<1> DEFINE first == (page - 1) * size
<1> DEFINE rows == Page(place, page, size)
<1>1. first \in Nat /\ page * size = first + size
  OBVIOUS
<1>2. rows = {q \in Here : place[q] \in first .. first + size - 1}
  BY <1>1, RowsHere DEF Page
<1> HIDE DEF first, rows
<1>3. /\ Cardinality(Here) \in Nat
      /\ place[p] \in 0 .. Cardinality(Here) - 1
      /\ \A n \in 0 .. Cardinality(Here) - 1 : \E q \in Here : place[q] = n
  BY PlaceType
<1>4. ~(place[p] < first + size)
  BY <1>1
<1>5. ASSUME NEW n \in first .. first + size - 1 PROVE \E q \in rows : place[q] = n
  <2>1. n \in 0 .. Cardinality(Here) - 1
    BY <1>1, <1>3, <1>4
  <2> QED
    BY <1>2, <1>3, <2>1
<1>6. Cardinality(rows) = size
  BY <1>1, <1>2, <1>5, PlacesCounted
<1> QED
  BY <1>6 DEF rows

(***************************************************************************)
(* Turning the pages while rows come and go.                               *)
(***************************************************************************)
Deleted == {p \in Products : products[p] = Gone}

\* Rows of start with a created_at of their own that were not got although the
\* offset has passed them.
Skipped(start, got, rank) ==
    {p \in start : Stored(p) /\ ~Shared(p) /\ p \notin got /\ Rank(p) < rank}

Missing(start, got) == {p \in start : Stored(p) /\ ~Shared(p)} \ got

\* Ids of rows that were there once.
Known(start) == start \subseteq Products /\ \A p \in start : products[p] # None

\* What a request may do to the catalog.
Edits ==
    /\ created' = created
    /\ \A p \in Products :
          /\ Stored(p)' <=> Stored(p)
          /\ products'[p] = Gone <=> products[p] = Gone
          /\ products'[p] = None <=> products[p] = None

Dates(p) ==
    /\ products' = products /\ ~Stamped(p)
    /\ \E now \in Times : created' = [created EXCEPT ![p] = now]

Inserts(p) ==
    /\ created' = created
    /\ products[p] = None /\ products'[p] \notin {None, Gone}
    /\ \A q \in Products \ {p} : products'[q] = products[q]

Removes(p) ==
    /\ created' = created
    /\ Stored(p) /\ products'[p] = Gone
    /\ \A q \in Products \ {p} : products'[q] = products[q]

LEMMA DatesOne ==
    ASSUME Dated, NEW p \in Products, Dates(p)
    PROVE  /\ created' \in [Products -> Nat]
           /\ Stamped(p)'
           /\ \A q \in Products : q # p => created'[q] = created[q]
<1>1. PICK now \in Times : created' = [created EXCEPT ![p] = now]
  BY DEF Dates
<1>2. now \in Nat /\ now # 0
  BY TimesAssumption
<1> QED
  BY <1>1, <1>2 DEF Dated, Stamped

\* Who shares a created_at shares it for ever.
LEMMA SharedStays ==
    ASSUME Dated, NEW x \in Products, Shared(x),
           Edits \/ \E p \in Products : Dates(p) \/ Inserts(p) \/ Removes(p)
    PROVE  Shared(x)'
<1>1. PICK q \in Products \ {x} : products[q] # None /\ created[q] = created[x]
  BY DEF Shared
<1>2. Stamped(q) /\ Stamped(x)
  BY <1>1 DEF Dated, Stamped
<1>3. products'[q] # None
  BY <1>1, MarksAssumption DEF Edits, Dates, Inserts, Removes
<1>4. created'[q] = created[q] /\ created'[x] = created[x]
  <2>1. ASSUME NEW p \in Products, Dates(p)
        PROVE  created'[q] = created[q] /\ created'[x] = created[x]
    BY <1>2, <2>1, DatesOne DEF Dates
  <2> QED
    BY <2>1 DEF Edits, Inserts, Removes
<1> QED
  BY <1>1, <1>3, <1>4 DEF Shared

\* A row's rank changes only as rows before it come and go.
LEMMA RanksStep ==
    ASSUME Dated, NEW x \in Here, Stored(x)'
    PROVE  /\ Edits => Ahead(x)' = Ahead(x)
           /\ \A p \in Products :
                /\ Dates(p) => Ahead(x)' = Ahead(x)
                /\ Inserts(p) => Ahead(x) \subseteq Ahead(x)'
                /\ Removes(p) => Ahead(x)' = Ahead(x) \ {p}
<1>1. /\ Ahead(x) = {q \in Here : Precedes(q, x)}
      /\ Ahead(x)' = {q \in Here' : Precedes(q, x)'}
  BY DEF Ahead
<1>2. created' = created => \A q : Precedes(q, x)' <=> Precedes(q, x)
  BY DEF Precedes
<1>3. Edits => Ahead(x)' = Ahead(x)
  BY <1>1, <1>2 DEF Edits, Here
<1>4. ASSUME NEW p \in Products, Dates(p) PROVE Ahead(x)' = Ahead(x)
  <2>1. Here' = Here
    BY <1>4 DEF Dates, Here, Stored
  <2>2. \A q \in Here : q \in Products /\ q # p
    BY <1>4 DEF Dates, Dated, Here, Stored
  <2>3. \A q \in Here : created'[q] = created[q]
    BY <1>4, <2>2, DatesOne
  <2> QED
    BY <1>1, <2>1, <2>3 DEF Precedes
<1>5. ASSUME NEW p \in Products, Inserts(p) PROVE Ahead(x) \subseteq Ahead(x)'
  <2>1. Here \subseteq Here'
    BY <1>5 DEF Inserts, Here, Stored
  <2> QED
    BY <1>1, <1>2, <1>5, <2>1 DEF Inserts
<1>6. ASSUME NEW p \in Products, Removes(p) PROVE Ahead(x)' = Ahead(x) \ {p}
  <2>1. Here' = Here \ {p}
    BY <1>6 DEF Removes, Here, Stored
  <2> QED
    BY <1>1, <1>2, <1>6, <2>1 DEF Removes
<1> QED
  BY <1>3, <1>4, <1>5, <1>6

LEMMA KnownStep ==
    ASSUME Dated, NEW start, Known(start), NEW got,
           Edits \/ \E p \in Products : Dates(p) \/ Inserts(p) \/ Removes(p)
    PROVE  /\ Known(start)'
           /\ \A p \in start : Stored(p)' => Stored(p)
           /\ \A p \in start : Shared(p) => Shared(p)'
           /\ Cardinality(Deleted) \in Nat
           /\ Deleted \subseteq Deleted'
           /\ Cardinality(Deleted) <= Cardinality(Deleted')
           /\ Cardinality(Missing(start, got)) <= Cardinality(Deleted)
                => Cardinality(Missing(start, got)') <= Cardinality(Deleted')
<1>1. /\ \A p \in Products : products[p] # None => products'[p] # None
      /\ \A p \in start : Stored(p)' => Stored(p)
      /\ \A p \in Products : products[p] = Gone => products'[p] = Gone
  <2>1. CASE Edits
    BY <2>1 DEF Edits, Known
  <2>2. CASE \E p \in Products : Dates(p)
    BY <2>2 DEF Dates, Known, Stored
  <2>3. CASE \E p \in Products : Inserts(p)
    BY <2>3, MarksAssumption DEF Inserts, Known, Stored
  <2>4. CASE \E p \in Products : Removes(p)
    BY <2>4, MarksAssumption DEF Removes, Known, Stored
  <2> QED
    BY <2>1, <2>2, <2>3, <2>4
<1>2. Known(start)'
  BY <1>1 DEF Known
<1>3. Deleted \subseteq Deleted' /\ Deleted' \in SUBSET Products
  BY <1>1 DEF Deleted
<1>4. /\ IsFiniteSet(Deleted') /\ IsFiniteSet(Deleted)
      /\ Cardinality(Deleted) <= Cardinality(Deleted')
      /\ Cardinality(Deleted) \in Nat /\ Cardinality(Deleted') \in Nat
  BY <1>3, ProductsAssumption, FS_Subset, FS_CardinalityType
<1>10. \A p \in start : Shared(p) => Shared(p)'
  BY SharedStays DEF Known
<1>5. Missing(start, got) \in SUBSET Products
  BY DEF Missing, Known
<1>6. Missing(start, got)' \in SUBSET Missing(start, got)
  BY <1>1, <1>10 DEF Missing
<1>7. IsFiniteSet(Missing(start, got))
  BY <1>5, ProductsAssumption, FS_Subset
<1>8. /\ IsFiniteSet(Missing(start, got)')
      /\ Cardinality(Missing(start, got)') <= Cardinality(Missing(start, got))
  BY <1>6, <1>7, FS_Subset
<1>9. /\ Cardinality(Missing(start, got)) \in Nat
      /\ Cardinality(Missing(start, got)') \in Nat
  BY <1>7, <1>8, FS_CardinalityType
<1> QED
  BY <1>1, <1>2, <1>3, <1>4, <1>8, <1>9, <1>10

\* A deletion moves at most one row that was not got before the offset.
LEMMA SkippedStep ==
    ASSUME Dated, NEW start, Known(start), NEW got, NEW rank \in Int,
           Cardinality(Skipped(start, got, rank)) <= Cardinality(Deleted),
           Edits \/ \E p \in Products : Dates(p) \/ Inserts(p) \/ Removes(p)
    PROVE  Cardinality(Skipped(start, got, rank)') <= Cardinality(Deleted')
<1> DEFINE now == Skipped(start, got, rank)
<1> DEFINE then == Skipped(start, got, rank)'
<1>1. /\ \A p \in start : Stored(p)' => Stored(p)
      /\ \A p \in start : Shared(p) => Shared(p)'
      /\ Cardinality(Deleted) \in Nat /\ Deleted \subseteq Deleted'
      /\ Cardinality(Deleted) <= Cardinality(Deleted')
  BY KnownStep
<1>2. now \in SUBSET Products /\ then \in SUBSET Products
  BY DEF Skipped, Known
<1>3. /\ IsFiniteSet(now) /\ Cardinality(now) \in Nat
      /\ IsFiniteSet(then) /\ Cardinality(then) \in Nat
      /\ IsFiniteSet(Deleted') /\ Cardinality(Deleted') \in Nat
  <2>1. Deleted' \in SUBSET Products
    BY DEF Deleted
  <2> QED
    BY <1>2, <2>1, ProductsAssumption, FS_Subset, FS_CardinalityType
<1>4. \A p \in start : Stored(p)' => p \in Here
  BY <1>1 DEF Known, Here
<1>5. ASSUME \A p \in start : Stored(p)' => Rank(p) <= Rank(p)'
      PROVE  Cardinality(then) <= Cardinality(Deleted')
  <2>1. ASSUME NEW p \in then PROVE p \in now
    <3>1. /\ p \in start /\ Stored(p)' /\ p \notin got /\ Rank(p)' < rank
          /\ Stored(p) /\ ~Shared(p) /\ Rank(p) <= Rank(p)'
      BY <1>1, <1>5 DEF Skipped
    <3>2. Rank(p) \in Nat /\ Rank(p)' \in Nat
      <4>1. Rank(p) \in Nat
        BY AheadType
      <4>2. Ahead(p)' \in SUBSET Products
        BY DEF Ahead, Here
      <4>3. IsFiniteSet(Ahead(p)')
        BY <4>2, ProductsAssumption, FS_Subset
      <4>4. Cardinality(Ahead(p)') \in Nat
        BY <4>3, FS_CardinalityType
      <4> QED
        BY <4>1, <4>4 DEF Rank
    <3> QED
      BY <3>1, <3>2 DEF Skipped
  <2>2. Cardinality(then) <= Cardinality(now)
    BY <1>3, <2>1, FS_Subset
  <2> HIDE DEF now, then
  <2> QED
    BY <1>1, <1>3, <2>2 DEF now
<1>6. CASE Edits \/ \E p \in Products : Dates(p)
  <2>1. ASSUME NEW x \in start, Stored(x)' PROVE Rank(x) <= Rank(x)'
    <3>1. Ahead(x)' = Ahead(x)
      BY <1>4, <1>6, <2>1, RanksStep
    <3>2. Rank(x) \in Nat
      BY AheadType
    <3> QED
      BY <3>1, <3>2 DEF Rank
  <2> QED
    BY <1>5, <2>1
<1>7. CASE \E p \in Products : Inserts(p)
  <2>1. ASSUME NEW x \in start, Stored(x)' PROVE Rank(x) <= Rank(x)'
    <3>1. Ahead(x) \in SUBSET Ahead(x)'
      BY <1>4, <1>7, <2>1, RanksStep
    <3>2. Ahead(x)' \in SUBSET Products
      BY DEF Ahead, Here
    <3>3. IsFiniteSet(Ahead(x)')
      BY <3>2, ProductsAssumption, FS_Subset
    <3> QED
      BY <3>1, <3>3, FS_Subset DEF Rank
  <2> QED
    BY <1>5, <2>1
<1>8. ASSUME NEW p \in Products, Removes(p)
      PROVE  Cardinality(then) <= Cardinality(Deleted')
  <2> DEFINE edge == {x \in Here : ~Shared(x) /\ Rank(x) = rank}
  <2>1. p \notin Deleted /\ p \in Deleted'
    BY <1>8 DEF Removes, Deleted, Stored
  <2>2. Cardinality(Deleted') >= Cardinality(Deleted) + 1
    <3>1. Deleted \in SUBSET Products
      BY DEF Deleted
    <3>2. IsFiniteSet(Deleted)
      BY <3>1, ProductsAssumption, FS_Subset
    <3>3. Cardinality(Deleted \cup {p}) = Cardinality(Deleted) + 1
      BY <2>1, <3>2, FS_AddElement
    <3>4. Deleted \cup {p} \in SUBSET Deleted'
      BY <1>1, <2>1
    <3>5. Cardinality(Deleted \cup {p}) <= Cardinality(Deleted')
      BY <1>3, <3>4, FS_Subset
    <3> QED
      BY <1>1, <1>3, <3>3, <3>5
  <2>3. ASSUME NEW x \in start, Stored(x)'
        PROVE  Rank(x)' = Rank(x) \/ Rank(x)' = Rank(x) - 1
    <3>1. Ahead(x)' = Ahead(x) \ {p}
      BY <1>4, <1>8, <2>3, RanksStep
    <3>2. IsFiniteSet(Ahead(x))
      BY AheadType
    <3> QED
      BY <3>1, <3>2, FS_RemoveElement DEF Rank
  <2>4. then \subseteq now \cup edge
    <3>1. ASSUME NEW x \in then, x \notin now PROVE x \in edge
      <4>1. /\ x \in start /\ Stored(x)' /\ x \notin got /\ Rank(x)' < rank
        BY <3>1 DEF Skipped
      <4>2. Stored(x) /\ ~Shared(x) /\ x \in Here
        BY <1>1, <1>4, <3>1, <4>1 DEF Skipped
      <4>3. ~(Rank(x) < rank)
        BY <3>1, <4>1, <4>2 DEF Skipped
      <4>4. Rank(x)' = Rank(x) \/ Rank(x)' = Rank(x) - 1
        BY <2>3, <4>1
      <4>5. Rank(x) \in Nat
        BY AheadType
      <4>6. Rank(x) = rank
        BY <4>1, <4>3, <4>4, <4>5
      <4> QED
        BY <4>2, <4>6
    <3> QED
      BY <3>1
  <2>5. \E x : now \cup edge \subseteq now \cup {x}
    <3>1. \A x, y \in edge : x = y
      BY RankDistinct
    <3> QED
      BY <3>1
  <2>6. PICK x : then \subseteq now \cup {x}
    BY <2>4, <2>5
  <2> HIDE DEF now, then
  <2>7. /\ IsFiniteSet(now \cup {x})
        /\ Cardinality(now \cup {x}) <= Cardinality(now) + 1
    <3>1. IsFiniteSet(now) /\ Cardinality(now) \in Nat
      BY <1>3
    <3>2. /\ IsFiniteSet(now \cup {x})
          /\ Cardinality(now \cup {x}) =
                IF x \in now THEN Cardinality(now) ELSE Cardinality(now) + 1
      BY <3>1, FS_AddElement
    <3> QED
      BY <3>1, <3>2
  <2>8. Cardinality(then) <= Cardinality(now \cup {x})
    BY <2>6, <2>7, FS_Subset
  <2>9. Cardinality(now \cup {x}) \in Nat
    BY <2>7, FS_CardinalityType
  <2>10. Cardinality(now) <= Cardinality(Deleted)
    BY DEF now
  <2> QED
    BY <1>1, <1>3, <2>2, <2>7, <2>8, <2>9, <2>10
<1> QED
  BY <1>6, <1>7, <1>8

\* q has not yet given its product a date.
Stamping(t, q) == Creating(t, q) /\ ~At(t, "insert_product")

\* A product gets its date before its row, and both from the only request that
\* creates it.
InTime ==
    /\ Dated
    /\ \A p \in Products : products[p] # None => Settled(p)
    /\ \A p \in Products : Stamped(p) =>
          \A t \in Slots : \A q \in Creates(t, p) : ~Stamping(t, q)
    /\ \A s \in Slots : At(s, "insert_product") => Stamped(Input(s).product)

LEMMA CreatesAlone ==
    ASSUME Kept, NEW s \in Slots, calls[s].pc \in {"stamp", "insert_product"}
    PROVE  /\ Input(s).product \in Products
           /\ Asked(s) \in Creates(s, Input(s).product)
           /\ Creating(s, Asked(s))
           /\ \A t \in Slots \ {s} : Creates(t, Input(s).product) = {}
<1>1. Asked(s).route = "CreateProduct" /\ ~At(s, "idle")
  BY Past DEF OnRoute
<1>2. Asked(s) \in scenario.requests[s] /\ scenario \in Scenarios
  BY <1>1 DEF Kept, Ongoing, Asked
<1>3. /\ Asked(s).input.product \in Products
      /\ \A t \in Slots \ {s} : \A r \in scenario.requests[t] :
            r.route = "CreateProduct" => r.input.product # Asked(s).input.product
  BY <1>1, <1>2, ScenariosAssumption
<1> QED
  BY <1>1, <1>2, <1>3 DEF Input, Creates, Creating

\* A product is inserted once.
LEMMA InsertsNew ==
    ASSUME Kept, Accounted, InTime, NEW s \in Slots, InsertProduct(s)
    PROVE  Input(s).product \in Products /\ Inserts(Input(s).product)
<1> DEFINE p == Input(s).product
<1>1. calls[s].pc = "insert_product" /\ Create(p, Input(s))
  BY Where DEF InsertProduct
<1>2. p \in Products /\ Asked(s) \in Creates(s, p) /\ Creating(s, Asked(s))
  BY <1>1, CreatesAlone
<1>3. products[p] = None
  BY <1>2 DEF InTime, Settled
<1>4. products = [q \in Products |-> products[q]]
  BY DEF Kept, Tabled
<1>5. /\ created' = created
      /\ products'[p] = [price |-> Input(s).price, currency |-> Input(s).currency,
                         active |-> TRUE]
      /\ \A q \in Products \ {p} : products'[q] = products[q]
  BY <1>1, <1>2, <1>4 DEF Create
<1>6. products'[p] \in CatalogRow
  BY <1>1, <1>5, RowAsked DEF Sellable
<1>7. products'[p] \notin {None, Gone}
  BY <1>6, RowsAssumption
<1> QED
  BY <1>2, <1>3, <1>5, <1>7 DEF Inserts

LEMMA DatesNew ==
    ASSUME Kept, InTime, NEW s \in Slots, StampProduct(s), ~Error(s)
    PROVE  Input(s).product \in Products /\ Dates(Input(s).product)
<1> DEFINE p == Input(s).product
<1>1. calls[s].pc = "stamp" /\ Stamp(p)
  BY Where DEF StampProduct
<1>2. p \in Products /\ Asked(s) \in Creates(s, p) /\ Creating(s, Asked(s))
  BY <1>1, CreatesAlone
<1>3. ~Stamped(p)
  BY <1>1, <1>2 DEF InTime, Stamping, At
<1> QED
  BY <1>1, <1>2, <1>3 DEF Stamp, Dates

LEMMA CatalogSteps ==
    ASSUME Kept, Accounted, InTime, NEW s \in Slots, SlotStep(s)
    PROVE  \/ Edits
           \/ InsertProduct(s) /\ Inserts(Input(s).product)
              /\ Input(s).product \in Products
           \/ StampProduct(s) /\ ~Error(s) /\ Dates(Input(s).product)
              /\ Input(s).product \in Products
           \/ \E p \in Products : Removes(p)
<1>1. CASE UNCHANGED catalogVars
  BY <1>1 DEF catalogVars, Edits, Stored
<1>2. CASE InsertProduct(s)
  BY <1>2, InsertsNew
<1>3. CASE StampProduct(s)
  <2>1. Error(s) => UNCHANGED catalogVars
    <3>1. Error(s) => calls'[s].pc # "insert_product"
      BY <1>3, ErrorErrs, Landing DEF StampProduct
    <3>2. Goto(s, "insert_product") => calls'[s].pc = "insert_product"
      <4>1. Whole(calls[s]) /\ calls = [t \in Slots |-> calls[t]]
        BY DEF Kept, Tabled, Ongoing
      <4> QED
        BY <4>1 DEF Goto, Whole
    <3> QED
      BY <1>3, <3>1, <3>2 DEF StampProduct
  <2> QED
    BY <1>1, <1>3, <2>1, DatesNew
<1>4. CASE UpdateProduct(s)
  <2> DEFINE p == Input(s).product
  <2>1. /\ calls[s].pc = "update_product" /\ Update(p, Input(s))
        /\ products = [q \in Products |-> products[q]]
    BY <1>4, Where DEF UpdateProduct, Kept, Tabled
  <2>2. CASE ~Stored(p)
    BY <1>1, <2>1, <2>2 DEF Update, catalogVars
  <2>3. CASE Stored(p)
    <3> DEFINE row == [price |-> Input(s).price, currency |-> Input(s).currency,
                       active |-> Input(s).active]
    <3>1. row \in CatalogRow
      BY <2>1, RowAsked DEF Sellable
    <3>2. row # None /\ row # Gone
      BY <3>1, RowsAssumption
    <3> HIDE DEF row
    <3>3. created' = created /\ products' = [products EXCEPT ![p] = row]
      BY <2>1, <2>3 DEF Update, row
    <3>4. ASSUME NEW q \in Products
          PROVE  products'[q] = products[q] \/ (q = p /\ products'[q] = row)
      BY <2>1, <3>3
    <3>5. Stored(p) => products[p] # None /\ products[p] # Gone
      BY DEF Stored
    <3> HIDE DEF p
    <3> QED
      BY <2>3, <3>2, <3>3, <3>4, <3>5 DEF Edits, Stored
  <2> QED
    BY <2>2, <2>3
<1>5. CASE DeleteProduct(s)
  <2> DEFINE p == Input(s).product
  <2>1. /\ Delete(p)
        /\ products = [q \in Products |-> products[q]]
    BY <1>5 DEF DeleteProduct, Kept, Tabled
  <2>2. CASE ~Stored(p) \/ p \notin Products
    <3>1. products' = products /\ created' = created
      BY <2>1, <2>2 DEF Delete
    <3> QED
      BY <1>1, <3>1 DEF catalogVars
  <2>3. CASE Stored(p) /\ p \in Products
    <3>1. Removes(p)
      BY <2>1, <2>3 DEF Delete, Removes
    <3> QED
      BY <2>3, <3>1
  <2> QED
    BY <2>2, <2>3
<1>6. \/ UNCHANGED catalogVars
      \/ InsertProduct(s) \/ StampProduct(s) \/ UpdateProduct(s) \/ DeleteProduct(s)
  <2>1. CASE Arrive(s) \/ Admit(s) \/ Expire(s) \/ Fail(s) \/ Reply(s) \/
            Elsewhere(s) \/ UserEmail(s)
    BY <2>1 DEF Arrive, Admit, Expire, Fail, Reply, Elsewhere, UserEmail
  <2>2. CASE GetProducts(s) \/ InsertOrder(s) \/ CreatePayment(s) \/
            SetPaymentInfo(s) \/ ViewCart(s)
    BY <2>2 DEF GetProducts, InsertOrder, CreatePayment, SetPaymentInfo, ViewCart
  <2>3. CASE ReadOrders(s) \/ DeleteOrder(s) \/ GetOrderToUpdate(s) \/
            SetStatus(s) \/ RereadOrder(s) \/ NotifyStatusChanged(s)
    BY <2>3 DEF ReadOrders, DeleteOrder, GetOrderToUpdate, SetStatus,
               RereadOrder, NotifyStatusChanged
  <2>4. CASE ReadPayments(s) \/ DeletePayment(s) \/ GetProduct(s)
            \/ RereadProduct(s) \/ CountProducts(s) \/ FindProducts(s)
            \/ TurnPage(s)
    BY <2>4 DEF ReadPayments, DeletePayment, GetProduct, RereadProduct,
               CountProducts, FindProducts, TurnPage
  <2> QED
    BY <2>1, <2>2, <2>3, <2>4 DEF SlotStep
<1> QED
  BY <1>1, <1>2, <1>3, <1>4, <1>5, <1>6

LEMMA InsertSettles ==
    ASSUME Kept, NEW s \in Slots, InsertProduct(s)
    PROVE  Settled(Input(s).product)'
<1> DEFINE p == Input(s).product
<1>1. calls[s].pc = "insert_product" /\ SlotStep(s)
  BY Where DEF SlotStep
<1>2. \A t \in Slots \ {s} : Creates(t, p) = {}
  BY <1>1, CreatesAlone
<1>3. calls'[s].pc = "reply"
  BY Lands
<1>4. scenario' = scenario
  BY <1>1, SlotKeeps DEF Keeps
<1>5. Input(s)' = Input(s)
  BY <1>1, Where, InputStays
<1> QED
  BY <1>2, <1>3, <1>4, <1>5 DEF Settled, Creates, Creating, At

\* A product that has its date gets no other.
LEMMA StampingStays ==
    ASSUME Kept, NEW s \in Slots, SlotStep(s), NEW q, q.route = "CreateProduct",
           Stamping(s, q)'
    PROVE  Stamping(s, q)
<1>1. Creating(s, q)
  BY CreatingStays DEF Stamping
<1>2. SUFFICES ASSUME calls[s].pc = "insert_product" PROVE FALSE
  BY <1>1 DEF Stamping, At
<1>3. CASE Expire(s)
  BY <1>2, <1>3, ExpireKeeps DEF Stamping, At
<1>4. CASE Fail(s) \/ InsertProduct(s)
  BY <1>4, Lands DEF Stamping, Creating, At
<1>5. CASE Arrive(s) \/ Admit(s) \/ Reply(s) \/ Elsewhere(s) \/ UserEmail(s)
           \/ GetProducts(s) \/ InsertOrder(s) \/ CreatePayment(s)
  BY <1>2, <1>5, Where
<1>6. CASE SetPaymentInfo(s) \/ ViewCart(s) \/ ReadOrders(s) \/ DeleteOrder(s)
           \/ GetOrderToUpdate(s) \/ SetStatus(s) \/ RereadOrder(s)
  BY <1>2, <1>6, Where
<1>7. CASE NotifyStatusChanged(s) \/ ReadPayments(s) \/ DeletePayment(s)
           \/ GetProduct(s) \/ UpdateProduct(s) \/ RereadProduct(s)
  BY <1>2, <1>7, Where
<1>8. CASE StampProduct(s) \/ DeleteProduct(s) \/ CountProducts(s)
           \/ FindProducts(s) \/ TurnPage(s)
  BY <1>2, <1>8, Where
<1> QED
  BY <1>3, <1>4, <1>5, <1>6, <1>7, <1>8 DEF SlotStep

LEMMA DatedStep ==
    ASSUME Kept, Accounted, InTime, NEW s \in Slots, SlotStep(s)
    PROVE  Dated'
<1>1. Dated
  BY DEF InTime
<1>2. CASE created' = created
  <2>1. \A p : Stamped(p)' <=> Stamped(p)
    BY <1>2 DEF Stamped
  <2>2. ASSUME NEW p \in Products, products'[p] # None PROVE Stamped(p)
    <3>1. CASE products[p] # None
      BY <1>1, <3>1 DEF Dated
    <3>2. CASE products[p] = None
      <4>1. InsertProduct(s) /\ p = Input(s).product
        <5>1. ~Edits /\ ~Dates(Input(s).product) /\ ~Removes(p)
          BY <2>2, <3>2 DEF Edits, Dates, Removes, Stored
        <5>2. \A q \in Products : ~Removes(q)
          BY <2>2, <3>2, <5>1 DEF Removes
        <5> QED
          BY <2>2, <3>2, <5>1, <5>2, CatalogSteps DEF Inserts
      <4> QED
        BY <4>1, Where DEF InTime, At
    <3> QED
      BY <3>1, <3>2
  <2> QED
    BY <1>1, <1>2, <2>1, <2>2 DEF Dated
<1>3. CASE created' # created
  <2>1. PICK p \in Products : Dates(p)
    BY <1>3, CatalogSteps DEF Edits, Inserts, Removes
  <2>2. /\ created' \in [Products -> Nat]
        /\ Stamped(p)' /\ \A q \in Products : q # p => created'[q] = created[q]
    BY <1>1, <2>1, DatesOne
  <2>3. products' = products
    BY <2>1 DEF Dates
  <2> QED
    BY <1>1, <2>2, <2>3 DEF Dated, Stamped
<1> QED
  BY <1>2, <1>3

LEMMA InTimeStep ==
    ASSUME Kept, Accounted, InTime, NEW s \in Slots, SlotStep(s)
    PROVE  InTime'
<1>1. Dated'
  BY DatedStep
<1>2. scenario' = scenario /\ \A t \in Slots \ {s} : calls'[t] = calls[t]
  BY SlotKeeps DEF Keeps, Rest
<1>3. \A p \in Products : Stamped(p) => Stamped(p)'
  <2>1. CASE created' = created
    BY <2>1 DEF Stamped
  <2>2. CASE created' # created
    <3>1. PICK q \in Products : Dates(q)
      BY <2>2, CatalogSteps DEF Edits, Inserts, Removes
    <3> QED
      BY <3>1, DatesOne DEF InTime, Stamped
  <2> QED
    BY <2>1, <2>2
<1>4. ASSUME NEW p \in Products, products'[p] # None PROVE Settled(p)'
  <2>1. CASE products[p] # None
    BY <2>1, SettledStays DEF InTime
  <2>2. CASE products[p] = None
    <3>1. InsertProduct(s) /\ p = Input(s).product
      <4>1. ~Edits /\ ~Dates(Input(s).product)
        BY <1>4, <2>2 DEF Edits, Dates
      <4>2. \A q \in Products : ~Removes(q)
        BY <1>4, <2>2 DEF Removes, Stored
      <4> QED
        BY <1>4, <2>2, <4>1, <4>2, CatalogSteps DEF Inserts
    <3> QED
      <4>1. PICK q \in Products : q = p
        OBVIOUS
      <4>2. Input(s)' = Input(s)
        BY <3>1, Where, InputStays
      <4>3. Settled(Input(s).product)'
        BY <3>1, InsertSettles
      <4>4. Input(s)'.product = p
        BY <3>1, <4>2
      <4> QED
        BY <4>3, <4>4 DEF Settled, Creates
  <2> QED
    BY <2>1, <2>2
<1>5. ASSUME NEW p \in Products, Stamped(p)',
             NEW t \in Slots, NEW q \in Creates(t, p), Stamping(t, q)'
      PROVE  FALSE
  <2>1. Stamping(t, q)
    <3>1. CASE t = s
      BY <1>5, <3>1, StampingStays DEF Creates
    <3>2. CASE t # s
      BY <1>2, <1>5, <3>2 DEF Stamping, Creating, At, Asked
    <3> QED
      BY <3>1, <3>2
  <2>2. ~Stamped(p)
    BY <2>1 DEF InTime
  <2>3. created' # created
    BY <1>5, <2>2 DEF Stamped
  <2>4. StampProduct(s) /\ ~Error(s) /\ Dates(Input(s).product)
    BY <2>3, CatalogSteps DEF Edits, Inserts, Removes
  <2>5. p = Input(s).product
    <3>1. Input(s).product \in Products
      BY <2>3, CatalogSteps DEF Edits, Inserts, Removes
    <3>2. \A r \in Products : r # Input(s).product => created'[r] = created[r]
      BY <2>4, <3>1, DatesOne DEF InTime
    <3> QED
      BY <1>5, <2>2, <3>2 DEF Stamped
  <2>6. calls[s].pc = "stamp" /\ calls'[s].pc = "insert_product"
    <3>1. Goto(s, "insert_product")
      BY <2>4 DEF StampProduct
    <3>2. Whole(calls[s]) /\ calls = [u \in Slots |-> calls[u]]
      BY DEF Kept, Tabled, Ongoing
    <3> QED
      BY <2>4, <3>1, <3>2, Where DEF Goto, Whole
  <2>7. t = s
    BY <1>5, <2>5, <2>6, CreatesAlone
  <2> QED
    BY <1>5, <2>6, <2>7 DEF Stamping, At
<1>6. ASSUME NEW t \in Slots, At(t, "insert_product")'
      PROVE  Stamped(Input(t).product)'
  <2>1. CASE At(t, "insert_product")
    <3>1. ~Arrive(s) \/ t # s
      BY <2>1, Where DEF At
    <3>2. Input(t)' = Input(t)
      BY <1>2, <3>1, InputStays DEF Input, Asked
    <3>3. Stamped(Input(t).product) /\ Input(t).product \in Products
      BY <2>1, CreatesAlone DEF InTime, At
    <3> QED
      BY <1>3, <3>2, <3>3 DEF Stamped
  <2>2. CASE ~At(t, "insert_product")
    <3>1. t = s
      BY <1>2, <1>6, <2>2 DEF At
    <3>2. StampProduct(s)
      BY <1>6, <2>2, <3>1, Comes, ExpireKeeps DEF At
    <3>3. ~Error(s)
      BY <1>6, <3>1, <3>2, ErrorErrs, Landing DEF StampProduct, At
    <3>4. Dates(Input(s).product) /\ Input(s).product \in Products
      BY <3>2, <3>3, DatesNew
    <3>5. Input(s)' = Input(s)
      BY <3>2, Where, InputStays
    <3>6. PICK p \in Products : p = Input(s).product
      BY <3>4
    <3>7. Stamped(p)'
      BY <1>1, <3>4, <3>6, DatesOne DEF InTime
    <3> QED
      BY <3>1, <3>5, <3>6, <3>7 DEF Stamped
  <2> QED
    BY <2>1, <2>2
<1>7. \A t \in Slots : \A p : Creates(t, p)' = Creates(t, p)
  BY <1>2 DEF Creates
<1> QED
  BY <1>1, <1>4, <1>5, <1>6, <1>7 DEF InTime

LEMMA InTimeInit == Init /\ Kept => InTime
<1> SUFFICES ASSUME Init, Kept PROVE InTime
  OBVIOUS
<1>1. /\ scenario \in Scenarios /\ products = scenario.products
      /\ created = scenario.created
      /\ \A s \in Slots : calls[s].pc = "idle"
  BY DEF Init, NoCall
<1>2. ASSUME NEW p \in Products PROVE Stamped(p) <=> products[p] # None
  BY <1>1, StoresAssumption DEF Stamped
<1>3. Dated
  <2>1. scenario.created \in [Products -> Times \cup {0}]
    BY <1>1, StoresAssumption
  <2>2. Times \cup {0} \subseteq Nat
    BY TimesAssumption
  <2>3. created \in [Products -> Nat]
    <3>1. created \in [Products -> Times \cup {0}]
      BY <1>1, <2>1
    <3> DEFINE shown == Times \cup {0}
    <3>2. created \in [Products -> shown] /\ shown \subseteq Nat
      BY <2>2, <3>1
    <3> HIDE DEF shown
    <3> QED
      BY <3>2
  <2> QED
    BY <1>2, <2>3 DEF Dated
<1>4. ASSUME NEW p \in Products, products[p] # None, NEW t \in Slots
      PROVE  Creates(t, p) = {}
  BY <1>1, <1>4, ScenariosAssumption DEF Creates
<1> QED
  BY <1>1, <1>2, <1>3, <1>4 DEF InTime, Settled, At

\* The page that was found skips little, and the last one misses little.
Found(hand, size) ==
    /\ hand.full =>
          Cardinality(Skipped(hand.start, hand.seen \cup hand.last,
                              hand.page * size)) <= Cardinality(Deleted)
    /\ ~hand.full =>
          Cardinality(Missing(hand.start, hand.seen \cup hand.last))
             <= Cardinality(Deleted)

\* So do the pages before it.
Browses(hand, size) ==
    /\ DOMAIN hand = {"page", "seen", "last", "full", "start"}
    /\ hand.page \in Nat \ {0}
    /\ Known(hand.start)
    /\ Cardinality(Skipped(hand.start, hand.seen, (hand.page - 1) * size))
          <= Cardinality(Deleted)

\* The pages a visitor has turned left out no more rows than were deleted, and
\* so does the one that is shown.
Paging(s) ==
    ~At(s, "idle") /\ Asked(s).route = "ListProducts" =>
        /\ calls[s].pc \in {"gateway", "count", "find", "reply", "done"}
        /\ Browses(calls[s].hand, Input(s).size)
        /\ At(s, "reply") \/ (At(s, "done") /\ calls[s].status = 200)
              => Found(calls[s].hand, Input(s).size)

LEMMA PageSize ==
    ASSUME Kept, NEW s \in Slots, ~At(s, "idle"), Asked(s).route = "ListProducts"
    PROVE  Input(s).size \in Int
<1>1. Asked(s) \in scenario.requests[s] /\ scenario \in Scenarios
  BY DEF Kept, Ongoing, Asked
<1> QED
  BY <1>1, InputsAssumption DEF Input

LEMMA BrowsesStep ==
    ASSUME Dated, NEW hand, NEW size \in Int, Browses(hand, size),
           Edits \/ \E p \in Products : Dates(p) \/ Inserts(p) \/ Removes(p)
    PROVE  /\ Browses(hand, size)'
           /\ Found(hand, size) => Found(hand, size)'
<1>1. /\ Known(hand.start) /\ hand.page \in Nat \ {0}
      /\ Cardinality(Skipped(hand.start, hand.seen, (hand.page - 1) * size))
            <= Cardinality(Deleted)
  BY DEF Browses
<1>2. (hand.page - 1) * size \in Int /\ hand.page * size \in Int
  BY <1>1
<1>3. Known(hand.start)'
  BY <1>1, KnownStep
<1>4. Cardinality(Skipped(hand.start, hand.seen, (hand.page - 1) * size)')
         <= Cardinality(Deleted')
  BY <1>1, <1>2, SkippedStep
<1>5. Browses(hand, size)'
  BY <1>1, <1>3, <1>4 DEF Browses
<1>6. ASSUME Found(hand, size), hand.full PROVE Found(hand, size)'
  <2>1. Cardinality(Skipped(hand.start, hand.seen \cup hand.last, hand.page * size))
           <= Cardinality(Deleted)
    BY <1>6 DEF Found
  <2>2. Cardinality(Skipped(hand.start, hand.seen \cup hand.last, hand.page * size)')
           <= Cardinality(Deleted')
    BY <1>1, <1>2, <2>1, SkippedStep
  <2> QED
    BY <1>6, <2>2 DEF Found
<1>7. ASSUME Found(hand, size), ~hand.full PROVE Found(hand, size)'
  <2>1. Cardinality(Missing(hand.start, hand.seen \cup hand.last))
           <= Cardinality(Deleted)
    BY <1>7 DEF Found
  <2>2. Cardinality(Missing(hand.start, hand.seen \cup hand.last)')
           <= Cardinality(Deleted')
    BY <1>1, <2>1, KnownStep
  <2> QED
    BY <1>7, <2>2 DEF Found
<1> QED
  BY <1>5, <1>6, <1>7

LEMMA Finite ==
    ASSUME NEW start, Known(start), NEW got
    PROVE  /\ IsFiniteSet(Deleted) /\ Cardinality(Deleted) \in Nat
           /\ IsFiniteSet(Missing(start, got))
           /\ Cardinality(Missing(start, got)) \in Nat
           /\ \A rank : /\ IsFiniteSet(Skipped(start, got, rank))
                        /\ Cardinality(Skipped(start, got, rank)) \in Nat
<1>1. /\ Deleted \in SUBSET Products
      /\ Missing(start, got) \in SUBSET Products
      /\ \A rank : Skipped(start, got, rank) \in SUBSET Products
  BY DEF Deleted, Missing, Skipped, Known
<1> QED
  BY <1>1, ProductsAssumption, FS_Subset, FS_CardinalityType

\* The page that is found leaves out no row between the last one and the next.
LEMMA PageFound ==
    ASSUME Dated, NEW hand, NEW size \in Int, NEW found, Browses(hand, size),
           NEW place \in Sortings,
           found = [hand EXCEPT !.last = Page(place, hand.page, size),
                      !.full = size > 0
                               /\ Cardinality(Page(place, hand.page, size)) = size]
    PROVE  Browses(found, size) /\ Found(found, size)
<1> DEFINE page == hand.page
<1> DEFINE rows == Page(place, page, size)
<1> DEFINE got == hand.seen \cup rows
<1> DEFINE turned == Skipped(hand.start, hand.seen, (page - 1) * size)
<1>1. /\ DOMAIN hand = {"page", "seen", "last", "full", "start"}
      /\ page \in Nat \ {0} /\ Known(hand.start)
      /\ Cardinality(turned) <= Cardinality(Deleted)
  BY DEF Browses
<1>2. /\ DOMAIN found = DOMAIN hand /\ found.page = page
      /\ found.seen = hand.seen /\ found.start = hand.start /\ found.last = rows
      /\ found.full <=> size > 0 /\ Cardinality(rows) = size
  BY <1>1
<1> HIDE DEF page, rows
<1>3. Browses(found, size)
  BY <1>1, <1>2 DEF Browses, page
<1>4. /\ IsFiniteSet(turned) /\ Cardinality(turned) \in Nat
      /\ Cardinality(Deleted) \in Nat
  BY <1>1, Finite
<1>5. \A p \in hand.start : Stored(p) => p \in Here
  BY <1>1 DEF Known, Here
<1>6. CASE size < 1
  <2>1. rows = Here
    BY <1>6, RowsHere DEF Page, rows
  <2>2. Missing(hand.start, got) = {}
    BY <1>5, <2>1 DEF Missing
  <2>3. Cardinality(Missing(hand.start, got)) = 0
    BY <2>2, FS_EmptySet
  <2>4. ~found.full
    BY <1>2, <1>6
  <2>5. Missing(found.start, found.seen \cup found.last) = Missing(hand.start, got)
    BY <1>2
  <2> HIDE DEF got
  <2>6. Cardinality(Missing(found.start, found.seen \cup found.last))
           <= Cardinality(Deleted)
    BY <1>4, <2>3, <2>5
  <2> QED
    BY <1>3, <2>4, <2>6 DEF Found
<1>7. CASE size >= 1
  <2>1. size \in Nat \ {0}
    BY <1>7
  <2>2. rows = {p \in Here : place[p] \in (page - 1) * size .. page * size - 1}
    BY <1>1, <1>7, RowsHere DEF Page, rows
  <2>3. ASSUME NEW p \in hand.start, Stored(p), ~Shared(p), p \notin got,
               Rank(p) < page * size
        PROVE  p \in turned
    <3>1. p \in Here /\ ~(Rank(p) \in (page - 1) * size .. page * size - 1)
      BY <1>5, <2>2, <2>3, PlaceRank
    <3>2. Rank(p) \in Nat
      BY AheadType
    <3>3. Rank(p) < (page - 1) * size
      <4> DEFINE a == (page - 1) * size
      <4> DEFINE b == page * size
      <4>1. a \in Int /\ b \in Int
        BY <1>1
      <4>2. ~(Rank(p) \in a .. b - 1) /\ Rank(p) < b
        BY <2>3, <3>1
      <4> HIDE DEF a, b
      <4>3. Rank(p) < a
        BY <3>2, <4>1, <4>2
      <4> QED
        BY <4>3 DEF a
    <3> QED
      BY <2>3, <3>3 DEF Skipped
  <2>4. CASE found.full
    <3>1. Skipped(hand.start, got, page * size) \in SUBSET turned
      BY <2>3 DEF Skipped
    <3>2. Cardinality(Skipped(hand.start, got, page * size)) <= Cardinality(turned)
      BY <1>4, <3>1, FS_Subset
    <3>3. Cardinality(Skipped(hand.start, got, page * size)) \in Nat
      BY <1>1, Finite
    <3> HIDE DEF turned, got
    <3>4. Cardinality(Skipped(hand.start, got, page * size)) <= Cardinality(Deleted)
      BY <1>1, <1>4, <3>2, <3>3
    <3>5. Skipped(found.start, found.seen \cup found.last, found.page * size)
             = Skipped(hand.start, got, page * size)
      BY <1>2 DEF got
    <3> QED
      BY <1>3, <2>4, <3>4, <3>5 DEF Found
  <2>5. CASE ~found.full
    <3>1. \A p \in Here : place[p] < page * size
      BY <1>1, <1>2, <2>1, <2>5, PageFull DEF rows
    <3>2. Missing(hand.start, got) \in SUBSET turned
      BY <1>5, <2>3, <3>1, PlaceRank DEF Missing
    <3>3. Cardinality(Missing(hand.start, got)) <= Cardinality(turned)
      BY <1>4, <3>2, FS_Subset
    <3>4. Cardinality(Missing(hand.start, got)) \in Nat
      BY <1>1, Finite
    <3> HIDE DEF turned, got
    <3>5. Cardinality(Missing(hand.start, got)) <= Cardinality(Deleted)
      BY <1>1, <1>4, <3>3, <3>4
    <3> QED
      BY <1>2, <1>3, <2>5, <3>5 DEF Found, got
  <2> QED
    BY <2>4, <2>5
<1> QED
  BY <1>6, <1>7

\* The next page begins where this one ended.
LEMMA PageTurned ==
    ASSUME NEW hand, NEW size \in Int, NEW turned, Browses(hand, size),
           Found(hand, size), hand.full,
           turned = [hand EXCEPT !.page = hand.page + 1,
                       !.seen = hand.seen \cup hand.last]
    PROVE  Browses(turned, size)
<1>1. /\ DOMAIN hand = {"page", "seen", "last", "full", "start"}
      /\ hand.page \in Nat \ {0} /\ Known(hand.start)
      /\ Cardinality(Skipped(hand.start, hand.seen \cup hand.last,
                             hand.page * size)) <= Cardinality(Deleted)
  BY DEF Browses, Found
<1>2. /\ DOMAIN turned = DOMAIN hand /\ turned.page = hand.page + 1
      /\ turned.seen = hand.seen \cup hand.last /\ turned.start = hand.start
  BY <1>1
<1>3. turned.page \in Nat \ {0} /\ turned.page - 1 = hand.page
  BY <1>1, <1>2
<1> QED
  BY <1>1, <1>2, <1>3 DEF Browses

LEMMA PageBegun ==
    ASSUME NEW hand, NEW size \in Int,
           hand = [page |-> 1, seen |-> {}, last |-> {}, full |-> FALSE,
                   start |-> DOMAIN AllRows]
    PROVE  Browses(hand, size)
<1>1. Known(hand.start)
  BY RowsHere DEF Known, Here, Stored
<1>2. Skipped(hand.start, hand.seen, (hand.page - 1) * size) = {}
  <2>1. (hand.page - 1) * size = 0
    OBVIOUS
  <2>2. \A p : Rank(p) \in Nat
    BY AheadType
  <2>3. \A p : ~(Rank(p) < 0)
    BY <2>2
  <2> QED
    BY <2>1, <2>3 DEF Skipped
<1>3. Cardinality(Skipped(hand.start, hand.seen, (hand.page - 1) * size)) = 0
  BY <1>2, FS_EmptySet
<1>4. Cardinality(Deleted) \in Nat
  BY <1>1, Finite
<1> QED
  BY <1>1, <1>3, <1>4 DEF Browses

\* The statements that change the catalog belong to requests of other routes.
LEMMA PagingRest ==
    ASSUME Kept, InTime, NEW t \in Slots, Paging(t),
           calls'[t] = calls[t],
           Edits \/ \E p \in Products : Dates(p) \/ Inserts(p) \/ Removes(p)
    PROVE  Paging(t)'
<1>1. Input(t)' = Input(t) /\ Asked(t)' = Asked(t)
  BY DEF Input, Asked
<1>2. SUFFICES ASSUME ~At(t, "idle"), Asked(t).route = "ListProducts"
               PROVE  Paging(t)'
  BY <1>1 DEF Paging, At
<1>3. PICK hand, size : hand = calls[t].hand /\ size = Input(t).size
  OBVIOUS
<1>4. size \in Int
  BY <1>2, <1>3, PageSize
<1>5. /\ calls[t].pc \in {"gateway", "count", "find", "reply", "done"}
      /\ Browses(hand, size)
      /\ At(t, "reply") \/ (At(t, "done") /\ calls[t].status = 200)
            => Found(hand, size)
  BY <1>2, <1>3 DEF Paging
<1>6. Browses(hand, size)' /\ (Found(hand, size) => Found(hand, size)')
  BY <1>4, <1>5, BrowsesStep DEF InTime
<1>7. calls'[t].hand = hand /\ Input(t)'.size = size
  BY <1>1, <1>3
<1>8. Browses(calls[t].hand, Input(t).size)'
  BY <1>6, <1>7 DEF Browses, Known, Skipped
<1>9. Found(hand, size)' => Found(calls[t].hand, Input(t).size)'
  BY <1>7 DEF Found, Missing, Skipped
<1> QED
  BY <1>5, <1>6, <1>8, <1>9 DEF Paging, At

LEMMA FindHand ==
    ASSUME Kept, NEW s \in Slots, FindProducts(s)
    PROVE  \E place \in Sortings : \E found :
              /\ calls'[s].hand = found
              /\ found = [calls[s].hand EXCEPT
                     !.last = Page(place, calls[s].hand.page, Input(s).size),
                     !.full = Input(s).size > 0
                        /\ Cardinality(Page(place, calls[s].hand.page, Input(s).size))
                              = Input(s).size]
<1>1. Whole(calls[s]) /\ calls = [t \in Slots |-> calls[t]]
  BY DEF Kept, Tabled, Ongoing
<1> DEFINE rows(place) == Page(place, calls[s].hand.page, Input(s).size)
<1> DEFINE full(place) ==
      Input(s).size > 0 /\ Cardinality(rows(place)) = Input(s).size
<1>2. PICK place \in Sortings :
         calls' = [calls EXCEPT ![s].pc = "reply", ![s].hand.last = rows(place),
                                ![s].hand.full = full(place)]
  BY DEF FindProducts
<1> HIDE DEF rows, full
<1>3. calls'[s].hand =
         [calls[s].hand EXCEPT !.last = rows(place), !.full = full(place)]
  BY <1>1, <1>2 DEF Whole
<1> QED
  BY <1>3 DEF rows, full

\* What the visitor has in hand after turning the page.
Turned(s, hand) ==
    /\ calls[s].status = 200 =>
         calls'[s].hand = [hand EXCEPT !.page = hand.page + 1,
                                       !.seen = hand.seen \cup hand.last]
    /\ calls[s].status # 200 =>
         calls'[s].hand = [hand EXCEPT !.page = hand.page, !.seen = hand.seen]

LEMMA TurnHand ==
    ASSUME Kept, NEW s \in Slots, TurnPage(s)
    PROVE  \E hand : hand = calls[s].hand /\ Turned(s, hand)
<1>0. PICK hand : hand = calls[s].hand
  OBVIOUS
<1>4. SUFFICES Turned(s, hand)
  BY <1>0
<1>1. Whole(calls[s]) /\ calls = [t \in Slots |-> calls[t]]
  BY DEF Kept, Tabled, Ongoing
<1>2. CASE calls[s].status = 200
  <2>1. calls' = [calls EXCEPT ![s].pc = "gateway", ![s].status = 0,
                    ![s].hand.page = hand.page + 1,
                    ![s].hand.seen = hand.seen \cup hand.last]
    BY <1>0, <1>2 DEF TurnPage, Seen
  <2> QED
    BY <1>0, <1>1, <1>2, <2>1 DEF Whole, Turned
<1>3. CASE calls[s].status # 200
  <2>1. calls' = [calls EXCEPT ![s].pc = "gateway", ![s].status = 0,
                    ![s].hand.page = hand.page,
                    ![s].hand.seen = hand.seen]
    BY <1>0, <1>3 DEF TurnPage, Seen
  <2> QED
    BY <1>0, <1>1, <1>3, <2>1 DEF Whole, Turned
<1> QED
  BY <1>2, <1>3

\* With the catalog as it was.
LEMMA Frozen ==
    ASSUME UNCHANGED catalogVars, NEW hand, NEW size
    PROVE  /\ Browses(hand, size) => Browses(hand, size)'
           /\ Found(hand, size) => Found(hand, size)'
<1>1. /\ \A p : Stored(p)' <=> Stored(p)
      /\ \A p : Rank(p)' = Rank(p)
      /\ \A p : Shared(p)' <=> Shared(p)
      /\ Deleted' = Deleted
      /\ Known(hand.start)' <=> Known(hand.start)
  <2>1. \A p : Stored(p)' <=> Stored(p)
    BY DEF Stored, catalogVars
  <2>2. ASSUME NEW p PROVE Ahead(p)' = Ahead(p)
    BY <2>1 DEF Ahead, Here, Precedes, catalogVars
  <2> QED
    BY <2>1, <2>2 DEF Rank, Deleted, Known, Shared, catalogVars
<1>2. \A got, rank : /\ Skipped(hand.start, got, rank)' = Skipped(hand.start, got, rank)
                     /\ Missing(hand.start, got)' = Missing(hand.start, got)
  BY <1>1 DEF Skipped, Missing
<1>3. Browses(hand, size) => Browses(hand, size)'
  BY <1>1, <1>2 DEF Browses
<1>4. Found(hand, size) => Found(hand, size)'
  BY <1>1, <1>2 DEF Found
<1> QED
  BY <1>3, <1>4

LEMMA PagingOwn ==
    ASSUME Kept, Truthful, InTime, NEW s \in Slots, SlotStep(s), Paging(s),
           ~Expire(s)
    PROVE  Paging(s)'
<1>1. CASE Arrive(s)
  <2>1. SUFFICES ASSUME Asked(s)'.route = "ListProducts" PROVE Paging(s)'
    BY DEF Paging
  <2>2. PICK q \in scenario.requests[s] : calls' = [calls EXCEPT ![s] =
                    [NoCall EXCEPT !.request = q, !.pc = "gateway", !.hand = Before(q)]]
    BY <1>1 DEF Arrive
  <2>3. calls = [t \in Slots |-> calls[t]]
    BY DEF Kept, Tabled
  <2>4. /\ Asked(s)' = q /\ calls'[s].pc = "gateway" /\ calls'[s].hand = Before(q)
    BY <2>2, <2>3 DEF Asked, NoCall
  <2>5. PICK hand : hand = [page |-> 1, seen |-> {}, last |-> {}, full |-> FALSE,
                            start |-> DOMAIN AllRows]
    OBVIOUS
  <2>6. Before(q) = hand
    BY <2>1, <2>4, <2>5 DEF Before
  <2>7. PICK size : size = Input(s)'.size
    OBVIOUS
  <2>8. size \in Int
    <3>1. scenario \in Scenarios
      BY DEF Kept
    <3>2. q.route = "ListProducts"
      BY <2>1, <2>4
    <3>3. q.input.size \in Int
      BY <2>2, <3>1, <3>2, InputsAssumption
    <3> QED
      BY <2>4, <2>7, <3>3 DEF Input
  <2>9. Browses(hand, size)'
    <3>1. UNCHANGED catalogVars
      BY <1>1 DEF Arrive
    <3> QED
      BY <2>5, <2>8, <3>1, PageBegun, Frozen
  <2>10. Browses(calls[s].hand, Input(s).size)'
    BY <2>4, <2>6, <2>7, <2>9 DEF Browses, Known, Skipped
  <2> QED
    BY <2>4, <2>10 DEF Paging, At
<1>2. CASE ~Arrive(s)
  <2>1. Asked(s)' = Asked(s) /\ Input(s)' = Input(s)
    BY <1>2, InputStays
  <2>2. SUFFICES ASSUME ~At(s, "idle"), Asked(s).route = "ListProducts"
                 PROVE  Paging(s)'
    <3>1. At(s, "idle") => Arrive(s) \/ Expire(s)
      <4>1. calls[s].pc = "idle" => (SlotStep(s) => Arrive(s) \/ Expire(s))
        <5>1. calls[s].pc = "idle" =>
                ~(Admit(s) \/ Fail(s) \/ Reply(s) \/ Elsewhere(s) \/ UserEmail(s)
                  \/ GetProducts(s) \/ InsertOrder(s) \/ CreatePayment(s)
                  \/ SetPaymentInfo(s) \/ ViewCart(s))
          BY Where
        <5>2. calls[s].pc = "idle" =>
                ~(ReadOrders(s) \/ DeleteOrder(s) \/ GetOrderToUpdate(s)
                  \/ SetStatus(s) \/ RereadOrder(s) \/ NotifyStatusChanged(s)
                  \/ ReadPayments(s) \/ DeletePayment(s) \/ GetProduct(s))
          BY Where
        <5>3. calls[s].pc = "idle" =>
                ~(UpdateProduct(s) \/ RereadProduct(s) \/ StampProduct(s)
                  \/ InsertProduct(s) \/ DeleteProduct(s) \/ CountProducts(s)
                  \/ FindProducts(s) \/ TurnPage(s))
          BY Where
        <5> QED
          BY <5>1, <5>2, <5>3 DEF SlotStep
      <4> QED
        BY <4>1 DEF At
    <3> QED
      BY <1>2, <2>1, <3>1 DEF Paging
  <2>3. PICK hand, size : hand = calls[s].hand /\ size = Input(s).size
    OBVIOUS
  <2>4. size \in Int
    BY <2>2, <2>3, PageSize
  <2>5. /\ calls[s].pc \in {"gateway", "count", "find", "reply", "done"}
        /\ Browses(hand, size)
        /\ At(s, "reply") \/ (At(s, "done") /\ calls[s].status = 200)
              => Found(hand, size)
    BY <2>2, <2>3 DEF Paging
  <2>6. SUFFICES ASSUME NEW h, h = calls'[s].hand
                 PROVE  /\ calls'[s].pc \in {"gateway", "count", "find", "reply", "done"}
                        /\ Browses(h, size)'
                        /\ calls'[s].pc = "reply"
                           \/ (calls'[s].pc = "done" /\ calls'[s].status = 200)
                           => Found(h, size)'
    <3>1. PICK h : h = calls'[s].hand
      OBVIOUS
    <3>2. /\ calls'[s].pc \in {"gateway", "count", "find", "reply", "done"}
          /\ Browses(h, size)'
          /\ calls'[s].pc = "reply"
             \/ (calls'[s].pc = "done" /\ calls'[s].status = 200) => Found(h, size)'
      BY <2>6, <3>1
    <3>3. calls'[s].hand = h /\ Input(s)'.size = size
      BY <2>1, <2>3, <3>1
    <3>4. Browses(calls[s].hand, Input(s).size)'
      BY <3>2, <3>3 DEF Browses, Known, Skipped
    <3>5. Found(h, size)' => Found(calls[s].hand, Input(s).size)'
      BY <3>3 DEF Found, Missing, Skipped
    <3> QED
      BY <3>2, <3>4, <3>5 DEF Paging, At
  <2>7. CASE Admit(s)
    <3>1. UNCHANGED catalogVars /\ h = hand
      BY <2>3, <2>6, <2>7, HandStays DEF Admit
    <3>2. calls'[s].pc \in {"count", "done"}
      <4>1. First(Asked(s)) = "count"
        BY <2>2 DEF First
      <4> QED
        BY <2>7, <4>1, AdmitKeeps
    <3>3. calls'[s].pc = "done" => calls'[s].status # 200
      <4>1. CASE Moves(s, First(Asked(s)))
        <5>1. First(Asked(s)) = "count"
          BY <2>2 DEF First
        <5> QED
          BY <4>1, <5>1, MovesFields
      <4>2. ASSUME NEW refusal \in {400, 401, 403}, Ends(s, refusal)
            PROVE  calls'[s].status # 200
        BY <4>2, BecomesFields DEF Ends
      <4> QED
        BY <2>7, <4>1, <4>2, AdmitKeeps
    <3> QED
      BY <2>5, <3>1, <3>2, <3>3, Frozen
  <2>8. CASE Fail(s)
    <3>1. UNCHANGED catalogVars /\ h = hand
      BY <2>3, <2>6, <2>8, HandStays DEF Fail
    <3>2. Ends(s, Routes[Asked(s).route].error)
      BY <2>8, Becoming DEF Errs
    <3>3. Routes[Asked(s).route].error \in {400, 500}
      BY <2>2, Asks
    <3>4. calls'[s].pc = "done" /\ calls'[s].status # 200
      BY <3>2, <3>3, BecomesFields DEF Ends
    <3> QED
      BY <2>5, <3>1, <3>4, Frozen
  <2>9. CASE Reply(s)
    <3>1. UNCHANGED catalogVars /\ h = hand
      BY <2>3, <2>6, <2>9, HandStays DEF Reply
    <3>2. calls[s].pc = "reply" /\ calls'[s].pc = "done"
      BY <2>9, Where, Lands
    <3> QED
      BY <2>5, <3>1, <3>2, Frozen DEF At
  <2>10. CASE CountProducts(s)
    <3>1. UNCHANGED catalogVars /\ h = hand
      BY <2>3, <2>6, <2>10, HandStays DEF CountProducts
    <3>2. calls'[s].pc = "find"
      BY <2>10, Lands
    <3> QED
      BY <2>5, <3>1, <3>2, Frozen
  <2>11. CASE FindProducts(s)
    <3>1. UNCHANGED catalogVars
      BY <2>11 DEF FindProducts
    <3>5. PICK place \in Sortings : \E found :
             /\ calls'[s].hand = found
             /\ found = [calls[s].hand EXCEPT
                    !.last = Page(place, calls[s].hand.page, Input(s).size),
                    !.full = Input(s).size > 0
                       /\ Cardinality(Page(place, calls[s].hand.page, Input(s).size))
                             = Input(s).size]
      BY <2>11, FindHand
    <3>2. h = [hand EXCEPT !.last = Page(place, hand.page, size),
                 !.full = size > 0
                          /\ Cardinality(Page(place, hand.page, size)) = size]
      BY <2>3, <2>6, <3>5
    <3>3. Browses(h, size) /\ Found(h, size)
      BY <2>4, <2>5, <3>2, PageFound DEF InTime
    <3>4. calls'[s].pc = "reply"
      BY <2>11, Lands
    <3> QED
      BY <3>1, <3>3, <3>4, Frozen
  <2>12. CASE TurnPage(s)
    <3>1. UNCHANGED catalogVars
      BY <2>12 DEF TurnPage
    <3>2. calls'[s].pc = "gateway"
      BY <2>12, Lands
    <3>3. CASE calls[s].status = 200
      <4>1. Found(hand, size) /\ hand.full
        BY <2>3, <2>5, <2>12, <3>3 DEF TurnPage
      <4>2. h = [hand EXCEPT !.page = hand.page + 1,
                             !.seen = hand.seen \cup hand.last]
        <5>1. Turned(s, hand)
          BY <2>3, <2>12, TurnHand
        <5> QED
          BY <2>6, <3>3, <5>1 DEF Turned
      <4>3. Browses(h, size)
        BY <2>4, <2>5, <4>1, <4>2, PageTurned
      <4> QED
        BY <3>1, <3>2, <4>3, Frozen
    <3>4. CASE calls[s].status # 200
      <4>1. h = [hand EXCEPT !.page = hand.page, !.seen = hand.seen]
        <5>1. Turned(s, hand)
          BY <2>3, <2>12, TurnHand
        <5> QED
          BY <2>6, <3>4, <5>1 DEF Turned
      <4>2. DOMAIN hand = {"page", "seen", "last", "full", "start"}
        BY <2>5 DEF Browses
      <4>3. /\ DOMAIN h = DOMAIN hand /\ h.page = hand.page
            /\ h.seen = hand.seen /\ h.start = hand.start
        BY <4>1, <4>2
      <4>4. Browses(h, size)
        BY <2>5, <4>3 DEF Browses
      <4> QED
        BY <3>1, <3>2, <4>4, Frozen
    <3> QED
      BY <3>3, <3>4
  <2>13. ~(Elsewhere(s) \/ UserEmail(s) \/ GetProducts(s) \/ InsertOrder(s)
           \/ CreatePayment(s) \/ SetPaymentInfo(s) \/ ViewCart(s))
    BY <2>5, Where
  <2>14. ~(ReadOrders(s) \/ DeleteOrder(s) \/ GetOrderToUpdate(s) \/ SetStatus(s)
           \/ RereadOrder(s) \/ NotifyStatusChanged(s) \/ ReadPayments(s))
    BY <2>5, Where
  <2>15. ~(DeletePayment(s) \/ GetProduct(s) \/ UpdateProduct(s)
           \/ RereadProduct(s) \/ StampProduct(s) \/ InsertProduct(s)
           \/ DeleteProduct(s))
    BY <2>5, Where
  <2> QED
    BY <1>2, <2>7, <2>8, <2>9, <2>10, <2>11, <2>12, <2>13, <2>14, <2>15
       DEF SlotStep
<1> QED
  BY <1>1, <1>2

\* What PagesMissLittle rests on.
PagesKept == InTime /\ \A s \in Slots : Paging(s)

LEMMA PagingStep ==
    ASSUME Kept, Truthful, Accounted, PagesKept,
           NEW s \in Slots, SlotStep(s), NEW t \in Slots
    PROVE  Paging(t)'
<1>1. InTime /\ Paging(t) /\ Paging(s)
  BY DEF PagesKept
<1>2. Edits \/ \E p \in Products : Dates(p) \/ Inserts(p) \/ Removes(p)
  BY <1>1, CatalogSteps
<1>3. CASE calls'[t] = calls[t]
  BY <1>1, <1>2, <1>3, PagingRest
<1>4. CASE t # s
  <2>1. calls'[t] = calls[t]
    BY <1>4, SlotKeeps DEF Keeps, Rest
  <2> QED
    BY <1>3, <2>1
<1>5. CASE t = s /\ Expire(s)
  <2>1. calls'[t] = calls[t]
    BY <1>5, ExpireKeeps
  <2> QED
    BY <1>3, <2>1
<1>6. CASE t = s /\ ~Expire(s)
  <2>1. Paging(s)'
    BY <1>1, <1>6, PagingOwn
  <2> QED
    BY <1>6, <2>1
<1> QED
  BY <1>4, <1>5, <1>6

\* Payments and mails touch neither the catalog nor a request.
LEMMA OutsidePages ==
    ASSUME Kept, PagesKept, Outside \/ UNCHANGED vars
    PROVE  PagesKept'
<1>1. UNCHANGED <<scenario, calls, products, created>>
  <2>1. CASE \E k \in Keys : Pay(k) \/ Webhook(k)
    BY <2>1 DEF Pay, Webhook, catalogVars
  <2>2. CASE \E e \in events : MailReceipt(e) \/ MailStatus(e)
    BY <2>2 DEF MailReceipt, MailStatus, catalogVars
  <2>3. CASE UNCHANGED vars
    BY <2>3 DEF vars, catalogVars
  <2> QED
    BY <2>1, <2>2, <2>3 DEF Outside
<1>2. Edits
  BY <1>1 DEF Edits, Stored
<1>3. \A s \in Slots : Paging(s)'
  BY <1>1, <1>2, PagingRest DEF PagesKept
<1>4. InTime'
  <2>1. Dated' /\ \A p : Stamped(p)' <=> Stamped(p)
    BY <1>1 DEF PagesKept, InTime, Dated, Stamped
  <2>2. \A t \in Slots : Asked(t)' = Asked(t) /\ \A pc : At(t, pc)' <=> At(t, pc)
    BY <1>1 DEF Asked, At
  <2>3. \A t \in Slots : \A q : Creating(t, q)' <=> Creating(t, q)
    BY <1>1 DEF Creating, At, Asked
  <2>4. \A t \in Slots : \A p : Creates(t, p)' = Creates(t, p)
    BY <1>1 DEF Creates
  <2>5. \A p \in Products : Settled(p)' <=> Settled(p)
    BY <2>3, <2>4 DEF Settled
  <2>6. \A t \in Slots : \A q : Stamping(t, q)' <=> Stamping(t, q)
    BY <2>2, <2>3 DEF Stamping
  <2>7. \A t \in Slots : Input(t)' = Input(t)
    BY <2>2 DEF Input
  <2> QED
    BY <1>1, <2>1, <2>2, <2>4, <2>5, <2>6, <2>7 DEF PagesKept, InTime
<1> QED
  BY <1>3, <1>4 DEF PagesKept

LEMMA PagesInit == Init /\ Kept => PagesKept
<1> SUFFICES ASSUME Init, Kept PROVE PagesKept
  OBVIOUS
<1>1. \A s \in Slots : At(s, "idle")
  BY DEF Init, NoCall, At
<1> QED
  BY <1>1, InTimeInit DEF PagesKept, Paging

LEMMA PagesStep ==
    Kept /\ Truthful /\ Accounted /\ PagesKept /\ [Next]_vars => PagesKept'
<1> SUFFICES ASSUME Kept, Truthful, Accounted, PagesKept, [Next]_vars
             PROVE  PagesKept'
  OBVIOUS
<1>1. ASSUME NEW s \in Slots, SlotStep(s) PROVE PagesKept'
  <2>1. InTime'
    BY <1>1, InTimeStep DEF PagesKept
  <2>2. \A t \in Slots : Paging(t)'
    BY <1>1, PagingStep
  <2> QED
    BY <2>1, <2>2 DEF PagesKept
<1>2. CASE Outside \/ UNCHANGED vars
  BY <1>2, OutsidePages
<1> QED
  BY <1>1, <1>2 DEF Next, Outside

\* PagesMissLittle: paging by offset misses no more of the products that were
\* there at the start than were deleted meanwhile; products created in between
\* only push rows to later pages (catalog/internal/db/repo.go List).
THEOREM PagesMissLittleAlways == Spec => []PagesMissLittle
<1>1. Init => Kept /\ Truthful /\ Accounted /\ PagesKept
  BY KeptInit, TruthfulInit, AccountedInit, PagesInit
<1>2. (Kept /\ Truthful /\ Accounted /\ PagesKept) /\ [Next]_vars
      => (Kept /\ Truthful /\ Accounted /\ PagesKept)'
  BY KeptStep, TruthfulStep, AccountedStep, PagesStep
<1>3. PagesKept => PagesMissLittle
  <2> SUFFICES ASSUME PagesKept, NEW s \in Slots, At(s, "done"),
                      Asked(s).route = "ListProducts", calls[s].status = 200,
                      ~calls[s].hand.full
               PROVE  Cardinality(Missing(calls[s].hand.start, Seen(s)))
                         <= Cardinality(Deleted)
    BY DEF PagesMissLittle, Missing, Deleted
  <2>1. ~At(s, "idle")
    BY DEF At
  <2>2. Found(calls[s].hand, Input(s).size)
    BY <2>1 DEF PagesKept, Paging
  <2> QED
    BY <2>2 DEF Found, Seen
<1> QED
  BY <1>1, <1>2, <1>3, PTL DEF Spec
=============================================================================
