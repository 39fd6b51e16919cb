---------------------------- MODULE MCStorefront ----------------------------
EXTENDS Storefront, TLC

MCSlots == {"a", "b", "c"}
MCProducts == {"mug", "desk", "lamp", "rug"}
MCTimes == 1..3

Product(price, currency, active) ==
    [price |-> price, currency |-> currency, active |-> active]
Edit(p, price, active) ==
    [product |-> p, named |-> TRUE, price |-> price, currency |-> "usd",
     active |-> active]
Item(p, quantity) == [product |-> p, quantity |-> quantity]

By(user, role, route, input) ==
    [route |-> route, user |-> user, role |-> role, cookie |-> TRUE,
     bound |-> TRUE, input |-> input]

\* The created_at of the products in the shop.
Stamps(mug, desk, lamp) ==
    [mug |-> mug, desk |-> desk, lamp |-> lamp, rug |-> 0]

Shop ==
    [mug |-> Product(5, "usd", TRUE), desk |-> Product(400000, "USD", TRUE),
     lamp |-> Product(120, "jpy", TRUE), rug |-> None]

EarlierOrder ==
    [user |-> "ann", email |-> TRUE,
     items |-> <<[product |-> "mug", quantity |-> 2, price |-> 5]>>,
     total |-> 10, currency |-> "USD", status |-> "pending", payment |-> TRUE]

\* Baskets: plain, several pieces, a total that wraps around and stays positive,
\* one that turns negative, mixed currencies, none, and things not sold.
Baskets ==
    {<<Item("mug", 3), Item("desk", 1)>>, <<Item("lamp", 12)>>,
     <<Item("desk", 3)>>, <<Item("desk", 2), Item("mug", 1)>>,
     <<Item("desk", 4096)>>,
     <<Item("mug", 1), Item("lamp", 1)>>, <<>>, <<Item("rug", 1)>>,
     <<Item("mug", 0)>>}

Orders(email) ==
    {By("bob", "user", "CreateOrder", [email |-> email, items |-> b]) : b \in Baskets}

EditCatalog ==
    {By("eve", "admin", "UpdateProduct", Edit("desk", 7, TRUE)),
     By("eve", "admin", "UpdateProduct", Edit("mug", 6, FALSE)),
     By("eve", "admin", "DeleteProduct", [product |-> "mug"])}

ManageOrder(k, status) ==
    {By("max", "manager", "AdminUpdateOrderStatus", [order |-> k, status |-> status]),
     By("max", "manager", "AdminDeleteOrder", [order |-> k])}

\* An order is placed, and mailed about, while the catalog is edited or staff
\* handle the order.
Buying ==
    [products |-> Shop, created |-> Stamps(1, 2, 3), earlier |-> None,
     expiring |-> FALSE,
     requests |-> [a |-> Orders(TRUE), c |-> {},
                   b |-> EditCatalog \cup ManageOrder("a", "done")]]

\* An order without an address in it.
Addressing ==
    [Buying EXCEPT !.expiring = TRUE,
       !.requests = [a |-> {By("bob", "user", "CreateOrder",
                               [email |-> FALSE, items |-> <<Item("mug", 1)>>])},
                     b |-> ManageOrder("a", "done"), c |-> {}]]

\* Staff handle the same order and its payment at once.
Handling ==
    [products |-> Shop, created |-> Stamps(1, 2, 3),
     earlier |-> EarlierOrder, expiring |-> FALSE,
     requests |-> [a |-> ManageOrder(Earlier, "cancelled"),
                   b |-> ManageOrder(Earlier, "paid"),
                   c |-> {By("eve", "admin", "AdminDeletePayment", [order |-> Earlier]),
                          By("ann", "user", "GetOrder", [order |-> Earlier])}]]

\* Staff edit and delete the same products at once.
Stocking ==
    [Handling EXCEPT !.earlier = None,
       !.requests = [a |-> EditCatalog,
                     b |-> EditCatalog \cup
                           {By("eve", "admin", "UpdateProduct", Edit("mug", 0, TRUE))},
                     c |-> {By("", "", "GetProduct", [product |-> "mug"])}]]

\* A visitor turns the pages while products come and go.
Browsing(size, stamps) ==
    [products |-> Shop, created |-> stamps,
     earlier |-> None, expiring |-> FALSE,
     requests |-> [a |-> {By("", "", "ListProducts", [size |-> size])},
                   b |-> {By("eve", "admin", "CreateProduct", Edit("rug", 9, FALSE))},
                   c |-> {By("eve", "admin", "DeleteProduct", [product |-> p]) :
                            p \in {"mug", "desk"}}]]

\* Every route with every kind of session, and a body that is none.
InputOf(route) ==
    CASE route = "CreateOrder" -> [email |-> TRUE, items |-> <<Item("mug", 1)>>]
      [] route = "GetCart" -> [items |-> <<Item("mug", 2), Item("lamp", 1), Item("rug", 1)>>]
      [] route = "AdminListOrders" -> [user |-> ""]
      [] route = "AdminListPayments" -> [order |-> ""]
      [] route = "AdminUpdateOrderStatus" -> [order |-> Earlier, status |-> "shipped"]
      [] route = "ListProducts" -> [size |-> 0]
      [] route \in {"CreateProduct"} -> Edit("rug", 0, TRUE)
      [] OTHER -> [order |-> Earlier] @@ Edit("mug", 6, TRUE)

Session(user, role, cookie, bound) ==
    [user |-> user, role |-> role, cookie |-> cookie, bound |-> bound]

Sessions ==
    {Session("ann", role, TRUE, TRUE) : role \in Roles}
    \cup {Session("bob", role, TRUE, TRUE) : role \in Roles}
    \cup {Session("ann", "admin", FALSE, TRUE), Session("ann", "admin", TRUE, FALSE),
          Session("", "user", TRUE, TRUE)}

Access ==
    [products |-> Shop, created |-> Stamps(1, 2, 3),
     earlier |-> EarlierOrder, expiring |-> TRUE,
     requests |-> [a |-> {[route |-> route, input |-> InputOf(route)] @@ session :
                            route \in DOMAIN Routes, session \in Sessions},
                   b |-> {}, c |-> {}]]

MCScenarios ==
    {Buying, Addressing, Handling, Stocking, Access, Browsing(1, Stamps(1, 2, 3)),
     Browsing(2, Stamps(1, 2, 3)), Browsing(1, Stamps(2, 2, 1))}
=============================================================================
