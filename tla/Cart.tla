-------------------------------- MODULE Cart --------------------------------
(***************************************************************************)
(* One user's cart in the order service: AddToCart, SetCartItem, ClearCart *)
(* and CheckoutCart, called by several requests at once.  Each is a chain  *)
(* of statements with no transaction around it, and the cart lines have no *)
(* unique index on cart and product.                                       *)
(***************************************************************************)
EXTENDS Naturals, Sequences, FiniteSetsExt

CONSTANTS
    Products,
    Requests,     \* concurrent requests of the user
    Ops,          \* the operations the requests choose from
    Quantities,   \* quantities requests ask for; 0 removes a line
    MaxQuantity,  \* the largest quantity the column holds
    MaxLines,     \* bound: cart line ids in use at once
    MaxAdded,     \* bound: units after which no request puts in more
    MaxOrders,    \* bound: checkouts that get to an order
    None

ASSUME BoundsAssumption ==
    /\ MaxQuantity \in Nat \ {0} /\ MaxLines \in Nat
    /\ MaxAdded \in Nat /\ MaxOrders \in Nat
ASSUME QuantitiesAssumption == Quantities \subseteq 0..MaxQuantity
ASSUME OpsAssumption ==
    Ops \subseteq {"view", "add", "set", "clear", "checkout"}

LineIds == 1..MaxLines

VARIABLES
    active,   \* products the catalog has and sells
    cart,     \* is there a cart row
    lines,    \* the cart_items rows
    request,  \* what each request is doing
    orders,   \* the items of every order checkouts created, in order
    added,    \* history: units put into lines, per product
    removed   \* history: units taken out of lines, per product

vars == <<active, cart, lines, request, orders, added, removed>>

Line == [product : Products, quantity : 1..MaxQuantity]

ASSUME NoneAssumption == None \notin Line

\* The statement a request runs next, with the arguments of its operation, the
\* line id it has read, and the lines a checkout has read.
Request ==
    [op : Ops, pc : {"get", "insert cart", "find", "write", "order", "clear"},
     product : Products \cup {None}, quantity : Quantities \cup {0},
     line : LineIds \cup {None}, items : [LineIds -> Line \cup {None}]]

TypeOK ==
    /\ active \subseteq Products
    /\ cart \in BOOLEAN
    /\ lines \in [LineIds -> Line \cup {None}]
    /\ request \in [Requests -> Request \cup {None}]
    /\ orders \in Seq([LineIds -> Line \cup {None}])
    /\ added \in [Products -> Nat]
    /\ removed \in [Products -> Nat]

NoLines == [i \in LineIds |-> None]

Init ==
    /\ active = Products
    /\ cart = FALSE
    /\ lines = NoLines
    /\ request = [r \in Requests |-> None]
    /\ orders = <<>>
    /\ added = [p \in Products |-> 0]
    /\ removed = [p \in Products |-> 0]

Present(ls) == {i \in LineIds : ls[i] # None}

LinesOf(ls, p) == {i \in Present(ls) : ls[i].product = p}

Units(ls, p) == MapThenSumSet(LAMBDA i : ls[i].quantity, LinesOf(ls, p))

At(r, pc) == request[r] # None /\ request[r].pc = pc

Goto(r, pc) == request' = [request EXCEPT ![r].pc = pc]

Return(r) == request' = [request EXCEPT ![r] = None]

-----------------------------------------------------------------------------
\* Requests that get past their checks: AddToCart wants a positive quantity of
\* an active product.
Start(r, op, p, q) ==
    /\ request[r] = None
    /\ op = "add" => q >= 1 /\ p \in active
    /\ op \in {"add", "set"} => /\ p # None
                               /\ MapThenSumSet(LAMBDA x : added[x], Products)
                                  + q <= MaxAdded
    /\ op \in {"view", "clear", "checkout"} => p = None /\ q = 0
    /\ request' = [request EXCEPT ![r] =
                     [op |-> op, pc |-> "get", product |-> p, quantity |-> q,
                      line |-> None, items |-> NoLines]]
    /\ UNCHANGED <<active, cart, lines, orders, added, removed>>

AfterGet(op) ==
    CASE op = "add" -> "find"
      [] op = "checkout" -> "order"
      [] OTHER -> "write"

\* GetCart finds the cart, which is all a view does; a checkout keeps the lines
\* it has read, and stops if there are none.
GetCart(r) ==
    /\ At(r, "get")
    /\ cart
    /\ IF \/ request[r].op = "view"
          \/ request[r].op = "checkout" /\ lines = NoLines
       THEN Return(r)
       ELSE request' = [request EXCEPT
                          ![r].pc = AfterGet(request[r].op),
                          ![r].items = IF request[r].op = "checkout"
                                       THEN lines ELSE NoLines]
    /\ UNCHANGED <<active, cart, lines, orders, added, removed>>

\* FirstOrCreate finds no cart and is about to insert one.
GetNoCart(r) ==
    /\ At(r, "get")
    /\ ~cart
    /\ Goto(r, "insert cart")
    /\ UNCHANGED <<active, cart, lines, orders, added, removed>>

\* The unique index on user_id makes the second of two inserts an error.
InsertCart(r) ==
    /\ At(r, "insert cart")
    /\ IF cart \/ request[r].op \in {"view", "checkout"}
       THEN Return(r)
       ELSE Goto(r, AfterGet(request[r].op))
    /\ cart' = TRUE
    /\ UNCHANGED <<active, lines, orders, added, removed>>

\* AddCartItem looks for the first line of the product.
FindLine(r) ==
    LET found == LinesOf(lines, request[r].product) IN
    /\ At(r, "find")
    /\ request' = [request EXCEPT ![r].pc = "write",
                     ![r].line = IF found = {} THEN None ELSE Min(found)]
    /\ UNCHANGED <<active, cart, lines, orders, added, removed>>

\* uuid.NewV7: after every id a line or a request still has.
NewLine(i) ==
    LET used == Present(lines) \cup
                {request[r].line : r \in {s \in Requests : request[s] # None}}
    IN  /\ \A j \in LineIds : j >= i => j \notin used
        /\ i > 1 => i - 1 \in used

\* A new line is inserted.
AddInsert(r) ==
    /\ At(r, "write") /\ request[r].op = "add" /\ request[r].line = None
    /\ \E i \in LineIds :
         /\ NewLine(i)
         /\ lines' = [lines EXCEPT ![i] =
                        [product |-> request[r].product,
                         quantity |-> request[r].quantity]]
    /\ added' = [added EXCEPT ![request[r].product] = @ + request[r].quantity]
    /\ Return(r)
    /\ UNCHANGED <<active, cart, orders, removed>>

\* Variant of AddToLine: SET quantity = ?.
SetLine(r) ==
    LET i == request[r].line IN
    /\ At(r, "write") /\ request[r].op = "add" /\ i # None
    /\ IF lines[i] # None
       THEN /\ lines' = [lines EXCEPT ![i].quantity = request[r].quantity]
            /\ added' = [added EXCEPT
                           ![request[r].product] = @ + request[r].quantity]
       ELSE UNCHANGED <<lines, added>>
    /\ Return(r)
    /\ UNCHANGED <<active, cart, orders, removed>>

\* Variant of AddToLine: a lost answer makes the driver run the UPDATE again.
AddToLineTwice(r) ==
    LET i == request[r].line
        q == request[r].quantity IN
    /\ At(r, "write") /\ request[r].op = "add" /\ i # None
    /\ lines[i] # None => lines[i].quantity + 2 * q <= MaxQuantity
    /\ IF lines[i] # None
       THEN /\ lines' = [lines EXCEPT ![i].quantity = @ + 2 * q]
            /\ added' = [added EXCEPT ![request[r].product] = @ + q]
       ELSE UNCHANGED <<lines, added>>
    /\ Return(r)
    /\ UNCHANGED <<active, cart, orders, removed>>

\* UPDATE cart_items SET quantity = quantity + ? WHERE id = ?, of a line that
\* may be gone by now.
AddToLine(r) ==
    LET i == request[r].line
        q == request[r].quantity IN
    /\ At(r, "write") /\ request[r].op = "add" /\ i # None
    /\ lines[i] # None => lines[i].quantity + q <= MaxQuantity
    /\ IF lines[i] # None
       THEN /\ lines' = [lines EXCEPT ![i].quantity = @ + q]
            /\ added' = [added EXCEPT ![request[r].product] = @ + q]
       ELSE UNCHANGED <<lines, added>>
    /\ Return(r)
    /\ UNCHANGED <<active, cart, orders, removed>>

\* Variant of SetItem that keeps lines without units.
SetItemKeepingZero(r) ==
    /\ At(r, "write") /\ request[r].op = "set"
    /\ lines' = [i \in LineIds |->
                   IF i \notin LinesOf(lines, request[r].product) THEN lines[i]
                   ELSE [product |-> request[r].product,
                         quantity |-> request[r].quantity]]
    /\ added' = [added EXCEPT ![request[r].product] =
                   @ + Units(lines', request[r].product)]
    /\ removed' = [removed EXCEPT ![request[r].product] =
                     @ + Units(lines, request[r].product)]
    /\ Return(r)
    /\ UNCHANGED <<active, cart, orders>>

\* SetCartItem: a quantity of zero deletes the product, another replaces the
\* quantity of each of its lines.
SetItem(r) ==
    LET p == request[r].product
        q == request[r].quantity IN
    /\ At(r, "write") /\ request[r].op = "set"
    /\ lines' = [i \in LineIds |->
                   IF i \notin LinesOf(lines, p) THEN lines[i]
                   ELSE IF q = 0 THEN None
                   ELSE [product |-> p, quantity |-> q]]
    /\ added' = [added EXCEPT ![p] = @ + Units(lines', p)]
    /\ removed' = [removed EXCEPT ![p] = @ + Units(lines, p)]
    /\ Return(r)
    /\ UNCHANGED <<active, cart, orders>>

\* DELETE FROM cart_items WHERE cart_id = ?
Empty ==
    /\ lines' = NoLines
    /\ removed' = [p \in Products |-> removed[p] + Units(lines, p)]

ClearCart(r) ==
    /\ At(r, "write") /\ request[r].op = "clear"
    /\ Empty
    /\ Return(r)
    /\ UNCHANGED <<active, cart, orders, added>>

\* CheckoutCart calls CreateOrder with the lines it has read; resolveItems
\* refuses them all if one product is no longer sold.
CheckoutOrder(r) ==
    /\ At(r, "order")
    /\ Len(orders) < MaxOrders
    /\ \A i \in Present(request[r].items) :
         request[r].items[i].product \in active
    /\ orders' = Append(orders, request[r].items)
    /\ Goto(r, "clear")
    /\ UNCHANGED <<active, cart, lines, added, removed>>

\* CreateOrder fails after the order was committed: the payment could not be
\* created or attached.  The cart stays, the order too.
CheckoutOrderFails(r) ==
    /\ At(r, "order")
    /\ Len(orders) < MaxOrders
    /\ \A i \in Present(request[r].items) :
         request[r].items[i].product \in active
    /\ orders' = Append(orders, request[r].items)
    /\ Return(r)
    /\ UNCHANGED <<active, cart, lines, added, removed>>

\* CheckoutCart empties the cart.
CheckoutClear(r) ==
    /\ At(r, "clear")
    /\ Empty
    /\ Return(r)
    /\ UNCHANGED <<active, cart, orders, added>>

\* A statement fails, a product is refused, or the service dies.
Fail(r) ==
    /\ request[r] # None
    /\ Return(r)
    /\ UNCHANGED <<active, cart, lines, orders, added, removed>>

\* The catalog service: an administrator stops or resumes selling a product.
SetActive(p) ==
    /\ active' = IF p \in active THEN active \ {p} ELSE active \cup {p}
    /\ UNCHANGED <<cart, lines, request, orders, added, removed>>

-----------------------------------------------------------------------------
Handle(r) ==
    \/ \E op \in Ops, p \in Products \cup {None}, q \in Quantities \cup {0} :
         Start(r, op, p, q)
    \/ GetCart(r) \/ GetNoCart(r) \/ InsertCart(r)
    \/ FindLine(r) \/ AddInsert(r) \/ AddToLine(r)
    \/ SetItem(r) \/ ClearCart(r)
    \/ CheckoutOrder(r) \/ CheckoutOrderFails(r) \/ CheckoutClear(r)
    \/ Fail(r)

Next ==
    \/ \E r \in Requests : Handle(r)
    \/ \E p \in Products : SetActive(p)

Spec == Init /\ [][Next]_vars

-----------------------------------------------------------------------------
\* "converts the user's cart into an order and empties the cart afterwards":
\* every unit a checkout deletes from the cart is in an order that was created.
CheckoutLosesNothing ==
    [][\A r \in Requests :
         CheckoutClear(r) =>
           \E k \in DOMAIN orders : \A p \in Products :
             Units(lines, p) <= Units(orders[k], p)]_vars

\* No interleaving of additions, clearings and checkouts loses or invents a unit,
\* even when it makes two lines of one product or adds to a line that is gone
\* (the database does the addition).
UnitsAddUp ==
    \A p \in Products : Units(lines, p) + removed[p] = added[p]

\* An order never has units of a product that were not put into the cart.
OrdersWereCarted ==
    \A k \in DOMAIN orders, p \in Products : Units(orders[k], p) <= added[p]

=============================================================================
