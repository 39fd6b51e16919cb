------------------------------- MODULE Catalog -------------------------------
(***************************************************************************)
(* The catalog service: one table of products, each handler a few          *)
(* statements on it that no transaction holds together.                    *)
(***************************************************************************)
EXTENDS Integers, FiniteSets, Functions

CONSTANTS
    Products,  \* product ids
    Times,     \* what a clock may show
    None,      \* no such row yet
    Gone       \* the row was deleted; ids are not used again

ASSUME MarksAssumption == None # Gone
ASSUME ProductsAssumption == IsFiniteSet(Products)
ASSUME TimesAssumption == Times \subseteq Nat \ {0}

VARIABLES
    products,  \* the rows: price, currency, active
    created    \* the created_at of every id that has one, 0 for the others

catalogVars == <<products, created>>

Stored(p) == products[p] \notin {None, Gone}

\* The rows of the ids that exist.
Rows(ids) == [p \in {q \in ids : Stored(q)} |-> products[p]]

AllRows == Rows(Products)

\* What CreateProduct and UpdateProduct ask for: a name, a currency, a price.
Complete(in) == in.named /\ in.price > 0

\* created_at and the id are set before the statement reaches the table, by
\* the clock of the process: two ids may get the same time.
Stamp(p) ==
    /\ \E now \in Times : created' = [created EXCEPT ![p] = now]
    /\ UNCHANGED products

\* The column active has the default true, which gorm also uses for false.
Create(p, in) ==
    /\ products' = [products EXCEPT ![p] =
                      [price |-> in.price, currency |-> in.currency,
                       active |-> TRUE]]
    /\ UNCHANGED created

\* An UPDATE without the row is no error.
Update(p, in) ==
    /\ products' = IF Stored(p)
                   THEN [products EXCEPT ![p] =
                           [price |-> in.price, currency |-> in.currency,
                            active |-> in.active]]
                   ELSE products
    /\ UNCHANGED created

Delete(p) ==
    /\ products' = IF Stored(p) THEN [products EXCEPT ![p] = Gone] ELSE products
    /\ UNCHANGED created

\* The places a query may give the rows: created_at alone orders them, so that
\* rows with the same one take any order, and another one in the next query.
Sortings ==
    LET rows == DOMAIN AllRows IN
    {place \in Bijection(rows, 0 .. Cardinality(rows) - 1) :
        \A p, q \in rows : created[p] < created[q] => place[p] < place[q]}

\* Variant of Page: the offset counts pages from one.
PageOffByOne(place, page, size) ==
    {p \in DOMAIN AllRows :
        size >= 1 => place[p] \in page * size .. (page + 1) * size - 1}

\* One page of the rows; a size below one asks for all.
Page(place, page, size) ==
    LET first == IF page < 1 THEN 1 ELSE page IN
    {p \in DOMAIN AllRows :
        size >= 1 => place[p] \in (first - 1) * size .. first * size - 1}
=============================================================================
