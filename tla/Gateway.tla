------------------------------- MODULE Gateway -------------------------------
(***************************************************************************)
(* The gateway: for every route, what a request must bring before a        *)
(* service is called, the status answered when the call succeeds, and the  *)
(* one status answered for every error of the call.                        *)
(***************************************************************************)
EXTENDS Naturals

Roles == {"user", "seller", "manager", "admin"}

\* The role lists of the admin routes.
ViewOrders == {"admin", "manager", "seller"}
ManageOrders == {"admin", "manager"}
ViewPayments == {"admin", "manager"}
Admin == {"admin"}

\* needs: the cookie asked for; "token" also has its token verified, and
\* "user" has to find a user in it.
\* input: what is read of the request, and whether it can be refused.
Row(needs, roles, input, ok, error) ==
    [needs |-> needs, roles |-> roles, input |-> input,
     ok |-> ok, error |-> error]

Public(input, ok, error) == Row("nothing", Roles, input, ok, error)
User(input, ok, error) == Row("user", Roles, input, ok, error)
Bearer(input, ok, error) == Row("token", Roles, input, ok, error)
Staff(roles, input, ok, error) == Row("token", roles, input, ok, error)

AuthRoutes ==
    [Register |-> Public("required", 200, 500),
     Login |-> Public("required", 200, 500),
     Refresh |-> Row("refresh_cookie", Roles, "none", 200, 500),
     ValidateToken |-> Row("access_cookie", Roles, "none", 200, 500),
     VerifyEmail |-> Public("required", 200, 400)]

ProfileRoutes ==
    [GetProfile |-> User("none", 200, 500),
     UpdateProfile |-> User("required", 200, 500)]

CreateOrderRoute == [CreateOrder |-> User("required", 201, 400)]

CartRoutes ==
    [GetCart |-> Bearer("none", 200, 500),
     AddToCart |-> Bearer("required", 200, 400),
     UpdateCartItem |-> Bearer("required", 200, 400),
     ClearCart |-> Bearer("none", 200, 500),
     CheckoutCart |-> Bearer("optional", 201, 400)]

OwnOrderRoutes ==
    [GetOrder |-> User("none", 200, 500),
     ListOrders |-> User("none", 200, 500)]

ShopRoutes ==
    [GetProduct |-> Public("none", 200, 500),
     ListProducts |-> Public("optional", 200, 500)]

AdminOrderRoutes ==
    [AdminListOrders |-> Staff(ViewOrders, "none", 200, 500),
     AdminGetOrder |-> Staff(ViewOrders, "none", 200, 500),
     AdminDeleteOrder |-> Staff(ManageOrders, "none", 200, 500),
     AdminUpdateOrderStatus |-> Staff(ManageOrders, "required", 200, 400)]

PaymentRoutes ==
    [AdminListPayments |-> Staff(ViewPayments, "none", 200, 500),
     AdminGetPayment |-> Staff(ViewPayments, "none", 200, 500),
     AdminDeletePayment |-> Staff(Admin, "none", 200, 500)]

ProductRoutes ==
    [CreateProduct |-> Staff(Admin, "required", 201, 400),
     UpdateProduct |-> Staff(Admin, "required", 200, 400),
     DeleteProduct |-> Staff(Admin, "none", 200, 500)]

Tables ==
    {AuthRoutes, ProfileRoutes, CreateOrderRoute, CartRoutes, OwnOrderRoutes,
     ShopRoutes, AdminOrderRoutes, PaymentRoutes, ProductRoutes}

\* Every route is in one of the tables.
Routes ==
    [route \in UNION {DOMAIN t : t \in Tables} |->
        (CHOOSE t \in Tables : route \in DOMAIN t)[route]]

\* The checks before the call, the first that fails deciding: the cookie, the
\* token in it, the role or the user the token names, the body or query.
NeedsToken(row) == row.needs \in {"token", "user"}

\* Variant of Unauthorized: the handler does not ask who the user is.
UnauthorizedNameless(row, q, expired) ==
    \/ row.needs # "nothing" /\ ~q.cookie
    \/ NeedsToken(row) /\ expired

Unauthorized(row, q, expired) ==
    \/ row.needs # "nothing" /\ ~q.cookie
    \/ NeedsToken(row) /\ expired
    \/ row.needs = "user" /\ q.user = ""

Forbidden(row, q) == row.needs = "token" /\ q.role \notin row.roles

Malformed(row, q) == row.input = "required" /\ ~q.bound

\* The status a request is refused with, 0 when it is passed on.  No route asks
\* for a role and for a user.
Refusal(row, q, expired) ==
    CASE Unauthorized(row, q, expired) -> 401
      [] ~Unauthorized(row, q, expired) /\ Forbidden(row, q) -> 403
      [] ~Unauthorized(row, q, expired) /\ ~Forbidden(row, q)
         /\ Malformed(row, q) -> 400
      [] OTHER -> 0
=============================================================================
