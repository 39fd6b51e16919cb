# Cartix platform: specification and proofs

A TLA+ development of the Cartix platform: seven Go services (gateway, auth, profile,
catalog, order, payments, notification) that talk gRPC to each other and publish events on
NATS JetStream. Paths are relative to the repository
(`services/payments/internal/...`).

## The system

| Component | State | Operations | Talks to |
|---|---|---|---|
| gateway (`services/gateway`) | none | HTTP routes: cookie, token and role checks, then one call | every service, by gRPC |
| auth (`services/auth`) | `users`, `auth_sessions`; verification tokens in Redis | Register, Login, Refresh, Validate, VerifyEmail | publishes `user.registered` |
| profile (`services/profile`) | `profiles` | GetProfile, UpdateProfile; worker creates a profile | consumes `user.registered` |
| catalog (`services/catalog`) | `products` | list, get, create, update, delete | asked by order |
| order: orders (`services/order`) | `orders`, `order_items` | CreateOrder, MarkPaid (worker `order-paid`), AdminUpdateOrderStatus, AdminDeleteOrder | asks catalog and payments, consumes `payment.succeeded`, publishes `order.status_updated` |
| order: carts (`services/order`) | `carts`, `cart_items` | GetCart, AddToCart, SetCartItem, ClearCart, CheckoutCart | CreateOrder |
| payments (`services/payments`) | `payments` | CreatePayment, webhook, AdminDeletePayment | Stripe, publishes `payment.succeeded` |
| notification (`services/notification`) | reservations in Redis | receipt, welcome and status mails | consumes all three events, asks order for items, SMTP |
| every service: `cmd`, `config`, `Run` (`services/*`, `pkg`) | what it has opened, its calls and its worker | start, serve, drain, close | supervisor, database, NATS, Redis, SMTP |

What is hard about it:

* **Nothing spans two statements.** Except order creation and deletion, every
  operation is a chain of database, broker and HTTP calls without a transaction
  or a row lock, and gRPC and HTTP requests run concurrently. A row read by one
  statement is used by a later one.
* **At least once, in any order.** Stripe repeats an event until it gets a 200
  and orders nothing; JetStream repeats a message until it is acknowledged.
  Consumers fetch batches of ten and handle them one by one.
* **Two databases and a stream.** An order and its payment live in different
  services; what one knows of the other is what the calls and messages said.
* **Crashes** lose whatever a request or a worker has in hand; a SIGTERM takes away, one after
  another, what requests and workers still use.
* **Nothing rolls back**: a checkout that fails half way leaves its order.

What makes each component correct is listed with its module below; where the
code goes wrong is in *Known divergences*.

## Modules

    Payments ----+                            PaymentsProofs (extends Payments)
                 +-- Checkout -- Settlement       CheckoutProofs (extends Checkout)
    Orders   ----+                            OrdersProofs (extends Orders)
    Receipts                                  ReceiptsProofs (extends Receipts)
    Cart                                      CartProofs (extends Cart)
    Auth -- Registration                      RegistrationProofs (extends Registration)
    Gateway, Catalog, Amounts -- Storefront   StorefrontProofs (extends Storefront)
    Lifecycle                                 LifecycleProofs (extends Lifecycle)

`MC*.tla` extends the module of the same name with the definitions TLC needs
(model values, symmetry), `MC*.cfg` are the instances.

Definitions that begin with "Variant of" restate one definition with a mistake
a change to the code could make (a guard dropped, a field overwritten, an error
only logged). Nothing uses them; putting one in the place of its original shows
that the properties notice. `PROJECT.json` ("mutants") says which property
notices which.

### Payments

| State | Code |
|---|---|
| `checkout[c]` | one Stripe Checkout Session with its intent, the order in its metadata and the payment id CreatePayment chose; `stage` is how far that call, and the customer, got |
| `payments[i]` | the `payments` table by primary key: session id, intent id, order id, status, paid_at |
| `handler[h]` | one webhook request between its database and broker calls, with the row it holds in memory |
| `acked`, `stream` | events answered with 200; messages in the stream `PAYMENTS` |

CreatePayment is `CreateSession` (Stripe) and `CreatePending` (insert), with
`CreatePaymentFails` between them. The webhook is `Find` (signature, parsing, the
SELECT and the fields set in memory), `Save` (gorm `Save`: update all columns,
insert if no row was there; refused by the unique indexes) and `Publish` (message,
then 200); `Fail` ends it at any point, `PublishUnanswered` after the broker has
stored the message. Payment ids are UUIDv7, so `First` (which orders by primary
key) finds the oldest match; `NewId` is "later than every id still referred to".
A session and its intent carry one name; amount, currency and email are left out,
being filled in the way `order` is. A time is named by the kind of event it came
from. At Stripe a customer completes a checkout (`Complete`) and then, at once or later or never, the payment
succeeds (`Pay`). Session events exist from completion on and intent events only after the payment (`Sent`); the
webhook takes both as they come, since it does not read `payment_status`.

Properties: `AckedReachesOrder` (200 only after the order was announced),
`MessagesTruthful` and `RowsDoNotMix` (payments never get mixed up),
`SucceededStays` (idempotence of UpsertSucceeded), `PaidReachesOrder` (every order whose
checkout was completed is announced in the end: refuted). None of them says that money came.

### Orders

`orders[o]` is a row of `orders`, `create[o]` the CreateOrder call, `admin[a]` an
AdminUpdateOrderStatus call between its three statements and its event, `worker`
the message the order-paid worker has applied and not acknowledged yet. CreateOrder
is `CreateOrder`, `CreatePayment`, `SetPaymentInfo`; the update is `UpdateRead`,
`UpdateWrite`, `UpdateReread`, `NotifyStatusChanged`; the worker is `MarkPaid` and
`Ack`, with `AckLost` for a lost or late acknowledgement and for a crash. Any of
the calls may end early (`CreateOrderFails`, `UpdateEnds`). Two workers at once would
add nothing: `MarkPaid` is one statement, and redelivery may apply a message any
number of times at any moment until it is acknowledged. `PaymentSucceeded` stands
for the payments service; that a message names only an order whose URL was
returned is an assumption here and checked in `Checkout` (`OrdersSpec`).
`told` and `had` are histories: statuses published, statuses the row has had.

Properties: `AckedIsRecorded`, `NoResurrection`, `ToldHad`, `PaymentInfoStays`.

### Checkout and Settlement

`Checkout` runs both services side by side. They share the stream; CreatePayment
joins `CreateSession` (asked once per order, and not taken back when the caller gives
up) with `Orders!CreatePayment` (the answer); the customer can complete the checkout only once CreateOrder has
returned the URL. `PaymentOfOrder` and `PaidOnBothSides` relate the two databases: the payment an order names is
one of that order, and it is not a pending one when an event has marked the order paid. An early intent event makes a second
row, and it may be that row which marks the order; deletions and late saves of copies may come at any time.

`Settlement` is what a shop owner would say of all this: an order is placed, its
checkout is completed, that is recorded on it as its payment unless it was deleted, and what is
recorded stays. `Settles` is that specification, with the refinement mapping
`checkedOut` = orders with a completed session, `record` = absent, unpaid (no paid_at), paid,
deleted. `Safe` is the specification without its one fairness condition, and is
proved (`SettlesSafely`). The fairness condition, that a completed checkout is recorded in the end,
makes this the end-to-end liveness of webhook, stream and worker.

### Receipts

The loops over the durable consumers `receipt` and `notification-status`.
`fetched[w]` is the batch a loop has fetched, `task[w]` the message in hand,
`keys` the reservations in Redis, `mails` what the customer received (2 stands for more).
`Fetch` may deliver an unacknowledged message to any loop of its consumer at any time, also
while an earlier copy waits in a batch. `MarkProcessed` is SETNX; `SendReceipt` includes fetching
the items, whose failure only drops them from the mail; `Release` and `Ack` follow the
handler's two ends. An error of `Release` (the context has expired, or Redis refuses the DEL) is only logged, so the
reservation stays. A status mail has no reservation: `StatusUpdated`, `SendOrderStatus` or
`SendOrderStatusFails`, `Ack`. What may go wrong beyond a cleanly refused mail (a crash, a lost
acknowledgement, a lost answer of Redis, a DEL that Redis refuses, a send that outlives the ten second context, a send
that reports an error after the mail was accepted, an expiring reservation) is a set of faults;
`Scenarios` says which loops run on which messages with which faults, and each property names
the faults it does not survive, so the run says precisely what it depends on.

Properties: `AtMostOneReceipt` and `SendingIsFirst` (unless an accepted mail is reported as an
error or a reservation expires), `AckedWasMailed` and `MailArrives` for what can be `Promised`:
every status mail, and a receipt while one loop works that neither dies nor hangs and Redis
neither loses an answer nor refuses a DEL (`Calm`): each of these may leave a reservation behind without a mail. `EveryAckedWasMailed`, without that exception, is refuted.

### Cart

One user's cart (carts of different users share nothing), called by several
requests. `request[r]` is one call: the statement it runs next, the line it has found, and
for a checkout the lines it has read. `GetCart` is FirstOrCreate (`GetNoCart` and
`InsertCart` when there is none; the unique index on user_id refuses the second
insert). AddCartItem is `FindLine` then `AddInsert` or `AddToLine`. CheckoutCart is
`GetCart`, `CheckoutOrder` (CreateOrder, which refuses the whole cart when one product is no
longer sold) and `CheckoutClear`; `CheckoutOrderFails` is CreateOrder failing after its
order was committed. `SetActive` is the catalog. `added` and `removed` are histories.

Properties: `UnitsAddUp`, `OrdersWereCarted`, and `CheckoutLosesNothing` (refuted).

### Auth and Registration

`Auth` is the service by itself, and `Registration` adds the two consumers of
`user.registered` and the user, and has the specification.

| State | Code |
|---|---|
| `users[u]`, `verifyKeys` | row of `users` (status and email_verified are set together), and whose verification token Redis holds |
| `sessions[s]` | `auth_sessions`; a session is named by its first refresh token, which is random and made once, so `issued` numbers them |
| `request[r]` | a call of Register, Login, Refresh or VerifyEmail: the statement it runs next, and the session it has read |
| `known`, `welcomed`, `spent` | refresh tokens that reached a client; users whose Register was answered; verification tokens used or expired |
| `profiles[u]`, `mailed` | the `profiles` table; who was sent the link |
| `inHand`, `acked` | messages a consumer has handled, and has acknowledged |

Register is `CreateUser`, `SaveEmailToken`, `PublishUserRegistered` (or
`PublishUnanswered`), `CreateAuthSession`; Login is `Login`, `CreateAuthSession`;
Refresh is `Refresh` (the SELECT by token) and `UpdateAuthSession` (the UPDATE by
id); VerifyEmail is `GetEmailToken`, `DelEmailToken`, `VerifyUser`. `Fail` ends any of
them before any statement. The workers are `CreateProfile` and `SendWelcome`, with
`Ack` and `AckLost`; a CreateProfile refused by the unique index changes nothing and
is a stutter. Validate and GetProfile only read. Passwords, roles and access tokens
are left out.

Properties: `OnlyForUsers`, `LinkWorks`, `UsedLinkIsDead` (a verified user has followed the link, and a link that a
click has deleted or that has expired lets no later click in; less than "only once", see 12 below), `ReplacedStaysDead`
(refresh token rotation), `EditsSurvive` and `RegisteredIsServed`.

### Gateway, Catalog, Amounts and Storefront

`Gateway` is the route table: what a request must bring (nothing, a cookie, a token whose
role is on the list, a token that names a user, a body), and the status answered for success and for every error of the call
(`server.go`, `handler.go`, the middleware). `Catalog` is the table `products` and the statements
on it. `Stamp` takes created_at from a clock, which may show the same time twice. The query orders rows by created_at alone, so
`Sortings` are all the ways to put rows into places that respect it; each query takes any, and a page is the set of rows whose places the
offset and the limit pick. The order inside a page tells no two properties apart. `Amounts` is the arithmetic on money, in integers from `-Half` to `Half - 1`
that wrap around as the code's `int64` do (there `Half` is 2^63): `AddUp` (a sum), `ResolveItems` (the lines, total and currency
of an order), `CartView`, `FormatAmount`, `BuildReceiptData` and `StatusMail`. `ReadAmount` is what a reader takes a printed amount for.

`Storefront` lets several requests run through the gateway into these and into orders and payments.

| State | Code |
|---|---|
| `calls[s]` | a request: `pc` the call or statement that comes next, `hand` what it has read, `did` whether its write found a row, `shown` the rows in its answer, `status` the answer |
| `expired` | whose access token has run out; it is looked at by the middleware, and again by auth when CreateOrder wants an email address |
| `products`, `created` | the catalog; `created` is the created_at of every product id, which is set before the insert |
| `orders[k]`, `charges[k]` | an order with its lines, and its payment; an order is named by the request that creates it |
| `sessions[k]` | the checkout session of an order at Stripe, which outlives the payment's row |
| `events`, `mails` | published and not yet handled; sent |

CreateOrder is `Admit`, `UserEmail`, `GetProducts`, `InsertOrder`, `CreatePayment`,
`SetPaymentInfo`, `Reply`; a status update `GetOrderToUpdate`, `SetStatus`, `RereadOrder`,
`NotifyStatusChanged` (which reads the items, a statement of its own); a product update
`GetProduct`, `UpdateProduct`, `RereadProduct`; a listing `CountProducts`, `FindProducts`, and
`TurnPage` is the visitor, who has `Seen` a page when it is shown: `last` becomes part of `seen` as the page is turned, and a
page that was read but not answered is asked for again. `Fail` is an error or a late answer of any call: what was done before it
stays. `Pay` is the customer and `Webhook` what the payments service does then: save the payment as a succeeded one,
or one made from the session when an administrator has deleted the row, and publish what was saved. The interleavings of the
statements of `Orders` and `Payments` with the worker and the webhook are those
modules' business; here a route's write, and the webhook, is one action, and what matters is whose rows it reaches and what
becomes of prices. `Elsewhere` stands for the routes to accounts, profiles and carts, whose handlers
are `Auth`, `Registration` and `Cart`. The gateway lets a request for a cart through without asking for a user; the order
service refuses it then (`CartOfNobody`).

Properties: `Authorised` (what a route lets through and what the statement behind it selects agree with
the policy in the comments beside the routes; a policy of sellers, managers and administrators that is stated
without the route table; an empty user id, which a token may carry, must not open everyone's orders), `SuccessMeansDone` (a reported write happened, although an UPDATE
that finds no row is no error), `MailsAddUp` (lines, subtotal and total printed in a mail are those the order was placed
with, whatever happened to the catalog and the order since, and although the receipt's data is built twice),
`PagesMissLittle` (turning pages by offset misses at most one product for each deletion, of the products
that share their created_at with no other).
The type invariant says besides that nothing is ever sold or charged for nothing, also when a total wraps around.

### Lifecycle

What `cmd/main.go`, `LoadConfig` and `Run` of each service do, as data: a `Plan` lists the
steps in the order the code takes them, what a failing step does (`Exit`: log.Fatal or a panic; `Return`: Run
returns and its deferred calls are made), what each step defers, the servers in the order they
are stopped, the streams declared, the worker, and what an error of the serving loop does.
`proc[c]` is the process in a container: its phase, the next step, what it holds, what is deferred,
whether the context is cancelled, the calls in hand, and what the worker is at.

`Start` and `StartFails` take the steps; `Signal` is SIGTERM (it kills a process that has not called
signal.NotifyContext, or has given it back); `ShutDown`, `Drained`, `StopTimesOut`, `WaitEnds` and `Close` are the way
down; `ServeFails` and `Kill` the other ways. `Fetch`, `Reserve`, `Handle`, `HandleFails`, `Ack`, `WorkerEnds` are a
worker, which takes no notice of the context until the connection to NATS is closed, so that it goes on
while its database is being closed under it. `streams` outlives the processes; a consumer can be
made only on a stream that is there, and the profile service does not declare the one it consumes.
The notification service runs three workers that do not meet; a plan has one of them, so there are two plans for it, with a
worker that mails (`WelcomeWorker`; the one of status mails differs in its stream only) and with the receipt worker. What
becomes of a message that was handled before differs: the order and mailing workers apply it again, the profile worker's INSERT is
refused, and the receipt worker skips what is `reserved` in Redis. That worker reserves first and mails then, and its reservation
outlives the process; a refused mail releases it, unless Redis refuses that or has been closed, as it is before the mail server.

Properties: `DrainedBeforeClosed`, `AckedWasApplied` (nothing is acknowledged that was not applied; by the receipt worker only
when nothing disturbed its process), `Stops` (SIGTERM always stops a service), `Recovers` (a
service that has its settings and its stream comes up again, in whatever order containers start), `WorkedOff`
(a message is acknowledged in the end across restarts, or, by the profile worker, at least applied). The type invariant says besides that only what was opened is closed.

## Runs

| Run | Instance | Shows |
|---|---|---|
| `payments` | 2 checkouts of 2 different orders, both kinds of event, 2 concurrent webhooks, 3 payment ids, 1 deletion | type invariant, `AckedReachesOrder`, `MessagesTruthful`, `RowsDoNotMix`, `SucceededStays` |
| `payments_intent_first` | 1 checkout, both kinds | `PaidReachesOrder` fails |
| `orders` | 1 order, 2 concurrent updates asking for paid, done or cancelled, 3 messages | type invariant, `AckedIsRecorded`, `ToldHad`, `PaymentInfoStays`, `NoResurrection` |
| `checkout` | 2 orders, 2 checkouts, both kinds | `PaidOnBothSides`, `PaymentOfOrder`, `OrdersSpec` |
| `checkout_settles` | 1 order, 1 checkout, session events, 1 update (paid or cancelled), 1 deletion of the payment | `Settles` |
| `receipts` | 1 payment with 2 messages, a message about nothing, 1 status update. Two loops that crash and hang, with lost acks, lost replies and refused releases; one loop with lost acks, false errors and expiry; a status loop with crashes, lost acks and false errors | type invariant, `AtMostOneReceipt`, `SendingIsFirst`, `AckedWasMailed`, `MailArrives` |
| `receipts_lost` | 1 loop, slow sends | `EveryAckedWasMailed` fails |
| `cart` | 2 requests, all operations, 2 products, quantities 0 to 2, 2 orders | type invariant, `UnitsAddUp`, `OrdersWereCarted` |
| `cart_checkout` | 2 requests; add, checkout | `CheckoutLosesNothing` fails |
| `registration` | 1 user, 2 requests of any kind, 3 refresh tokens | type invariant, `OnlyForUsers`, `LinkWorks`, `UsedLinkIsDead`, `ReplacedStaysDead`, `EditsSurvive`, `RegisteredIsServed` |
| `lifecycle` | every service alone (notification once with a mailing and once with the receipt worker) with up to 2 SIGTERMs, auth and profile together, auth without `JWT_SECRET`; 1 call per server and 1 fault per service | type invariant, `DrainedBeforeClosed`, `AckedWasApplied`, `Stops`, `Recovers`, `WorkedOff` |
| `storefront` | 3 requests at once, 4 products, amounts below 2^19, a clock that shows 1 to 3, in 8 scenarios: buying, ordering without an address, handling one order, editing one product, browsing by pages of one (with and without two products of one created_at) and of two, and every route with every role, without a cookie, without a user in the token and without a body | type invariant, `SuccessMeansDone`, `MailsAddUp`, `PagesMissLittle`, `Authorised` |

**Bounds.** Two checkouts are what it takes to mix two payments; two webhooks are the
smallest race, and a webhook that ended may come again any number of times. `MaxId`
leaves room for the pending rows and a row made by an early intent event; three ids for
two checkouts let that happen to either of them. The constraint
`OneCheckoutEach` leaves out two checkouts of one order: CreateOrder asks for one payment per
order, and the mix-up is visible only between different orders. The theorems do without it. Deletions are bounded because each
could be followed by a new row. Statuses asked of one order: paid, one that comes after
it and one that goes against it. Units in a cart are bounded by `MaxAdded`, line ids by
`MaxLines`, orders by `MaxOrders`; `MaxQuantity` stands for the largest `int32`, and
is reached. One user is enough to register, since every row, token
and message is a single user's and a request never moves from one user to another; the
theorems hold for any number. Three tokens are a session and two refreshes of it at
once. With a `Half` of 2^19 all of the baskets that matter exist, at prices of a few digits: a total that wraps around to a negative number, one that is the least number of all (its own
negation), one that wraps and stays positive, one that needs two groups of digits and cents. The theorems hold for any `Half`. Three times are enough for a new product to come before, between or after the others, or at the same time as any of them. The scenarios of `receipts` and `storefront` are the
sets of actors whose steps touch the same rows or keys; actors that share nothing are not multiplied with each
other. Two SIGTERMs are what tells a service that gives the signal back from one that does not; one fault per service may hit
any of its steps, and services other than auth and profile share no stream that one of them fails to declare. Symmetry is used only where the properties are safety properties.
`CHECK_DEADLOCK FALSE` is said of the systems that really stop: when every
message is acknowledged and every bound is used up, nothing is left to do.

**Fairness.** A request always ends, because no call in it blocks for ever (weak
fairness of a handler's next step). Stripe goes on delivering an event that was
not answered with 200, and JetStream one that was not acknowledged (strong
fairness of `Find`, `MarkPaid`, `MarkProcessed`: they need a free handler or worker
again and again). The database, the broker, Redis and the mail server do not fail
every one of infinitely many attempts at the same thing (strong fairness of `Save`,
`Publish`, `SendReceipt`, `CreateProfile`, `SendWelcome`, the last two for redelivery as
well). In `Lifecycle` the supervisor restarts what is down (`restart: unless-stopped`) and
`Run` and the worker move on (weak fairness of `Launch`, `Progress`, `Work`), because each of their waits has a
timeout; faults and signals are finitely many; calls in hand need never be answered, since `Stops` must not rest on it.
Nothing is assumed of customers and administrators, of crashes
or of expiry, and nothing of a request of `Auth`: `RegisteredIsServed` speaks of those
that were answered. Stripe in fact gives up after some days; the liveness results hold if
the outage is shorter.

## Known divergences

Found by a run:

1. *Intent event first* (`payments_intent_first`). The order is in the metadata of the
   session only, and the pending row has no intent id yet. When
   `payment_intent.succeeded` is handled before `checkout.session.completed`, it inserts a second,
   succeeded row; from then on the session event finds the pending row first, sets the
   intent on it and is refused by the unique index. It gets a 500 each time, and the
   order is never announced (`payments/internal/db/repo.go:121`).
2. *Release under an expired context* (`receipts_lost`): a mail that fails after more
   than ten seconds keeps its reservation; the redelivered message counts as a duplicate and is
   acknowledged (`notification/internal/nats/worker.go:227`). The same follows from a DEL that Redis refuses, whose error is
   only logged there.
3. *Checkout deletes what it did not order* (`cart_checkout`): an item added between the
   snapshot and the clearing (`order/internal/server/service.go:451`).

Met while modelling, and visible in the same modules:

4. *Any status but paid becomes paid*: `MarkPaid` turns a cancelled, failed or done order into a paid one too,
   also by a redelivered message (`order/internal/db/repo.go:48` against the comment at `:43`).
5. `UpsertSucceeded` saves every column of a row it read earlier: a webhook that read an
   order-less row writes the order and session another webhook has filled in back to
   empty. `SucceededStays` therefore speaks of status, time and intent only.
6. `UpdateStatus` may replace the paid_at of a payment recorded between its read and its
   write by the clock. `AckedIsRecorded` therefore speaks of paid_at being set.
7. A mail accepted before the SMTP session fails is mailed again after the release. The run
   `AtMostOneReceipt` leaves that fault out.
8. Two concurrent additions of one product make two lines, although AddCartItem "adds to its
   quantity when it is already present". `UnitsAddUp` shows that no unit is lost by it.
9. Two workers of the receipt consumer: one reserves a payment, the other takes a second message
   about it for a duplicate and acknowledges it, and then the first one's mail fails. The first
   message is still delivered again, unless it was the very same message, or the send was slow (2.).
   `Promised` therefore asks for one loop.
10. Two refreshes at once are both answered, and only the later token works; a refresh
whose answer is lost leaves the client with a dead token. A session's expires_at is written
and never read (`auth/internal/db/repo.go:88`).
11. A registration that fails after `CreateUser`, for instance because the date of birth does
not parse (`auth/internal/server/handler.go:43`), leaves a user who can log in but not register
again, and who gets neither a profile nor a link. `RegisteredIsServed` therefore starts from
an answer.
12. The link "can be used only once" (`notification/internal/nats/mailer.go:109`), but two
requests that both GET the token before one deletes it both succeed
(`auth/internal/verify/store.go:40`). A request that ends between DEL and the update
of the user has used up the link for nothing; there is no second one. `UsedLinkIsDead` therefore speaks of
clicks that come after the token was deleted.
13. After a lost acknowledgement CreateProfile fails on the unique index at each redelivery,
so the message is never acknowledged (`profile/internal/nats/worker.go:44`); a kill, or a closed NATS, between the INSERT and the
acknowledgement does the same, and `WorkedOff` therefore asks of this worker only that its message was applied. A welcome mail is sent
once more. Neither does harm to `EditsSurvive`.

14. ParseSucceededEvent "returns ok=false for events that are not about a succeeded payment"
(`payments/internal/webhook/stripe.go:140`), but does not look at `payment_status`: a session that was completed while its payment
is outstanding, as some methods of payment allow, marks payment and order as paid, and nothing takes that back if the money never
comes. Which methods are enabled is not in the repository (`payments/internal/checkout/creator.go:48` names none).

In the gateway and behind it (`Storefront`):

15. CreateOrder takes the email address from auth and goes on without one when auth is down or the
access token expires in between (`gateway/internal/server/handler.go:609`). Such an order is paid for without a
receipt or status mail.
16. A product created as inactive is active, because gorm leaves out a false for a column whose default is true
(`catalog/internal/db/repo.go`, `Create`); a PATCH that does not mention `active` makes it inactive.
17. Price times quantity and the sums are not checked for overflow (`order/internal/server/service.go:139`). A total that
wraps to zero or less is refused by the payments service after the order was committed; one that wraps to a positive
number is charged. The least `int64` is its own negation, so a status mail about an order of that total shows
a second minus, and one before the cents (`notification/internal/nats/receipt.go:285`); `ReadAmount` looks at the first sign.
18. The cart is priced as it is looked at: what is charged at checkout may differ, and a cart of two
currencies shows one total, while CreateOrder refuses it.
19. An error may be answered after everything was done (`Fail`): a status is changed although the answer says 400, an order
created although it says 400. `SuccessMeansDone` is one-sided therefore.
20. The status event "published whenever an admin changes an order status" (`order/internal/nats/event.go:32`) is only logged when
publishing fails, and not made for an order without an address.
21. ValidateToken answers 500 when auth refuses the token and goes on (no return after
`gateway/internal/server/handler.go:146`) to read the user out of an answer that is not there.
22. The list of zero-decimal currencies (`notification/internal/nats/receipt.go`) is shorter than Stripe's, and the total of a
page of products is counted before its rows are read.
23. Products are listed `ORDER BY created_at` with nothing to break a tie (`catalog/internal/db/repo.go:53`), so products
of one created_at may change places between two pages and be missed although nothing was deleted. `PagesMissLittle` speaks of the others.

In starting and stopping (`Lifecycle`):

24. A second SIGTERM kills auth, profile and order, which give the signal back while they drain; payments, notification and
catalog ignore it. The gateway handles no signal and drops what it has in hand.
25. "Worker stopped gracefully" is not reached: a worker returns only when the connection to NATS is closed, which
happens after the wait for it has timed out. A stop takes ten seconds more by it, and docker's own patience is ten
seconds; three workers in turn make thirty for notification. What is acknowledged was applied nevertheless
(`AckedWasApplied`), except by the receipt worker: when it is killed while it mails, or its Redis is closed before a mail is refused,
the reservation stays and the redelivered message is acknowledged unmailed.
26. The payments service takes gRPC calls while its HTTP server drains, and never closes its database. The profile service
does not declare the stream it consumes and restarts until auth has.

## Proofs

The eight modules `*Proofs` prove, for every value of the constants that
satisfies the assumptions named in the modules (finite or not, any number of webhooks, checkouts,
updates, messages, workers, users, requests):

| Theorem | Says |
|---|---|
| `PaymentsProofs!TypeCorrect` | `Spec => []TypeOK` |
| `PaymentsProofs!AckedReachesOrderAlways` | `Spec => []AckedReachesOrder` |
| `PaymentsProofs!MessagesTruthfulAlways` | `Spec => []MessagesTruthful` |
| `PaymentsProofs!RowsDoNotMixAlways` | `Spec => []RowsDoNotMix` |
| `PaymentsProofs!SucceededStaysAlways` | `Spec => SucceededStays` |
| `OrdersProofs!TypeCorrect` | `Spec => []TypeOK` |
| `OrdersProofs!AckedIsRecordedAlways` | `Spec => []AckedIsRecorded` |
| `OrdersProofs!NoResurrectionAlways` | `Spec => NoResurrection` |
| `OrdersProofs!ToldHadAlways` | `Spec => []ToldHad` |
| `OrdersProofs!PaymentInfoStaysAlways` | `Spec => []PaymentInfoStays` |
| `ReceiptsProofs!TypeCorrect` | `Spec => []TypeOK` |
| `ReceiptsProofs!AtMostOneReceiptAlways` | `Spec => []AtMostOneReceipt` |
| `ReceiptsProofs!SendingIsFirstAlways` | `Spec => []SendingIsFirst` |
| `ReceiptsProofs!AckedWasMailedAlways` | `Spec => []AckedWasMailed` |
| `RegistrationProofs!TypeCorrect` | `Spec => []TypeOK` |
| `RegistrationProofs!OnlyForUsersAlways` | `Spec => []OnlyForUsers` |
| `RegistrationProofs!LinkWorksAlways` | `Spec => []LinkWorks` |
| `RegistrationProofs!UsedLinkIsDeadAlways` | `Spec => []UsedLinkIsDead` |
| `RegistrationProofs!ReplacedStaysDeadAlways` | `Spec => ReplacedStaysDead` |
| `RegistrationProofs!EditsSurviveAlways` | `Spec => EditsSurvive` |
| `CheckoutProofs!PaymentsSpecHolds` | `Spec => PaymentsSpec` |
| `CheckoutProofs!OrdersSpecHolds` | `Spec => OrdersSpec` |
| `CheckoutProofs!BothKeepTheirWord` | of the two together: `AckedReachesOrder`, `RowsDoNotMix`, `AckedIsRecorded`, `ToldHad` and `PaymentInfoStays` |
| `CheckoutProofs!PaidOnBothSidesAlways` | `Spec => []PaidOnBothSides` |
| `CheckoutProofs!PaymentOfOrderAlways` | `Spec => []PaymentOfOrder` |
| `CheckoutProofs!SettlesSafely` | `Spec => S!Safe`: every step is a step of `Settlement`, or none |
| `CartProofs!TypeCorrect` | `Spec => []TypeOK` |
| `CartProofs!UnitsAddUpAlways` | `Spec => []UnitsAddUp` |
| `CartProofs!OrdersWereCartedAlways` | `Spec => []OrdersWereCarted` |
| `StorefrontProofs!KeptAlways` | `Spec => []Kept` (a request past the gateway was let through) |
| `StorefrontProofs!AuthorisedAlways` | `Spec => Authorised` |
| `StorefrontProofs!SuccessMeansDoneAlways` | `Spec => []SuccessMeansDone` |
| `StorefrontProofs!AmountRead` | a printed amount reads as the amount, for every amount and currency |
| `StorefrontProofs!TypeCorrect` | `Spec => []TypeOK` |
| `StorefrontProofs!MailsAddUpAlways` | `Spec => []MailsAddUp` |
| `StorefrontProofs!PagesMissLittleAlways` | `Spec => []PagesMissLittle` |
| `LifecycleProofs!TypeCorrect` | `Spec => []TypeOK` |
| `LifecycleProofs!DrainedBeforeClosedAlways` | `Spec => []DrainedBeforeClosed` |
| `LifecycleProofs!AckedWasAppliedAlways` | `Spec => []AckedWasApplied` |

None of the properties is inductive alone.

* *Ownership* (`PaymentsProofs`). `RowsDoNotMix` says nothing of the copies that webhooks
  hold and will save. `Ownership` adds: what a webhook holds belongs to the
  checkout of its event; that checkout was completed; whoever shares an id belongs to one
  checkout; and a session event's webhook holds its order. The heart is `FindBelongs`:
  a row that matches an event by session or intent belongs to the event's checkout, so
  filling its empty fields from the event keeps it there. `CheckoutMonotone` and `BelongsToStable`
  say that nothing a checkout does takes a row away from it. Then a message names the
  order of its checkout, and an event is acknowledged together with such a message.
* *Copies* (`PaymentsProofs`). A webhook that saves an old copy can only spoil a
  succeeded row if its copy disagrees with it. `Copies` says that, for every id, the succeeded
  row and every copy in hand that was taken of it agree on paid_at and intent, because
  both are filled in once. From it `SucceededStays` follows for the one step that matters, `Save`.
* *Record* (`OrdersProofs`). A message in hand or acknowledged has paid_at set on
  its order's row or no row, a paid order has paid_at set, an update that will write
  "paid" without a stamp read a paid_at that is still there, and a row exists only
  for an order whose creation has begun. `RowStep` says how any step can change a row.
* *History*, *Attached* (`OrdersProofs`). `History`: a row's present status, and a status an update has read
  back, are in the history of the row, which only grows. `Attached`: a call that was answered has a
  payment id, and only the call itself writes that column.
* *Reserved* (`ReceiptsProofs`). A reservation is held by at most one worker that is sending or about to release; the
  payment of a holder is unmailed; a mailed payment stays reserved. So releasing never
  frees the reservation of a receipt that went out, nor somebody else's.
* *Mailed* (`ReceiptsProofs`). Under `Calm`, a reservation belongs to a payment that was mailed or is in
  a worker's hand. The one loop looks at reservations only with nothing in hand, so what it takes for a
  duplicate was mailed; without `Calm` a refused DEL, a crash or a lost answer would leave one that belongs to neither. `Shaped` is what both rest on: what a worker does fits its message.
* *Existing*, *Links*, *Made* (`RegistrationProofs`). `Existing`: whoever a request, a key, a
  message or a session is about is in `users`. `Links`: a key is saved once (`KeysOnce`),
  before the event and so before the mail (`KeysSaved`), and a request past DEL
  belongs to a mailed user whose key is gone (`Followed`). `Made`: a token that a client
  knows is not newer than `issued`, so a rotation, which brings in a newer one, revives none.
* *Emptied*, *Applied* (`LifecycleProofs`). `Emptied`: a process that is being stopped, unless it was
  forced, has no calls left on the servers it has already drained, and has calls only on servers its service
  runs, so after the last one there are none. `Applied` adds that a worker about to acknowledge has applied
  its message. For the receipt worker that needs `Steady`: a process that nothing disturbs runs its worker only while it serves, with Redis
  and the mail server open (`Unstirred`), so that no mail is refused, and a reservation is of a mail that is being sent or was sent.
  `PlanFacts` gives the shape of all start-up sequences once.
* *Opened* (`LifecycleProofs`). `TypeOK` says that what is still to be closed was opened and is not closed yet, which
  `Close` keeps only if nothing is to be closed twice. `Closings` therefore adds that the deferred closings are distinct, and,
  while a service starts, that each comes from a step already taken and that all of those steps' results are held. That this is so
  at the next step is a fact about the start-up sequences, one lemma each (`Orderly`): what a step defers was
  opened by it or before it, and is deferred nowhere else.
* *Paying*, *Linked* (`CheckoutProofs`). The order service assumes of a message that it names an order whose URL was returned and a time
  that only a payment has. `Paying` is what `PaymentsProofs` shows, carried over to the composition by
  `PaymentsSpecHolds`: an event in a webhook's hand is of a completed session, and messages are truthful. `Linked` is what ties the two
  databases: session ids are apart, what CreateOrder was answered is a session offered for its order, and a completed session's order was
  returned its URL, as nobody can check out without. Publishing a message is then a step `PaymentSucceeded` of `Orders`, every other step
  of payments a stutter of it.
* *Paired* (`CheckoutProofs`), for `PaymentOfOrder`: a row, or a copy of one in a webhook's hand, that has the id of a session is of that
  session and its order. Without the copies it is not inductive, since a webhook may put a deleted row back.
* *Confirming* (`CheckoutProofs`), for `PaidOnBothSides`: the webhook whose message marks an order may have saved a second row, made by an
  early intent event, while the order names the first one, which is pending until a session event reaches it. `Confirmed`: the first row is
  succeeded or gone. That is so whenever a second row knows its order (`SecondRows`), because only a session event brings the order, and it finds
  the first row before the second unless that was deleted (`IdsLater`); and whenever a webhook is past its save or holds another row
  (`HeldConfirmed`), a message with an order is in the stream (`ToldConfirmed`), or an event has marked the order (`MarkedConfirmed`).
  `Owned` is taken from `PaymentsProofs`: every copy a webhook may put back is a succeeded one.
* *Begun* (`CheckoutProofs`), for the refinement of `Settlement`: an order on record was begun, so that one no longer on record is
  `deleted` and not `absent`. `RecordChanges` is the step of the abstract state that a step of a row makes.
* *Found*, *ReadWasCarted* (`CartProofs`). `UnitsAddUp` speaks of rows and needs of each request that a line it has found is still of its product,
  if it is still there, because the id of a deleted line is not given again (`Found`). `OrdersWereCarted` needs the same of
  the lines a checkout has read (`ReadWasCarted`). `Units` is a sum over a set: the lemmas before `SumRemove` show that the
  sum `MapThenSumSet` computes exists and does not depend on the order of adding, by induction on
  the number of its elements.
* *Kept* (`StorefrontProofs`). A request asks what its scenario allows, is past the gateway only if the route table let it through
  (`Passed`), and is on the path of its route (`OnRoute`). `Becoming` says once, for every action, what a
  step makes of its request. `Authorised` follows, as what a statement selects or writes depends on where the request is.
* *Truthful* (`StorefrontProofs`). `SuccessMeansDone` needs that a write which found no row cannot look as if it had found one: the row must not come
  to be between the UPDATE and the SELECT after it. `Updating`: a status is set on an order that has been placed (`Placed`), and an order
  is placed once. `Editing`: nobody will create the product that is being edited (`Settled`).
  `PlacedStays` and `SettledStays` say that no request takes either back, so a row that is gone stays gone.
* *Accounted* (`StorefrontProofs`), for `TypeOK` and `MailsAddUp`. The promise of an order is made in `GetProducts`, which prices the lines
  and adds them up (`Resolved`), and everything that is made of it later repeats it: an order on record and one a request
  has read (`Standing`, `Booked`), its payment, what is published about it (`Published`) and what is mailed (`Sent`).
  `Priced` is what all of these have in common: lines whose amounts add up to the total. A payment's row may be made again from its session, so that is owed the same (`Owed`). A status update changes neither
  lines nor total, which is `OrderEdited`; that the receipt's data is built twice does no harm is
  `ReceiptReads`, that printing and reading an amount gives the amount is `AmountRead`.
* *InTime* (`StorefrontProofs`): every row has a created_at, and a product that a request is about to
  insert has one already, which nobody changes any more. The stamp may be older than the insert, so a row may come to be in the middle
  of the catalog, not only at its end.
* *Paging* (`StorefrontProofs`), for `PagesMissLittle`: of the rows that were there at the start, those which the offset has passed
  without showing them (`Skipped`: not seen, sharing their created_at with no other, and with fewer rows before them, their `Rank`, than the offset
  counts) are no more than were deleted (`Browses`); and once a page is
  read, the same is true of the next offset, or of all rows if the page was not full (`Found`). `SkippedStep` is the
  reason: an insert only raises ranks, so it adds nothing to `Skipped`; a deletion lowers the ranks after it by one, and since
  such rows have ranks of their own (`RankDistinct`) at most one more drops below the offset, and one more is deleted.
  However a query shuffles the others, these stand at their rank (`PlaceRank`).
  `PageFull` is the other half: a page that is not full reaches the last place, as a query leaves no place free (`PlaceType`).

TLC checked each of these invariants on small instances before they were proved.

What the proofs assume of the constants is named where the constants are, and TLC evaluates it in the runs.
`Checkout!ServicesAssumption` puts together what `Payments` and `Orders` assume, and says that no row of `orders` is the value
that stands for none. `Cart!NoneAssumption` says the same of lines. `Storefront!ScenariosAssumption` is about what requests are enumerated: each
is for a route there is, and a created product has an id
that no row of the catalog has and no other request creates, as the catalog service draws a fresh UUIDv7 for it (`catalog/internal/db/repo.go:66`).
`Storefront!InputsAssumption` gives what requests bring its type. `Storefront!StoresAssumption` is about what is stored at first: rows with a
positive price and a created_at each, which is what the handlers let in (`catalog/internal/server/handler.go:104`), and an order that was accepted for
payment, so that its total is the sum of its lines and positive. `Storefront!RowsAssumption` says that no row is one of the two values that stand for
none, `Catalog!ProductsAssumption` that product ids are finitely many (ranks are numbers of rows), `Catalog!TimesAssumption` that a clock shows positive numbers, as 0 stands for no created_at, `Amounts!HalfAssumption` that there is an integer.

Some of the proofs showed something about their models. `Cart!TypeOK` held of the instance but not of every instance: a
request without a quantity carries 0, which `Quantities` need not contain, and the type of a request left that out.
`Storefront` counted the rows of a page as seen when they were read, also when the answer failed and was never shown, so that `PagesMissLittle`
said less than it meant; now a page is seen when it is shown. And `FormatAmount` negated without wrapping around, which
`AmountRead` noticed at the least integer.

Only model-checked:

* All liveness: `Settles` (its safety half is proved), `MailArrives`, `RegisteredIsServed`, `Stops`, `Recovers`,
  `WorkedOff`. Fairness and `ENABLED` are out of reach of the installed provers.

Every invariant and every action property that a run checks is proved, and `PROJECT.json` ("theorems") lists each with its theorem.

Induction over data needs a detour: the library's induction theorems take a predicate as a parameter, which the provers cannot instantiate.
The theorem that `<` is well founded on the naturals speaks of sets instead, and a recursive function or a fold is shown to exist,
and to be what it should be, by applying it to the set of those arguments for which it would not (`SuccessorInduction`). So it is for the sums over sets of
`CartProofs` and for `AddUp`, `Value` and `Thousands` in `StorefrontProofs` (`FoldExists`, `AddUpRuns`, `GroupsExist`, `ThousandsRead`).

## Not modelled

* Passwords, hashes and the contents of tokens; that a token is what auth issued is taken for granted, that it
  expires is modelled. `VerifySignature` and the parsing of Stripe's JSON are one guard of `Find`.
* Names, dates, addresses and the wording and layout of mails; printed amounts are modelled. `statusLabel` panics on an
  empty status (`notification/internal/nats/worker.go:162`), which the order service never publishes.
* What metrics and traces contain; that they must start is a step of `Lifecycle`, except that a port that metrics
  cannot listen on is only printed.
* Reconnection to NATS, which is the client library's: it gives up after two minutes, and the worker's fetches then fail for ever.
* Generated protocol code, deployment files and dashboards.

## Plan

1. Done: `Payments`, `Orders`, their composition `Checkout` with its abstract specification, `Receipts`, `Cart`;
   `Auth` and `Registration`; `Gateway`, `Catalog`, `Amounts` and `Storefront`; `Lifecycle`.
2. Done: the theorems of the table above, with which every safety property the runs check is proved.
3. `Receipts` behind `Checkout`: one receipt for one paid order, end to end.
