# Badesaba in TLA+

Badesaba is a digital bookshop of three NestJS services (`user`, `product`,
`transaction`) that keep their data in MongoDB, talk over HTTP and Kafka, keep
one-time codes and cached lists in Redis, and let the Zibal gateway take the
payments. This directory holds TLA+ models of its core, the TLC configurations
that check them on small instances, and proofs, checked by TLAPS, of the main
safety properties for every value of the constants.

The source is what is modelled: line numbers below are of files under `src/`.
`PROJECT.json` maps every definition to the lines it stands for, and lists the
runs, a faulty variant for every property, the hazards and the theorems.

## 1. The system

| component | state | operations | modules |
|---|---|---|---|
| transaction service | `transactions` collection | `POST /transaction`, `GET /verify` | `TransactionService`, abstractly `TransactionDecision` |
| gateway client (zibal) | none; the gateway keeps payments | `reqestPayment`, `veifyPayment` | `PaymentGateway` |
| baskets, orders (product) | `baskets`, `orders`, Kafka offset | `addBook`, `removeBook`, `chkeout`, `handleOrderTransaction` | `Checkout`, abstractly `Sale` |
| plans, user plans (user) | `plans`, `userPlans`, Kafka offset | plan CRUD, `purchasePlan`, `handleUserPlanTransaction` | `PlanPurchase`, abstractly `Sale` |
| transaction clients, `retryRequest` | retries left, in the handler | POST with up to 3 retries of a 500 | inside `Checkout`, `PlanPurchase` |
| one-time codes (user) | two Redis keys per number, an in-process lock | `createOtp`, `verifyOtp` | `Otp` |
| login, users, tokens (user) | `users`, `tokens` collections; signed access tokens are kept by nobody | `login`, `verifyLogin`, `logout`, `refreshAccessToken`, `deleteRefreshToken` | `Login` |
| start and roles (user; `AuthzGuard` in all three) | a user's `role`, and its copy in every access token | `onModuleInit`, role in `verifyLogin` and `refreshAccessToken`, `updateProfile`, the guard | `Roles` |
| votes (product) | `votes`, a book's `rating` and `votesCount` | `setVote` | `Vote` |
| categories, authors, publishers, books (product) | four collections | create and update of each | `Catalogue` |
| row cache (product) | Redis rows with 120 s to live | `getRowBooks` | `Catalogue` |
| paged lists (user, product) | none; the client keeps its place | `getUsersList`, `getLoginHistory`, `getActiveLogins`, `getCategoriesList`, `getAuthorsList`, `getPublishersList`, `getBooksList` | `Lists` |
| access tokens (`UserAuthGuard`, in all three) | none | check of signature and expiry | `Login` (`Authenticated`), `Roles` (`UserAuthGuard`) |
| secrets, captcha | none | check of a secret or a captcha | not modelled: stateless |
| notification, ip2location | none | write to the log, return a constant | not modelled: stubs |
| Kafka, Redis, Mongo clients, configuration, controllers, DTOs | none of their own | wiring, validation | not modelled on their own; what bounds a handler's inputs is in its guard |

How the parts interact. `chkeout` stores an order and posts a transaction over
HTTP; `purchasePlan` does the same with a user plan. The transaction service asks
the gateway for a payment, inserts a PENDING transaction and returns a payment
url. The buyer pays on the gateway's page, which redirects the browser to `GET
/verify`; the handler asks the gateway, stores the outcome with a filter on
PENDING, and sends an event to the topic of the client's type. The product and
user services consume their topic: an order takes the status of the message and a
COMPLETED one takes its books out of the basket; a user plan takes the status of
the message. Admins edit the catalogue: a book names categories, authors and a
publisher, votes move its rating, and rows computed from all of them are cached
in Redis. Everybody who lists something reads it in pages, by offset, with one
query for the page and one for the total. The user service stores the super admin
when it starts on an empty database; the role of a user is copied into each of
his access tokens, and the guards of all three services believe the token without
asking the user service. Apart from the lock of `createOtp` there is no mutual
exclusion anywhere: each handler is a sequence of awaits, and everything shared
(documents, Redis keys) can change at each of them.

What makes it hard, and which property answers it, is listed line by line under
"hazards" in `PROJECT.json`. In short: handlers that race between a read and a
write (two verifications, two checkouts, two votes, two logins, many guesses of
a code); a crash or exception between two writes (payment verified but not
stored, stored but not announced, order completed but basket not emptied); calls
that are retried although the first had an effect; messages that Kafka delivers
again; plans whose price changes while they are sold; codes and tokens that
expire while they are in use; divisions by a count that was read too early;
a cached row that was computed from five reads at different times; pages and
totals of a list that changes while it is walked; a role that was taken away and
lives on in tokens; instances that start at once on an empty database.

What makes each part correct:

- transactions: a status leaves PENDING once; COMPLETED only for verified money;
  events contradict neither the stored status nor the gateway, unless the outcome
  of a payment was asked for while it could still be made.
- checkout: nothing is delivered unpaid or for another price; nobody pays one
  order twice; only delivered books leave a basket; every message is applied;
  what was announced is delivered.
- plans: the same for user plans, while admins edit the plans.
- both, as their buyer sees them: an order or user plan is decided once and for
  ever, with the same exception, COMPLETED only with its money, and a buyer who
  came back is served.
- codes: throttled, in order, compared with a guess at most `OTP_MAX_ATTEMPTS`
  times for the counter that `createOtp` made with the code (a counter that a failed
  `createOtp` renews, or that INCR makes later, is another one), and no request
  waits for ever.
- logins: one user per number; a login that has ended gets no new access token but
  for a refresh in flight; a used code is used up.
- roles: the first user is the super admin; nobody passes a guard for longer than
  an access token lives with a role that he has lost.
- lists: a walk misses and repeats no more documents than left and joined the
  list meanwhile; the total is that of the list the page was cut from.
- votes: no vote is counted twice or forgotten, the rating stays between the
  scores that were sent.
- catalogue: authors keep different slugs, books refer to documents that exist,
  a cached row is in the order that was asked for and catches up with the
  catalogue, categories form a tree.

## 2. Modules

`TransactionDecision` is the abstract promise of the transaction service: open,
settle, complete or fail, each once. `PaymentGateway` is the external gateway.
`TransactionService` EXTENDS it and adds the two handlers; the caller is any
client that calls and takes replies at any time (`ServiceNext`). `Checkout` and
`PlanPurchase` EXTEND `TransactionService` and put the real clients in place of
that one; `Sale` is what either of them promises a buyer, without services and
messages, and they are shown to implement it. They reuse the `InternalNext` of
`TransactionService`, and its `CallCreateTransaction` and `EndCall` are conjoined
with the client's own steps. `Otp` stands alone and `Login` EXTENDS it: a
verifier that `Otp` accepts goes on to find its user and sign its tokens. `Roles`
has another view of the same handlers: many users with their roles, several
instances and their start, and of a login only what it knows of the user. `Vote`,
`Catalogue` and `Lists` stand alone; the first two meet in a book's rating and
number of votes, which `CountVote` of `Catalogue` changes in the two ways `Vote`
does. The `MC*` modules only define constants and symmetry for TLC, the `*Proofs`
modules hold the theorems.

Conventions. A handler is a record whose `pc` names the step it takes next; one
action is one await and the synchronous code behind it. A handler that throws
and a process that dies are actions of their own, bounded by a `Max...Faults`
constant; since a fault may happen before or after any step, a step with an
effect followed by the fault stands for "rejected after its effect". Handlers
are identified with what they create (a checkout with its order, a login with
its token), or are members of a constant set of requests, each served once.
Definitions named "Faulty ..." in their comment are variants with a plausible
bug; nothing but the fault checks listed under "mutants" uses them.

### TransactionDecision, PaymentGateway, TransactionService

| TLA+ | code |
|---|---|
| `gateway[t]` | the gateway's state of a payment: free, issued, failed, paid, verified |
| `paymentUrls` | the track ids whose url a client has got back |
| `transactions[t]` | the document under a track id |
| `creating[id]` | the `createTransaction` call of an order or user plan; its last `pc` is the reply |
| `verifying[r]` | the `verifyTransaction` handler of one request |
| `topics[type]` | the two Kafka topics, as sequences |

`RequestPayment`, `InsertTransaction`, `Respond` are `createTransaction`
(transaction.service.ts 54-90); `FindTransaction`, `VerifyPayment`,
`UpdateTransaction`, `SendEvent` are `verifyTransaction` (92-164).
`FindTransaction` takes any track id in any state: the route has no guard, and the
track id is part of the payment url. A payment that is still waiting is answered
with 202 and goes on waiting, so `verifyTransaction` stores and announces FAILURE of
a payment that may be made afterwards. The history variable `askedEarly` of
`PaymentGateway` remembers these payments; no guard reads it, and the properties
that speak of disagreements name it.
`UpdateTransaction` keeps the filter `status: PENDING` and ignores the result
of the update, and the event carries the handler's own status, as the code does.
`RepeatSend` is the producer's retry of a send whose acknowledgement was lost.
Each topic is one partition, so it keeps its order. Amounts outside the
gateway's limits are refused (answers 105, 113), 0 is refused by the validation
pipe. `PayAfterFailure` says whether the gateway takes another attempt after a
failed one; the source does not tell, so the runs have one or the other and the
theorems hold with both.

### Checkout

`ReadBasket` to `EmptyFreeBasket` are `chkeout` (basket.service.ts 104-173),
`CallTransaction` and `TakeReply` with `retryRequest` inside; the delay before a
retry is any time. `ConsumeMessage`, `UpdateOrder`, `EmptyBasket` are
`handleOrderTransaction` (175-199), `CommitOffsets` is kafkajs. After a crash the
consumer starts again at the committed offset, and a handler that throws gets
its message again. Prices do not change between the read of the basket and the
order: the code reads the basket and then its books (`findOne` with `populate`, lines
106-111), and what it sums up and orders is what the second query returned, so both
are one step.

### Sale

`Place`, `Receive`, `Deliver`, `Refuse` and `Doubt` are all that happens to a
purchase as its buyer sees it. The mapping takes `outcome` and `price` from the stored order
or user plan, and `paid` is the set of those that have a transaction of their
price which the gateway has verified: everything else (calls, retries, events,
redeliveries, the basket) is a stutter. `inDoubt` has those with a payment in
`askedEarly`: they may FAIL although they are paid, and be COMPLETED after a FAILURE,
because two handlers then send both and the consumer takes either. Everything
else is final; and whatever is COMPLETED has its money, doubt or not.

### PlanPurchase

`CreatePlan`, `UpdatePlan`, `DeletePlan` are plan.service.ts; `ReadPlan` to
`RejectUserPlan` are `purchasePlan` (user.service.ts 259-311), `UpdateUserPlan` is
`handleUserPlanTransaction` (313-323). Titles, days, the user and the expiry date
of a user plan are left out: no step reads them.

### Otp and Login

Otp models one key, that is, one mobile number and operation; different keys do
not meet. `otp` and `attempts` are the two Redis keys with their expiry,
`lock` is async-lock's lock of the key. Time is a bounded counter. The two SETEX
of one `createOtp` are less than `Slack` apart (10 s in the code), so time does
not pass between them. `serial` numbers codes so that properties can tell one
from the next; the code has none and no guard reads it. Login adds `users` (of
that number), `tokens`, and the set of access tokens that were signed.
`FindToken` and `PopulateUser` are the two queries of `refreshAccessToken`, with time
and other handlers between them; only from the check of the expiry date to the
date in the signature no time passes (no I/O happens there). A refresher and an
access token remember when the login was read as active (`asked`, a history
field). `deletedAt` is the moment of the write. `Authenticated` is `UserAuthGuard` in front of `logout` and
`deleteRefreshToken`. The number may be the super admin's (whom `Roles` stores),
so that it has a user before its first login. The unique index on the number is
taken as built, as it is soon after a start; `Roles` has the start without it. Devices, keys'
random values and the ip are left out.

### Roles

| TLA+ | code |
|---|---|
| `users` | the collection, in the order of the `_id`s: mobile, role, whether there is a nickname |
| `indexed` | whether mongoose has built the unique index on `mobile` |
| `instances[i]` | a process of the user service: down, in one of the awaits of `onModuleInit`, up |
| `handlers[h]` | a `verifyLogin` whose code was accepted, or a `refreshAccessToken` |
| `accessTokens` | the signed payloads with their roles and expiry dates |
| `lostRoles` | history: who lost which role when |

`CountUsers`, `CreateSuperAdmin`, `ConnectConsumer` are `onModuleInit`
(user.service.ts 59-78); a rejected await leaves `bootstrap` and ends the process,
and docker-compose starts it again. The index is built in the background, at any
time that the documents allow. Nothing in the source makes an admin, so
`ChangeRole` is somebody at the database; it leaves the super admin alone.
Reading a role and signing it take no time on the clock. That a refresh token is
active is `Login`'s; here any user who has logged in may refresh.

### Vote

One book; the votes of different books do not meet. `setters[r]` is a `setVote`
handler with the book as it read it. Ratings are exact fractions instead of
floating-point numbers; the denominator 0 stands for Infinity (or NaN when the
numerator is 0 too), and mongoose refuses to store NaN. A user who votes again
has the *average*, not the old score, taken out (vote.service.ts 38-41): the
rating is no exact mean afterwards, and no property claims that it is.

### Catalogue

| TLA+ | code |
|---|---|
| `slugs[d]`, `versions[d]` | the document `d` of one of three collections, by its slug and the number of updates of its other texts; `None` before it is inserted |
| `parents[c]` | a category's parent, which need not exist |
| `books` | the books by id: the set of the categories, authors and publisher they refer to, a version of the texts, rating and votes |
| `rows[key]` | the Redis row of one `getRowBooks` request |
| `editors[e]` | a create or update handler of any kind, `pc` names its next await |
| `readers[g]` | a `getRowBooks` handler with what it has read so far |

`CheckParent`, `CheckSlug` and the three inserts are `createCategory`,
`createAuthor` and `createPublisher`; the updates have the same parent check and
write texts, never a slug. Only authors have a unique index on the slug
(author.schema.ts), so only `InsertAuthor` can be refused. `CheckReferences` is
one of the three counts of `createBook` and `updateBook`, `StoreBook` their
write. `FindCategories` to `CacheRow` are `getRowBooks` with `findBooksResult`
(book.service.ts 126-287). An id that is not handed out yet stands for one that
no document has. The popularity is multiplied by 5 and by the most votes, which
keeps its order and its values integers; ratings are naturals here (Infinity
and fractions are `Vote`'s). The best sellers are in the order of the ids: the
projection drops `salesCount` before the sort, and nothing in the source writes
it. `getBook` only reads; the lists are in `Lists`.

### Lists

The seven lists have one shape: references in the filter are looked up one
after the other (`CheckReference`, only `getBooksList`), then `find` with sort,
skip and limit and `countDocuments` are sent at once and awaited together (`Find`,
`CountTotal`, `Answer`). A document is the set of marks that filters look for,
so that "matches" is the same definition for a token of a user that is active and
expires later than now as for a book of a category, author and publisher.
`request` is the handler, `walk` the client, which asks for the next offset until
a page is not full, and a history of what left and joined the list between its
pages; `drift` counts the changes between the two queries of a request. The
inserts and updates are those of the other modules, reduced to the marks.
The order FAVORITES, in which a vote moves a book, is left to `Catalogue`. A book
that is moved between a category and its child while a request is between its
reads of the two counts as one that left the list.

## 3. Runs

| run | instance | shows |
|---|---|---|
| `checkout` | 1 user, a free and a priced book, 2 orders, 2 track ids, 2 verify requests, 2 faults of the product service, pay after failure | `PaidOrders`, `PassedMessagesApplied`, `BasketKeepsBooks` |
| `decided_once` | 1 user, 1 order, a cheap and a payable book, 2 track ids, 2 verify requests, 1 retry, 1 fault of each service, failed attempts final, fairness | `DecidedOnce`: the service implements `TransactionDecision`; `EventsAgree`, `ChargedOnce`, `AnnouncedPaymentDelivers`, `ReturnedBuyerIsServed`, and `OrdersKeepPromise`: an order implements `Sale` |
| `lost_event` | 1 order, 1 fault of the transaction service, fairness | `SuccessfulPaymentDelivers` is violated: finding 1 |
| `plans` | 1 plan with free, cheap and payable prices that change, 1 purchase, 2 track ids, 2 verify requests, 2 faults and 1 of the user service, pay after failure, fairness | `PaidUserPlans`, `PaymentGrantsPlan`, and `UserPlansKeepPromise`: a user plan implements `Sale` |
| `otp` | 2 creators, 2 verifiers, 2 codes, 1 attempt, clock 0..4, 1 fault, fairness | `AttemptsLimited`, `CountersLostToOlderCodes`, `CodesThrottled`, `NewestCodeStays`, `CreatesEnd` |
| `votes` | 3 users, 4 requests, scores 0, 1, 5, 1 fault | `VotesCounted`, `RatingBetweenScores` |
| `rating_scale` | 1 user, 2 requests | `RatingWithinScale` is violated: finding 3 |
| `login` | 2 creators, 2 verifiers, 1 refresher, 2 user ids, clock 0..3, 1 fault | `OneUser`, `AccessEnds`, `CodesUsedUp` |
| `roles` | 2 instances, 2 numbers, an empty database without an index, 3 logins or refreshes, 2 changes of roles, clock 0..1, tokens live 1, 1 fault, fairness | `SuperAdminFirst`, `AdminsAreCurrent`, `InstancesComeUp` |
| `lists` | each of the 7 lists with 3 documents at first and at most 5, pages of 1 and of 2, 4 changes, 2 categories, 1 author, publisher and year, 4 filters, clock 0..2 | `WalkMissesOnlyLeavers`, `WalkRepeatsOnlyForJoiners`, `TotalFollowsList` |
| `catalogue` | 2 categories, 3 authors, 2 publishers, 2 books of which one is stored with a vote, 2 rows of favourites, 2 editors, 1 reader, 3 edits or votes, fairness | `AuthorSlugsUnique`, `BooksComplete`, `FavouritesOrdered`, `RowsCatchUp` |
| `category_tree` | 2 categories, 1 editor, 2 updates | `CategoriesFormTree` is violated: finding 2 |

Each passing run also checks its module's type invariant, except `checkout`,
whose module's is checked by `decided_once`; `TypeOK` of `Checkout` contains
`ServiceTypeOK`. `TransactionService` has no run of its own: its steps and its
properties are checked under its real clients, where a buyer may pay after a failed
attempt (`checkout`, `plans`) and where he may not (`decided_once`), and proved under
any client. Every run has requests of `GET /verify` that come before the buyer pays.
`CompletionIsVerified`, `TransactionsHaveOrders` and `TransactionsHaveUserPlans`,
which the other properties rest on, are proved and in no run. Deadlock is not
checked: every instance serves a finite number of requests and then rightly
stops.

Safety runs treat interchangeable ids as symmetric (track ids, requests and orders
in `checkout`, voters and requests in `votes`, handlers and user ids in `login`);
runs with a liveness property never do.

Why the bounds are enough. Every hazard needs two handlers that race, or one
handler and one fault, or one message that is delivered twice: two requests of
each kind, one fault per service, and one retry reach all of them, and the two
track ids let a retried call leave a payment behind. `checkout` has two orders, so
that messages of both wait in the topic, and faults of the product service only;
`decided_once` has one order, but faults of both services and with them retried
calls, which `checkout` leaves out. Two requests and one payment are also what an
early verification needs to disagree with another. `decided_once` has no free book:
that a free order is COMPLETED at once is in `checkout`. In `Otp` the clock runs to
one more than the time to live, so a code can be replaced and can expire; one
attempt is the smallest limit at which a race of two verifiers can break it. In
`Vote` three users and four requests give a new vote, a replaced one and two that
race them. In `Catalogue` one stored document of each kind, a new slug that two
editors may both ask for, and a reference to documents that do not exist yet let
every check both pass and fail; three edits are enough for two racing inserts and
a book that refers to one of them, or for a vote and an update behind the back of
a reader. In `Roles` a role is given and taken away by hand (2 changes) while a
login, a refresh that gets the role and one that comes after the change race
them; at the time 1 every token that was signed at 0 has expired and one that was
signed again has not. Two instances can both count 0 users, one dies of the
index, and one of them may die once more at any step. In `Lists` three documents
make two or three pages, so that changes fall between pages, between the two
queries of a page, and between a reference and its query; four changes are two
documents that leave and two that join. The theorems lift the bounds for the
properties they cover.

## 4. Fairness

Liveness is claimed under weak fairness of: each step of a handler in flight (the
node event loop runs a handler whose await is answered; a rejected await is a
fault and bounded), the consumer's next step (kafkajs polls), and, in `Otp`, the
acquisition of the lock (async-lock serves its queue; the lock is held for three
awaits and every creator runs once, so weak fairness is enough). In `Catalogue`
the only fair action is `ExpireRow`: Redis forgets a row after 120 s, and the
rows catch up whether or not editors and readers ever go on. In `Roles` it is the
steps of `onModuleInit`, and the start of a process that is down:
docker-compose.yml says `restart: unless-stopped` of the user service. No fairness
is assumed of buyers, browsers, gateways' pages, faults, admins, logins, or time.
That the outcome of a payment is fetched at all depends on the buyer's browser
following the redirect, so no property claims that a paid payment is eventually
verified; `ReturnedBuyerIsServed` begins where that request has arrived and found
its transaction, and goes on to the order through two services and the topic. It
excepts faults of the transaction service, because after one the event can be
lost (finding 1); faults of the product service are made good by redelivery.

## 5. Proofs

Every theorem holds for any values of the constants that satisfy the named
assumptions of its module (finite or not, any number of users, requests, faults).
Every safety property of a passing run, invariant, action property or refinement,
is the statement of one of them.

- `TransactionServiceProofs`: `ServiceInv` is inductive. `CompletionIsVerified`
  alone is not: an update copies the status a handler holds, so the invariant
  says that a handler past the gateway's answer holds COMPLETED only for verified
  money (`VerificationsFollowGateway`), that a call holds an issued track id which
  no other call is about to insert (`CallsHoldIssuedTracks`,
  `InsertionsDistinct`), and that free track ids have no document. From it:
  `ServiceTypes`, `CompletionTheorem`, and `DecisionTheorem`, the refinement of
  `TransactionDecision`, where each step maps to open, settle, complete, fail or
  a stutter. Two more invariants are for the clients. `UrlInv`: a url that was
  given away belongs to a document, nobody pays without the url, and calls in
  flight ask for amounts that the gateway takes. `AgreementInv`: a handler past a
  failure, a stored FAILURE and an announced one have an excuse, that the payment
  failed for good or was asked about early (`FailureExcused`), and an excuse stays;
  a handler that is about to send holds the stored status, whoever stored it,
  unless the payment is in `askedEarly`. Hence `AgreementTheorem`.
- `CheckoutProofs`: `CheckoutInv` extends it to the product service. A `PaidOrders`
  step happens when a message is applied, so messages must belong to orders that
  have a transaction (`MessagesHaveTransactions`), of the order's price
  (`TransactionsHaveOrders`), which the call in flight and the checkout that made
  it must already have (`CallsHaveOrders`, `CheckoutsHaveOrders`). That a rejected
  order never has a payable transaction rests on the gateway's limits
  (`TransactionsWithinLimits`). From it: `CheckoutTypes`, `PaidOrdersTheorem`,
  `TransactionsHaveOrdersTheorem`, and the action property
  `BasketKeepsBooksTheorem`, for which the consumer's order must be COMPLETED
  before it empties a basket (`ConsumerFollowsTopic`). `PassedMessagesTheorem`
  needs the offsets: what lies before the consumer's is decided, and the committed
  offset is never ahead of it. `ChargedOnceTheorem` needs `ChargeInv`: retried
  calls leave several payable transactions of one order, but only the call that
  ends the checkout hands out its url (`UrlsOfReturned`, `OneUrl`).
- `OrdersKeepPromiseTheorem` and `UserPlansKeepPromiseTheorem` are the refinements
  of `Sale`. The consumer overwrites statuses without looking, so a later message
  must not contradict an earlier one: by `ChargeInv` there is one attempted payment
  per order, by `AgreementInv` every event repeats its one outcome, and
  `FailedOrdersExcused` carries the FAILURE of a refused order along
  (`PromiseInv`; `PlanChargeInv` and `PlanPromiseInv` for user plans). A message
  that does contradict belongs to a purchase in doubt. Each step is then a `Place`,
  `Receive`, `Deliver`, `Refuse` or `Doubt`, or a stutter.
- `LoginProofs`, the one-time codes: `OtpInv` says that exactly the holder of the
  lock works on the key and that the code in its hands is newer than the stored
  one and late enough; `OtpTypes`, `ThrottleTheorem` and `NewestTheorem` follow
  step by step. `VerificationInv` is about `verifyOtp`, which takes no lock: an
  accepted code is older than any stored later (`AcceptedCodesAreOlder`), a
  counter outlives its code (`CounterOutlivesCode`) and only the DEL of an
  accepted handler takes it away (`CounterDeletedByVerifier`), and comparisons
  made are no more than the counter counts (`ComparedCounted`). Hence
  `AttemptsLimitedTheorem` and `CountersLostTheorem`.
- `LoginProofs`, the logins: `LoginInv` adds that whoever signs has a user, that a
  refresh in flight read its login before this was deleted, if it was
  (`RefreshersAskedBefore`), and that one which is about to sign knows that the expiry
  date is not over; `LoginTypes`, `OneUserTheorem` and `AccessEndsTheorem` follow.
  `CodesUsedUpTheorem` is `AcceptedCodesAreOlder` carried over to `Login`, whose
  steps are steps of `Otp` or leave its variables alone.
- `VoteProofs`: `VoteInv` counts voters and uncounted handlers and says that what a
  handler read was true of a lower count; a second invariant carries the interval
  of the scores through every stale rating. `VotesCountedTheorem` and
  `RatingTheorem` follow, for any number of users and scores.
- `CatalogueProofs`: `CatalogueInv` says that what an editor has looked for
  exists (`ReferencesChecked`); since documents are never deleted it goes on to
  exist until the book is written, whatever other editors do in between.
  `BooksCompleteTheorem` follows; `AuthorSlugsTheorem` rests on the unique index
  alone, the count of `createAuthor` plays no part in it. `RowInv` has the types
  of the readers and says that a row on its way to Redis is in order; for
  `FavouritesOrderedTheorem` a book with more votes and a higher rating must be
  more popular whatever number of most votes was read before (`PopularityGrows`).
  That a sorted row exists is itself a lemma, `SortedRow`: every entry goes to the
  place that is the number of entries before it, which needs no induction.
- `ListsProofs`: everything rests on one fact about two versions of a sorted list
  (`FewComeForward`): no more documents come from behind the first n places to
  before them than leave from there. `GotInv` relates what the client has got to
  the places it passed: of the documents that stayed, those on the places passed
  were shown but for one for each that left; those shown on a place yet to come,
  and those shown again, are one for each that joined; and the last one shown is
  on a place passed. A new page keeps all of it (`PageMisses`, `PageRepeats`,
  `RisesOfPages`), and a page that is not full passes the end of the list:
  `WalkInvariant`, `MissesTheorem`, `RepeatsTheorem`. `DriftInv` says that the
  answer of the query that ran first and the list as it is differ by the changes
  since, each of which moves one document: `TotalFollowsListTheorem`. `ListsTypes`
  is the types.
- `PlanPurchaseProofs`: `PurchaseInv` is the argument of `CheckoutInv` for the user
  service, where the price can change under a sale: a purchase in flight has a
  user plan of the price that it read (`PurchasesHaveUserPlans`), a call that of
  its user plan (`CallsHaveUserPlans`), and so has every transaction, whatever
  `UpdatePlan` does to the plan. A message is applied to the user plan of its
  transaction, so `PaidUserPlans` follows: `PaidUserPlansTheorem`,
  `TransactionsHaveUserPlansTheorem`, `PlanTypes`. Both proofs share the lemma
  `NewTransaction`: a new document comes from a call in flight, with its amount.
- `RolesProofs`: `RolesInv` says that an instance serves only when there is a
  user (`ServingIsLater`), the first of whom is the super admin, so a login that
  inserts a user never inserts the first, nor one with his number:
  `SuperAdminIsFirst`, for any number of instances, with or without the index.
  Handlers and tokens name users that exist (`TokensHaveUsers`), and the role in
  them is the user's own or was lost no earlier than it was read
  (`SignedRolesWereHeld`), from which `AdminsStayCurrent` follows with the life
  of a token; `RolesTypeCorrect` is the third theorem.

Assumptions are those of the modules: amounts are naturals and contain every
order's price, ids of orders and user plans differ, sentinels are not data,
`Timeout < Ttl`, `Slack > 0`, the super admin's number is one of the numbers,
voters and requests are finite sets, stored documents have their types, differ
in their slugs and stored books are complete. Every one is evaluated by TLC in a
passing run, and no theorem has a hypothesis besides.

Only model-checked: the liveness properties (`AnnouncedPaymentDelivers`,
`ReturnedBuyerIsServed`, `PaymentGrantsPlan`, `CreatesEnd`, `RowsCatchUp`,
`InstancesComeUp`), because fairness and ENABLED are beyond the prover. The
inductive invariants were checked by TLC on the instances of the runs before
they were proved.

## 6. Findings

1. *An event can be lost* (transaction.service.ts:124): when the handler dies or
   an await rejects between the update and the send, the transaction is
   COMPLETED, every later request is only redirected, and the order stays
   PENDING with its books in the basket; README.md:45 says that the basket is
   emptied when the transaction is successful. Run `lost_event`.
2. *Categories need not form a tree* (category.service.ts:116): `updateCategory`
   looks for the parent among the categories that *have* it as their parent, and
   never at its ancestors, so two updates, one after the other, make two
   categories each other's parents; README.md:18 says that they form a tree. The
   same check refuses an existing parent that has a child and accepts one that
   does not exist. Run `category_tree`.
3. *A rating of Infinity* (vote.service.ts:40): two requests of one user that both
   read a book without votes divide by the 0 they read. Run `rating_scale`.

Observed while modelling, with no text of the repository against it:

- `GET /verify` has no guard (transaction.controller.ts:47) and asks the gateway
  whatever the state of the payment: a request that comes before the buyer has paid is
  answered 202 and stored and announced as FAILURE (transaction.service.ts:119), and
  the buyer may then pay a transaction that no later request will verify. If a
  handler that had read PENDING before still does, COMPLETED is announced too, and the
  order or user plan ends with the message that was sent last. `EventsAgree` and `Sale`
  say that this is the only way to such a disagreement;
- a logout does not stop a refresh in flight: one that has read the token signs after
  the second query, and its access token lives its full 600 s;
- a code can live without its counter: `verifyOtp` takes no lock, so the DEL of a
  verification with the old code (otp.service.ts:109) may come between the two
  SETEX of `createOtp`; every use of the new code is then rejected until it can be
  replaced. `CountersLostToOlderCodes` says that this is the only way;
- a deleted plan is still sold to anyone who knows its id (user.service.ts:263
  looks for the id alone);
- racing requests can store one slug for two categories or two publishers, which
  have no unique index;
- a purchase of a plan of price 0 stays PENDING for ever, while a free order is
  completed at once; and the days of a user plan run from the purchase
  (user.service.ts:281), not from the payment;
- two instances that start at once on an empty database can both store the super
  admin as long as the index is not built, and it then cannot be built any more;
  docker-compose.yml runs one instance of the service;
- a role that is taken away in the database goes on for the life of an access
  token (600 s), since no guard asks the user service;
- paged lists are offsets into a collection that others change: a walk can skip
  documents, and a client that stops at `total` can miss the oldest;
- nothing writes `salesCount`, so the best sellers are the newest books;
- docker-compose.yml:66 gives the user service `http://transaction:3002/api`, while
  the container of the transaction service listens on 3000 (lines 117, 157).

## 7. Not modelled, and why

- `getBook`, `getBooks` of a basket, `getUser`, `getProfile`, `getUserPlans`,
  `getAllPlans`, `getTransaction` and the like: one query whose answer is returned;
  they change nothing and keep no place.
- Titles, texts, nicknames and addresses: no step of the modelled handlers
  depends on them; those of the catalogue are a version, because rows show them,
  and a nickname is there or not.
- Secrets, captcha, controllers and DTOs: checks without state in front of a
  handler. The role check is in `Roles`; in the other modules the caller may do
  what he does.
- notification, ip2location: stubs that log or return a constant.
- Real time beyond the clocks of `Otp`, `Login`, `Roles` and `Lists`: timeouts of
  HTTP calls are dropped connections.
- Several partitions of a topic: events of one order could then overtake each
  other only if they had different keys; the topics are used with one consumer.

## 8. Plan

1. An abstract specification of the throttled code, implemented by `Otp`, and one
   of a row that is at most its time to live behind the catalogue.
2. `Vote` composed with `Catalogue`, so that rows show the ratings that racing
   votes leave behind, and `Login` with `Roles`.
3. Safety parts of the liveness arguments as theorems: what holds of a message
   until it is applied, of a verification until it has sent.
