# Verification of textilBackend

TLA+ models of the backend's own logic, TLC configurations that check them on
small instances, and TLAPS proofs of every safety property they check. Paths below are relative
to `src/`; `E/` stands for `core-api/app/entities/`.

Run everything in this directory: `tlc -config X.cfg M.tla` for a run of the
table in section 5, `tlapm M_proofs.tla` for the proofs of each `M_proofs`.

## 1. The system

Two FastAPI services, `core-api` and `chat-service`, share a Postgres database,
a Redis and the package `shared/`. They are stateless: several instances of each
may serve requests at the same time. All durable state is in Postgres, at Stripe
and at Mercado Pago (MP); Redis carries rate-limit counters and chat messages.

**One request, one transaction.** `get_db_session` (`shared/db/session.py`) opens
one `AsyncSession` per request; the router commits after its service returns, and
an exception before that rolls everything back. The isolation is Postgres'
default, READ COMMITTED. Nothing in the code locks a row (`FOR UPDATE`), uses a
version column, or re-reads what it read. This is the source of most of the
hazards below, and every model shares one picture of it:

- a row keeps, in a session, the values of its first load (the identity map,
  `expire_on_commit=False`); checks are made on these values, after any number of
  awaits on the database or on a payment provider;
- a flush updates the columns whose value differs from the loaded one, to the
  absolute value the session computed; other columns are not touched;
- an update of a deleted row fails, a delete of a deleted row does nothing,
  unique and foreign keys and CHECKs are enforced at the flush;
- a flush and the commit that follows it directly are one atomic action.

### Components

| component (code) | state | operations | correct when |
|---|---|---|---|
| Marketplace payments (`E/marketplace_payments`) | `order_payments` rows, `orders.financial_status`, the organization's MP account; at MP: preferences, payments | start checkout, refund, webhook, account connection | rows tell what MP did; a refund hits the payment it is for; no charge without a row; captured money is recorded |
| Stripe legacy payments (same file, dispatched by `E/plans/router.py`) | the same rows, with Stripe ids | checkout completed / failed, transfer, refund, dispute, account snapshot | late and reordered events do not undo newer ones, events hit their own payment |
| Amounts and fees (same file) | none | amount in cents, 10% fee with a minimum, net, summaries | a payment charges its order, fee and net make up the amount |
| Team (`E/team`) | `organization_members`, `organization_invites` | update / delete member, create / cancel / accept invite | an owner remains; an invite admits only while it is pending |
| Inventory (`E/inventory`) | items with `current_stock`, movements | create / edit / delete item, movement in / out | the stock is what the movements say; no overdraft |
| Reviews (`E/reviews`) | reviews, the provider's `review_count` and `rating` | create review | the columns agree with the reviews |
| Rate limiting (`shared/security/rate_limit.py`) | a Redis counter with a time to live | attempt | at most n attempts per window, and windows end |
| Plans and subscription (`E/plans`) | `subscriptions`, `plans`; at Stripe: subscriptions | default plans, upsert, Stripe events, change, cancel | the row agrees with Stripe once all events are in; entitlement follows it |
| Identity and sessions (`E/identity`) | users, organizations, OAuth accounts, refresh tokens | register, OAuth upsert, login, rename, refresh rotation, logout | one organization of its own per user, a refresh token is used once, the provider profile follows the organization |
| Chat conversations (`E/chat`) | conversations, members, read marks | get-or-create for provider / interest / order, mark read | one conversation per subject; members of both sides |
| Chat delivery (`chat-service/app/entities/chat`) | WebSocket subscriptions, `messages`, Redis channels | join, message, fan-out, backfill | what is acknowledged is stored and reaches members, live or by backfill |
| Cost calculations (`E/costs`) | calculations, material and labor lines, totals | add / edit / remove lines, recalculate | totals agree with the lines |
| Orders and batches (`E/orders`) | orders, batches | create with a generated code, update, delete | the financial status is the payments', codes and lots are unique |
| Interest requests (`E/interest_requests`) | requests with a status | create, respond | decided once |
| Favorites, network (`E/favorites`, `E/network`) | favorites, provider profiles | toggle, profile upsert | no duplicates |
| Technical sheets (`E/technical_sheets`) | sheets, their rows of steps | create, patch | the total is the sum of the sizes; a step is what was last said of it, as a whole |
| Permissions (`shared/security/permissions.py`) | none | role, permission, plan and profile matrix | - |
| Database session and schema (`shared/db`) | - | transactions, constraints, cascades | part of every model above |

Utilities without logic of their own (JWT, hashing, logging, configuration,
health, application wiring) and Alembic migrations are not modelled and will not be.

### How they interact

- `E/plans/router.py` receives the Stripe webhook and calls the legacy handlers of
  `marketplace_payments`. MP's webhook comes to `marketplace_payments/router.py`.
- Deleting an order (`E/orders`) cascades to its payments, under the feet of open
  checkouts, refunds and webhooks.
- Almost every route asks `shared/security/permissions.py` for the caller's
  member row (Team) and the organization's plan (Subscription), at the start of the
  same transaction.
- Login picks a user's first organization; joining a second one by an invite
  (Team) changes what Identity finds.
- Chat-service reads `conversation_members` that core-api wrote when the
  conversation was made; later members of the organization are not added.
- Authentication routes call the rate limiter before anything else.

### What is hard here

Requests interleave at every await; MP and Stripe deliver at least once, in any
order; a call to MP takes effect although its answer is lost or the commit after
it fails; checks are made on stale rows; counters and aggregates are written as
absolute values; Redis fails between two commands. `PROJECT.json` lists each
hazard with its line and the properties that cover it.

## 2. Modules

| module | models | extends |
|---|---|---|
| `PaymentLedger` | abstract: what payment rows promise | - |
| `MarketplacePayments` | checkout, refund, webhook, account connection, order deletion, and MP | refines `PaymentLedger` |
| `MarketplacePayments_proofs` | inductive invariant and proofs | `MarketplacePayments`, TLAPS |
| `Team` | members and invites | - |
| `Team_proofs` | inductive invariant and proofs | `Team`, TLAPS |
| `Inventory` | one item and its movements | - |
| `Reviews` | one provider's reputation | - |
| `Reviews_proofs` | inductive invariant and proofs | `Reviews`, TLAPS |
| `RateLimit` | one Redis counter | - |
| `Subscription` | the subscription row of an organization, and Stripe | - |
| `Subscription_proofs` | inductive invariant and proofs | `Subscription`, TLAPS |
| `StripePayments` | the Stripe webhook on the old Stripe payments of an order | - |
| `StripePayments_proofs` | inductive invariant and proofs | `StripePayments`, TLAPS |
| `Costs` | one cost calculation and its lines | - |
| `Orders` | orders, batches, what a checkout charges | - |
| `TechnicalSheets` | one technical sheet and its rows of steps | - |
| `Workshop` | inventory, costs, orders and sheets, of which one moves | `Inventory`; instances of `Costs`, `Orders`, `TechnicalSheets` |
| `Workshop_proofs` | inductive invariants and proofs of the four | `Workshop`, TLAPS |
| `Identity` | accounts, sign-in, refresh tokens, provider profiles | - |
| `Accounts` | `Identity` and the limiter before its login, interleaved | `Identity`; instance of `RateLimit` |
| `Accounts_proofs` | inductive invariants and proofs of both | `Accounts`, TLAPS |
| `Conversations` | the making of conversations, interest requests | - |
| `ChatDelivery` | one conversation's messages, sockets, backfill, read marks | - |
| `Chat` | both services' part of the chat, interleaved | `ChatDelivery`; instance of `Conversations` |
| `Chat_proofs` | inductive invariants and proofs of both | `Chat`, TLAPS |
| `MC*` | instances for TLC (symmetry, constraints) | the module they name; `MCIdentity`: `Accounts` |

Each module has the wrong variants of its actions next to them ("Wrong variant:
..."): a plausible bug, used to see that a property notices it. They are in no
next-state relation.

### MarketplacePayments

State: `orders` (financial status), the `order_payments` rows as the functions
`payStatus`, `payOrder`, `payMp`, the account (`connected`), and at MP the payments
(`mpOf`, `mpStatus`, with the history `mpSeen`). `urls` are the payments whose
checkout URL left the server, `notify` the notifications not yet answered with 200.
`tx[w]` is worker w's open transaction: where it is, the rows it has loaded and
the values it saw.

| code | actions |
|---|---|
| `create_checkout_session` | `LoadCheckoutOrder` (order loaded, checked), `InsertPayment` (account, current payment, flush of the new row), `CommitCheckout` (MP answered; commit; the response may be lost) |
| `request_refund` | `LoadRefundOrder`, `LoadRefundPayment` (guards), `MpAcceptsRefund` (MP acts), `CommitRefund` |
| MP webhook | `StartWebhook` / `IgnoreWebhook` (row found or not), `FetchMpPayment`, `LoadWebhookOrder`, `CommitWebhook` |
| OAuth callback | `ConnectAccount` |
| any exception, timeout, crash | `Abort`: rollback, MP keeps what it did, the notification comes again |
| order deletion | `DeleteOrder` |
| buyers and MP (external) | `BuyerPays`, `MpAdvances`, `Redeliver` |

Abstractions: one organization (ids of another one are answered like missing
rows). An amount that is not positive and a colliding receipt number end in a
rollback, which `Abort` covers. `partially_refunded` and `refunded` are one
status: every rule treats them alike. `payout_sent` is only ever written by the
Stripe path and is kept in the guards. Payment ids are numbered by the start of
their transaction, because `created_at` is the transaction's `now()` and "the
current payment" is the latest by it. Orders are created outside the model.

### Team

`members[u]` is a row (role, status) or NULL, `invites[i]` a status. A
request passes through `Authorize` (active owner), a load, the owner count where
the code counts, and a commit; acceptances load the invite, look up the member, and
commit. `AfterCommit` keeps track of what other sessions can no longer do (update
a deleted row). Abstractions: the status "pending" of a member behaves as
"inactive"; job titles and permission lists are left out; the stored invite status
"expired" does not exist because the code's write of it is rolled back together
with the 400 that follows.

### Inventory

`stock`, `min` and the committed movements of one item. Quantities are whole
ten-thousandths and columns hold multiples of `Unit` (a thousandth), so that the
rounding of Numeric(12, 3) is in the model; binary floating point error at exact
halves is not. `drifted` is a history variable: has a movement been committed
that overlapped another commit, or been rounded away.

### Reviews

`reviews` is the count and sum of the committed reviews, `provider` the two
columns. `Aggregate` sees committed reviews and its own. `SameRating` decides
whether the flush writes the rating: the float average and the loaded decimal are
equal only for binary fractions.

### RateLimit

One key. `Incr` and `Expire` are separate Redis commands; `FailBeforeExpire` is a
failure or a dead process between them; `Pass` and `Refuse` are the answer, after the
comparison with the limit; `Tick` is Redis' clock. The counter is capped at one more than the
limit, where the code stops telling values apart. `granted` is booked where an attempt passes,
and belongs to the key's life: an attempt that outlived its key is in `late` and is not booked
on the next one.

### Subscription

`row` is the organization's subscription, `stripe[s]` the state of each of its
Stripe subscriptions, `events` what Stripe has not been answered yet. The two
events of a checkout carry one number, because they show one change.
`ReceiveEvent`/`LoadForEvent` are the webhook; `LoadForBasic`, `LoadForChange`,
`StripeModifies`, `LoadForCancel`, `StripeCancels` are the two routes by which an organization changes its
plan; `Commit` writes the columns that `Prepared` found changed.
Abstractions: "trialing" is "active"; trial ends and customer ids are left
out (no decision depends on them here); the plan in a subscription's metadata is the one it
is billed for, which a change of plan in Stripe's own portal would break.

### StripePayments

The rows of one order that were begun at Stripe, before the marketplace moved to MP. No code makes
them any more, but Stripe goes on reporting about them. `charge[i]` is what
became of payment i at Stripe and `Reports` the events it may deliver of it,
in any order and again. A handler finds its row by the checkout session
(`LoadBySession`), by the payment intent (`LoadByIntent`), or by the order as its newest row
(`LoadByOrder`), then reads the order, and commits `Outcome` into the changed columns
of both. `LoadCheckout` and `CommitCheckout` are a checkout at MP beside it, with its wait for
MP between them. `guessed` are rows that got their intent by `LoadByOrder`; `settled` are rows
whose payout or refund was recorded and not contested since (`Standing`).

### Costs, Orders, TechnicalSheets

`Costs` has one calculation. `CreateMaterial` ... `DeleteLabor` load a line,
`LoadCalculation` the calculation, `ListLines` all lines under READ COMMITTED,
and `Commit` flushes five totals. Totals are exact integers and fractions; floats and the
rounding of columns are left out. A line is locked from its flush to its commit,
the calculation from a revision's flush to its commit.

`Orders` has orders, batches and payments of the amount charged. `Amount`, `Fee` and
`Net` are the code's, in ten-thousandths and cents, rounded halves up. `LoadForEdit` and
`CommitEdit` are a PATCH; `LoadForCheckout`, `PostCheckout`, `CommitCheckout` a checkout
with its wait for MP; `PaymentReported` is a webhook in one step
(`MarketplacePayments` has all of its steps).

`TechnicalSheets` has one sheet. `LoadSheet` sets the sizes, `ReadStep` selects
the next row the body names, which first flushes, and so locks, what was set before
(`CanFlush`). Two patches may wait for each other: PostgreSQL then ends one, which is `Abort`.

The answer to a PATCH of costs, orders and interest requests reads `updated_at`,
which the UPDATE has expired; whether the session reloads it or the request fails there
depends on the library, so both a commit and an abort are possible in the models.

### Identity

`users`, `orgs`, `members`, `profiles`, `tokens` are tables. `LookUpEmail` begins a
registration, `LoadForLogin` and `LoadForGoogle` a sign-in, `LoadForRename` a
PATCH of the account; `ReadOrg` and `ReadProfile` go on, and `CommitNewOrg` or
`CommitProfile` ends with a new refresh token. `LoadToken`, `RevokeToken`,
`CommitRotation` are the refresh. Invites, changes of status and removals (`Join`,
`ChangeStatus`, `Remove`) are Team's, one step each here. `missed` of a
transaction are the kinds of commits that others made since it began.

### Conversations and ChatDelivery

`Conversations`: a request looks for the conversation with a provider, of an interest request or
of an order (`LookUp...Conversation`), lists whom to put in (`ListRecipients`) and
inserts it with its members (`CommitConversation`), under the constraints that the schema has
(`CanInsert`). Members are seats, a user in one of the two organizations, because a user may
belong to both; `FirstSeats` is the code's deduplication by user. Interest requests are created
and decided beside it.

`ChatDelivery`: `socket[d]` is a websocket handler, which serves one message at a
time: `BeginMessage`, `StoreMessage`, `Publish`, `Ack`. `inbox[d]` is what Redis has
queued for its reader task, which may die unnoticed (`LoseReader`). `Backfill` is the HTTP
request for missed messages, `client[d]` what the client has on its screen and where it goes on
asking. A message is known by `created_at`, which is the *beginning* of its
transaction. The two services' clocks are taken to agree, and no two messages to have one time.

## 3. Properties and what they are about

Type invariants (`TypeOK`) are one per module. The others:

| property | says |
|---|---|
| `ImplementsLedger` | payment rows behave as `PaymentLedger`: a row is opened once, settled only with what MP reported for it, never reset, and nothing is reported for a payment without a row |
| `OrderIsBacked` | an order's financial status was reported by MP for one of that order's existing payments |
| `RefundHitsOwnPayment` | a row's MP id, and the id of a refund in flight, belong to that very row |
| `EveryChargeHasItsRow` | what a buyer paid has a committed row, unless the order was deleted |
| `QuietMeansMirrored` | when all notifications are answered, the row shows the present status of one of its attempts, unless a transaction wrote to it that had read before another commit |
| `OrderFollowsPayment` | an order with one payment shows that payment's status at any time, unless a stale write tore it or a refunded payment is paid again |
| `CaptureIsRecorded` (liveness) | an approved payment's row leaves `checkout_created` |
| `OwnerLostOnlyByRace` | the last owner goes only by a removal that overlapped another change |
| `JoinedByClosedInvite` | a member who is no founder was admitted by an invite, and that invite is never pending again |
| `StockIsItsMovements` | the stock is opening + in - out, unless a movement was lost by overlap or rounded away |
| `ReputationIsRepaired` | the columns are right whenever their last writer was not overlapped |
| `CountNeverOverstates` | a reputation never counts a review that does not exist |
| `PaidPlanWasPaid` | a paid plan that opens modules was active at Stripe on the subscription the row names, unless a stale commit mixed columns |
| `Subscription!QuietMeansMirrored` | when all events are answered the row is what Stripe shows of the subscription it names, unless its last writer was late, stale, or a local downgrade |
| `IntentsAreOwn` | a row has the payment intent of another one only if a charge's event came before the session's own and was put down to the newest row |
| `OrderMirrorsLastEvent` | the order has the status of the row written last, unless that request overlapped another one |
| `PayoutIsNotUndone` | a payout or refund that was recorded without an overlap stands, however late or often a session is completed, until a dispute, a failed session or an overlapped completed one is recorded of the payment |
| `CalculationTotals` | totals, cost per unit and suggested price are those of the lines, unless their last writer overlapped a commit |
| `CalculationLines` | a line costs quantity times price, unless its last edit overlapped a commit |
| `OrderCharges` | a payment charges its order to the nearest cent unless the order was edited since; fee and net make up the amount, or the minimum fee takes it all |
| `OrderStatus` | no request of the orders API changes the financial status that payments gave an order |
| `SheetConsistency` | the total is the sum of the sizes, and a step is as the last request that named it left it, unless that one overlapped a commit |
| `OneHome` | a user has one organization of its own (two make every later sign-in fail), but for overlapping sign-ins and removals |
| `ProfileFollowsOrg` | the provider profile has the organization's name unless its last writer overlapped another change of names |
| `ExchangedOnce` | a refresh token is exchanged once, by an active member, unless the exchange overlapped another one or a change of memberships |
| `ConversationsConsistent` | one conversation with the provider, one of each order but for an overlap, with somebody of both sides in it, or nobody of the other, and nobody twice (but for the requester who is the provider's only active member); an interest request is decided once but for an overlap |
| `NothingIsMissed` | nothing uncommitted is shown, and a client that joins and then asks until an answer is not full misses nothing published that is later than where it began to ask |
| `UnreadIsNews` | the unread count is of others' messages stored since the mark, except those being stored at that moment |
| `AttemptsAreLimited` (`LimitHolds` of `RateLimit`) | at most `MaxAttempts` of the attempts that a key counted pass while it lives |
| `WindowEndsUnlessOrphaned` (liveness) | a window ends unless the first attempt's EXPIRE was lost |

Several of these name the exact condition under which the code is wrong, with a
history variable (`torn`, `raced`, `drifted`, `lost`, `stale`, `edited`, `guessed`,
`settled`, `behind`, `doubled`, `contested`): they show that the lost
update is the *only* way to go wrong, and that rollbacks, lost responses, and
repeated or reordered notifications are not.

## 4. Where code and documentation disagree

The run `team_last_owner` shows it (TLC finds `OwnerRemains` violated);
`PROJECT.json` quotes the lines.

- `OwnerRemains`: two owners remove each other (or two removals overlap); both
  counted two owners (`E/team/service.py:88`, `:121`).

Three more are the exceptions that invariants above name, and have no run of their own:

- An acceptance that read "pending" writes "accepted" over a cancellation committed
  meanwhile (`E/team/service.py:208`); the check says "invite not pending".
- Overlapping reviews leave a count that misses one (`E/reviews/service.py:15`, whose docstring
  promises consistency): `lost` of `ReputationIsRepaired`.
- A lost EXPIRE leaves a counter without a time to live; from then on every attempt
  is refused (`shared/security/rate_limit.py:20`): `Orphaned` of `WindowEndsUnlessOrphaned`.

Behaviour that the models show and no document rules out, for the team to know:

- Two concurrent webhooks (or a webhook and a refund) on one payment may leave the
  older status in the row; nothing corrects it until MP notifies again.
- A redelivered notification of a rejected first attempt moves a paid row back to
  `payment_failed`: a row remembers only the last attempt it heard of, and
  `mercado_pago_payment_id` may then name an attempt that MP will not refund. A pending
  attempt's notification moves the id of a paid row as well, and leaves it paid.
- If a refunded payment is approved in a second attempt the row stays `refunded`
  and the order reads `paid` (`OrderFollowsPayment` states this exception).
- The URL of an earlier checkout stays payable after a new checkout, so an order
  can be captured twice; each capture has its own row.
- After an order is deleted, MP's notifications about it are answered with 200 and
  dropped.
- An event about an earlier subscription (its deletion, say) takes the row over
  although a newer subscription is active (`E/plans/router.py:106`).
- After a cancellation the status `cancel_at_period_end` closes the paid modules at
  once, until Stripe's own event about it writes `active` again; which of the two
  remains depends on the order of the two commits. Login meanwhile reports
  the plan (`E/identity/repo.py:107` lists other statuses than `permissions.py:96`).
- A change to basic leaves the Stripe subscription running; its next event
  restores the paid plan.
- Two overlapping withdrawals both pass the stock check, and together take more
  than there is (`E/inventory/service.py:199`): the `drifted` case of
  `StockIsItsMovements`.
- A Stripe event on a charge that comes before `checkout.session.completed` is put down to the
  order's newest row, a payment at MP perhaps. When the session's event
  then gives the intent to its own row, two rows have it and every later event on the
  charge fails (`E/marketplace_payments/service.py:624`).
- A payment at Stripe that was passed on or refunded, and is then disputed, becomes merely paid when its
  `checkout.session.completed` is delivered once more: only `payout_sent` and `refunded` are kept
  (`E/marketplace_payments/service.py:591`, `:720`), a dispute is not, and what was before it is
  forgotten. No overlap is needed. A failed session has no such check at all (`:612`).
- If the requester is the only active member of the provider's organization too, a conversation with the
  provider is made with nobody on the provider's side (`E/chat/repo.py:103`); it is the
  organization's one conversation with that provider from then on.
- An order may be edited after, or while, a checkout charges its old price; nothing
  compares the two again.
- Whoever leaves the last organization signs in by Google into a new one, and not at all by
  password; whoever accepted an invite beside an own organization cannot sign in any
  more, because `scalar_one_or_none` raises on two (`E/identity/repo.py:95`).
- Only one of several interest requests to a provider can have a conversation, and
  none if there is a provider conversation already
  (`uq_conversation_org_provider`).
- `POST /conversations` answers that recipients "must be active members", but
  `find_missing_org_members` accepts inactive ones (`E/chat/service.py:12`).
- The permission to chat is read when a socket opens and not again.
- A message that began first and was stored last is missed by a client that asks only for
  what came after its newest message, and is never unread for whoever marked the conversation
  read in between.
- The owner count includes inactive owners, so an organization may be left with
  none that can act.

## 5. Runs

| run | instance | states | shows |
|---|---|---|---|
| `payments_race` | 2 orders, 2 checkouts, 1 MP payment, 2 workers | 734k | safety of rows under two concurrent requests on the same or different orders; refinement |
| `payments_attempts` | 1 order, 1 checkout, 2 MP payments, 2 workers | 1.8M | two attempts at one payment, notifications in any order |
| `payments_live` | 1 order, 1 checkout, 1 MP payment, 2 workers | 48k | captures are recorded |
| `team_race` | 1 founder, 1 other user, 1 invite, 2 workers | 714k | owners and invites under overlap |
| `team_last_owner` | 2 users | - | the disagreement of section 4 |
| `reviews` | 4 reviews, ratings 1, 4, 5, 3 workers | 750k | reputation under overlap |
| `rate_limit` | 3 clients, limit 2, window of 3 ticks | 17k | end of windows, with failures |
| `subscription` | 2 subscriptions, 2 paid plans, 2 workers, 2 changes at Stripe | 689k | events in any order beside local changes |
| `stripe` | 2 rows, of which 1 or 2 from Stripe, 2 workers | 4.9M | old Stripe payments, events in any order and repeated, beside a checkout |
| `workshop` | 2 workers; inventory with quantities 0.0004, 0.0005, 0.002; a calculation of 2 lines, quantities 0 and 2; 1 order, 2 batches, 2 payments; a sheet of 2 sizes and 2 steps | 1.2M | what is derived from other rows, under overlap and rounding |
| `identity` | accounts: 1 user, 2 organizations, 2 names, 2 tokens, 2 workers; sessions: 3 tokens, no renaming; homes: 3 tokens, 3 organizations, no invites; limiter: 3 clients, limit 2, window of 3 ticks | 693k | accounts and sessions under overlap, beside changes of the team; the limit on login attempts |
| `chat` | conversations: 2 users and the provider's 2, one of them the same, 2 interest requests, 1 order, 2 workers; delivery: 2 devices, 2 messages, answers of 1 | 730k | the making of conversations, decisions, delivery, read marks |

Why the bounds are enough: every hazard above is between two requests, or one
request and its own repetition, so two workers reach it; a third (Reviews)
shows that a late request can undo two others. Two checkouts on two orders give
both "another payment of the same order" and "another order's payment"; two
attempts at one payment are the fewest that can be reordered. In `team_race`
the second user can become an owner, be removed and be invited again. The
quantities of the inventory are one that rounds to zero, one exactly half way, and
one that is exact. In the limiter (`rate_limit`, `identity`) three clients can be first, last allowed, and
refused at once, and a slow EXPIRE can fall into the next window.

In `subscription` two changes at Stripe are the fewest that can be reordered, and two
subscriptions the fewest that can be mixed up; with a third change and one
subscription (3.9M states) the same properties hold.

`workshop`, `identity` and `chat` hold several components that share no state: one behaviour
moves one of them, chosen in its first state (`part`), so a run explores each
component's own state space and the sum of them. (`Accounts` and `Chat`, which the proofs
are about, interleave their two components freely; only their MC modules have `part`.) An invariant of a component depends on
that component's variables alone, so no interleaving of two is lost. In `chat` there are five parts: the making of conversations with the provider, that of the others, and
the decisions of interest requests, because no guard of one reads what another one writes once
an interest request exists; and backfills and read marks, which share nothing but the messages.
Memberships change beside each of the first three.

In `stripe` one checkout at MP is open at a time, and the second row is either Stripe's or a newer one of MP, which are the two
that an event can be put down to. In `workshop` a price of 2 * 0.0025 is half a cent and below
the minimum fee, and one of 2 * 0.0775 is half a cent above fifteen; with a fee of 70% and at least
2 cents both arms of the fee occur; a body of the sheet names both
rows in either order, so that two patches can wait for each other. In `identity` the
second organization can be one that the user joined, or one that a second sign-in made. A
token that was exchanged can be shown again only if there is a third one to give for it, which
is the part `sessions`; two Google sign-ins that each make an organization for a user who lost the
first one need three, which is the part `homes`. In `chat` two messages of two devices with answers
of one row are the fewest with a page that is full and one that is stored out of order; two interest requests
to one provider are the fewest of which one is left without a conversation, and the common user is the one whose
seat the deduplication drops.

The runs of Team and Reviews switch deadlock checking off where the system may
really stop: an organization without an active owner and with no pending invite,
or the bound on reviews used up.

Symmetry is used only where every property is an invariant or a box action
property, never with liveness. `Untorn` (in `payments_attempts`) cuts states whose only payment is torn, of
which both invariants of that run say nothing, for good: `torn` never shrinks.

### Fairness

`payments_live` assumes `FairSpec`: an open request ends, because the HTTP client
has a timeout of 20 seconds and the server answers or rolls back; MP repeats a
notification until it is answered with 200, so a webhook that is enabled again
and again is started (strong fairness, because another notification or the
lack of a free worker disables it in between); and the steps of a webhook that is tried over and over do not
fail every time. Nothing is assumed of buyers, refunds, checkouts or deletions.

`rate_limit` assumes that time passes and that an attempt that was begun ends,
by success or failure. Nothing is assumed of clients making attempts, and they
may go on forever.

## 6. Proofs

Every invariant and every action property that a passing run checks is a theorem,
for any number of users, orders, payments, requests and workers, and so is the refinement of
`PaymentLedger`. Each `M_proofs` follows one path: an inductive invariant, a lemma that
the initial states satisfy it, one lemma per action (or group of actions) that the step keeps it, the
properties from it, and the temporal step by PTL.

| module | theorems (the property each one states) |
|---|---|
| `MarketplacePayments_proofs` | `Invariance` (`IInv`), `TypeCorrect` (`TypeOK`), `RefundsAreTheirOwn` (`RefundHitsOwnPayment`), `ChargesHaveRows` (`EveryChargeHasItsRow`), `OrdersAreBacked` (`OrderIsBacked`), `RefinesLedger` (`ImplementsLedger`), `QuietIsMirrored` (`QuietMeansMirrored`), `OrderFollows` (`OrderFollowsPayment`) |
| `Team_proofs` | `TypeCorrect`, `LastOwnerIsRaced` (`OwnerLostOnlyByRace`), `InvitesClose` (`JoinedByClosedInvite`) |
| `Reviews_proofs` | `TypeCorrect`, `CountIsHonest` (`CountNeverOverstates`), `Repaired` (`ReputationIsRepaired`) |
| `Subscription_proofs` | `TypeCorrect`, `PaidPlansWerePaid` (`PaidPlanWasPaid`), `QuietIsMirrored` (`QuietMeansMirrored`) |
| `StripePayments_proofs` | `TypeCorrect`, `IntentsStayOwn` (`IntentsAreOwn`), `OrderMirrors` (`OrderMirrorsLastEvent`), `PayoutStays` (`PayoutIsNotUndone`) |
| `Workshop_proofs` | `TypeCorrect` (`AllTypesOK`), `StockKept` (`StockIsItsMovements`), `TotalsKept` (`CalculationTotals`), `LinesKept` (`CalculationLines`), `ChargesKept` (`OrderCharges`), `StatusKept` (`OrderStatus`), `SheetsKept` (`SheetConsistency`) |
| `Accounts_proofs` | `TypeCorrect` (`AccountsTypesOK`), `LimitKept` (`AttemptsAreLimited`), `OneHomeEach` (`OneHome`), `ProfileFollows` (`ProfileFollowsOrg`), `TokensExchangedOnce` (`ExchangedOnce`) |
| `Chat_proofs` | `TypeCorrect` (`ChatTypesOK`), `ConversationsKept` (`ConversationsConsistent`), `NoMessageMissed` (`NothingIsMissed`), `UnreadIsOfNews` (`UnreadIsNews`) |

### What is assumed

Only the named assumptions on constants, which TLC evaluates in every run. They say that
NULL is none of the values it stands beside, that bounds are natural numbers, and:
ratings are between 1 and 5; limits and windows of the limiter are at least 1, and so is the
size of an answer to a backfill; there is a founder, and founders are users; there are Stripe sessions, and
no more of them than rows; `basic` is not a paid plan; organizations that a user may join are
organizations; quantities, prices, hours, rates and margins of cost lines and of orders are natural numbers, zero included; the
quantities of the inventory and the pieces of a calculation are positive; the
fee is a percentage with a minimum; a calculation has finitely many lines, of material or of
labor; a device has one user. The two organizations of a conversation may have common
members (`Mine`, `Theirs`).

### The invariants, and why they are needed

No property here is inductive: each speaks of committed rows, and a commit writes what
its transaction read earlier. So every invariant says what an open transaction knows, and
for how long, and most of it has the form "unless something was committed since, what was
read is what is there".

- `IInv` (payments): `TxShape`, what a transaction knows at each of its points: a checkout
  owns a payment id that no row and no other checkout uses; a refund in flight holds a row
  and an MP payment of that very row, and once accepted MP has reported "refunded"; a webhook holds a row, an
  MP payment of it, and later a status that MP had really reported. `RowShape`: a row exists
  as long as its order, only for a begun id; a URL that left the server has a row. `MpShape`: MP
  has payments only on such URLs, and notifies only about these. `ShapeKept` and `CheckoutKept` state when a
  part of `TxShape` survives another request's commit. The refinement follows from `IInv` and
  the step: actions on rows map to `Open`, `Settle`, `Delete` of the ledger, MP's to
  `Report`, everything else to a stutter.
- `NoPayout` and `OrderIsBacked` on top of `IInv`: on this path nobody ever reads or writes `payout_sent`.
- `MirrorInv` on top of both, for what a quiet payment shows: an untorn row shows a status
  that one of its MP payments has, or a notification or a webhook that will bring it there is
  under way; an order with a single untorn row agrees with it.
- `TeamInv`: a caller that no commit overlapped is an owner still (`CallerSound`); a change
  holds the row of its target, and the owners it counted are there (`ChangeSound`); an
  acceptance knows its invite (`InviteSound`).
- `ReputationInv`: what was loaded is no newer than what is committed (`LoadedSound`), and
  what was aggregated counts the request's own review and committed ones only (`FreshSound`); no sum passes five
  times its count, so that the average fits its column.
- `SubscriptionInv`: an event tells of a change that was made, and the newest one of what
  Stripe has (`EventSound`); a request holds what its event says, and a paid plan it is about to write was paid
  (`WorkerSound`); until the newest event is committed, it is pending or held
  (`NothingLost`); since then, the row is Stripe's but for the exceptions
  (`MirroredSinceNewest`).
- `StripeInv`: an event's row was found by its session or charge, or is a guess (`RowFound`);
  what was read is what is committed unless overlapped (`ReadSound`), so that a completed session
  that nothing overlapped has read a payout that stands; and the row of the one open checkout is new.
- `WorkshopInv`: `MovementSound` (stock written = stock read plus or minus the quantity); `CostSound` and
  `Apart` (two requests never hold the lock on one line);
  `OrderSound` and `PaymentSound` (fee and net are functions of the amount, and the amount is
  the charge of the order unless it was edited); `SheetSound` (what was set was read).
- `IdentityInv`: what memberships and tokens refer to is there (`Referenced`); a sign-in that
  makes an organization is of a user without one (`NewHome`), one in an organization has read
  its name and profile (`InOrg`), and a token being exchanged is good (`Rotating`), each
  unless the request missed a commit of that kind; `OwnsOne` is `OneHome` without its Cardinality.
- `LimitInv`: the attempts granted, and those that are about to be (`Pending`), are together no more than
  counted, and no more than the limit (`GrantedAreCounted`).
- `DeliveryInv`: what is published is stored, and what is stored was begun (`MessagesSound`);
  a client that asks while its reader runs has, or has queued, whatever was published up to
  its cursor, and everything once an answer was not full (`ClientSound`); what was begun before a
  read mark was stored by then, was being stored, or never will be (`MarkSound`).
- `ConversationsInv`: what a request found when it looked (`Found`) and whom it may put in
  (`GoodAudience`), that there is one of each subject (`OneEach`), and that a request has a first decision exactly when it is decided
  (`DecisionsSound`).

`Workshop` moves one of four components per behaviour, as its run does; each component's
specification is a behaviour of `Workshop` with the others at rest. `Accounts` and `Chat` interleave, and a
step of theirs is shown to be, for each component, its step or a stutter (`PartsMove`), so that the invariant
of each is proved about its own `Next`.

Sums over a finite set, a smallest free order and the newest of a page would ask for induction over
the set. The prover cannot instantiate the library's induction theorems, which take an
operator, so these lemmas go by a minimal counterexample instead: the strict subset ordering of a
finite set, and the ordering of the natural numbers, are well-founded, so a set of
counterexamples that is not empty has a minimal element (`WFMin`), and removing one
element from it gives a smaller one.

`IInv` is also checked by TLC, in `payments_race`; the strengthenings of the other modules are in no run, only
the properties that are proved from them.

### Only model-checked

The two liveness properties, `CaptureIsRecorded` and `WindowEndsUnlessOrphaned`: proofs of
liveness need ENABLED, which is out of the proof system's reach. `OwnerRemains` is false
(section 4).

## 7. Plan

Done: every component with a protocol of its own is modelled and checked, and every safety
property that a run checks is proved. Rows that are only inserted, deleted or overwritten
(favorites, hand-made providers, Stripe's `account.updated` snapshot) are not; section 8 lists them. What would say more:

1. Abstract specifications of what other components promise, refined as `PaymentLedger`
   is: a limiter that hands out at most a window's permits; a subscription row that takes
   Stripe's states in some order; a stock that is an atomic counter as long as nothing overlaps.
2. Lemmas that state, for any inputs, the rounding of amounts and fees apart from the checkout that uses them.
3. Runs of the strengthenings, where they fit into the state spaces of section 5.
4. The hazards without a property (`PROJECT.json`), as soon as a document says what is expected.

## 8. Not modelled, and why

- Listings, summaries and receipts read and do not change anything.
- Favorites are rows that only their user inserts and deletes, under a unique constraint;
  providers made by hand and their services are inserted and not changed. Stripe's
  `account.updated` overwrites the flags of the old account's row, which no payment path reads.
- The change of a password, logging out (cookies only), trial ends, customer ids and the
  insertion of the three default plans: assignments that nothing else here depends on.
- The matrix of plans, profiles and permission slugs is a constant table.
- Cryptography, tokens, logging, configuration and health checks are library calls or
  pure input and output. Migrations run once.
- Floating point error, clocks that disagree between instances, and two messages of the same
  microsecond.
