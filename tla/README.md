# Formal models of Prava-Restock

Prava-Restock decides that something has to be bought again (groceries running
low, a SaaS invoice due), asks its user for a passkey approval through Prava,
pays the merchant with a one-time credential, and books the result. What can go
wrong is not in any single function: it is in the order in which several
requests, a worker, the merchant and Prava act on the same few database rows
while processes die in between. The modules here model that part, TLC checks
them on small instances, and TLAPS proves the central results for every size.

All paths are relative to `src/`. Contents:

1. [Inventory of the system](#1-inventory)
2. [The modules and the code](#2-modules-and-code)
3. [What the runs check and show](#3-runs)
4. [Fairness](#4-fairness)
5. [What is proved](#5-proofs)
6. [Findings](#6-findings)
7. [Not modelled](#7-not-modelled)
8. [Plan](#8-plan)

## 1. Inventory

Requests are served by threads of any number of API processes (`ui/api.py`); a
worker process (`workflow/worker.py`) scans triggers, repairs completion
effects and drains the mail outbox; Slack has its own dispatcher thread. They
share one SQL database (`storage/schema.py`, `storage/repository.py`), no
memory. PostgreSQL runs at READ COMMITTED; SQLite is used by the demo and tests.

| component | state | operations | hard behaviour | what makes it correct |
|---|---|---|---|---|
| **Merchant boundary** `merchant/zepto_checkout.py` | `merchant_checkout_attempts` row per idempotency key: state, amount, Prava session, order id, `credential_exposed`, report status and state | `complete_checkout`, `reconcile_checkout`, compare-and-swap `update_merchant_checkout_attempt`, report outbox | several callers on stale copies; crash between remote call and write; lost answers | one order, one payment, exposure durable first, one truthful report, a decision is final |
| **Workflow** `workflow/service.py` | `workflow_runs` row (state, amount, session, active item), `transactions`, `completion_effects`; credential and intent only in memory | `begin`, `act` (approve, skip, adjust), `resume_after_passkey`, `reconcile_checkout`, repair, `mark_expired` from the status poll | transitions are read-then-write without a version check; the credential dies with its process | paid means approved; paid is never forgotten; terminal is final; booked is paid; effects applied once |
| **Spend budget** `workflow/service.py` 96-165 | lease row, sums over runs and transactions | `_budget_scope`, `_enforce_caps`, fences in `begin`, `act` | the check is two queries; leases run out | spend and commitments within the cap |
| **Prava client** `payments/prava_client.py` | `_INTENTS`, `_CREDENTIALS` in memory; sessions and cards at Prava | `create_intent`, `register_intent_context`, `await_mandate`, `consume_credential`, `finalize_credential`, purge | dictionaries without a lock; ageing records; restarts; lost answers | a card is handed out once; an outcome once given stays |
| **Agent** `agent/orchestrator.py`, `merchant/mock_checkout.py` | context in memory, the store of orders in a file | the tools the model calls in any order | repeated and overlapping calls, a lost context | one order per approved intent, caps |
| **Exact quotes, cart lease** `merchant/quote_provider.py`, `workflow/service.py` | one lease row per merchant cart, the cart at the merchant | quote, revalidation, checkout, reconciliation under the lease | the lease is never renewed; a pending checkout leaves it behind; prices move | no run is quoted or sold another's basket; nothing above what the user agreed to is paid |
| **Merchant connection** `merchant/zepto_oauth.py`, `storage/repository.py` | `merchant_connections` row: status, state, tokens | begin, callback, exchange, complete, fail, refresh, store, disconnect | refreshes race each other, a disconnect and a second consent; rotating tokens | the stored token is the newest of the last consent; none at rest without a connection |
| **NANDA payments plugin** `nanda_prava_adapter/.../plugin.py` | one `_PaymentRecord` per reference, in memory | `pay`, `verify_payment`, `refund` | every `await` lets another task in; cancellation; raising executors | receipts tell what was charged; charged and refunded once |
| **Accounts and tenants** `storage/repository.py`, `ui/api.py` | users, identities, memberships, invitations, consents, observations, approval decisions | sign-in, link, create, invite, accept, consent, observe, decide, delete | the check and the write are two transactions; uncommitted inserts are not seen | one account per subject; members were invited; no data without consent; a reached threshold is told |
| **Slack outbox** `channels/slack_dispatcher.py` | `slack_deliveries` rows | claim, post, complete, fail | death or time-out after the post | no message twice |
| **Welcome mail** `common/waitlist_email.py` | `waitlist_welcome_emails` rows with attempts and lease | join, claim batch, send, finalize, release | leases lapse while a batch is sent | bounded requests; a lost row is not overwritten; everybody is served |
| **Hosted invoices** `merchant/saas_invoice_checkout.py`, `payment_executor.py` | attempt rows of the second boundary | `complete_checkout`, `reconcile_checkout`, report | death with the card exposed or a report owed; nothing is ever read back from the vendor | as the first boundary |
| **Worker, trigger scan** `workflow/worker.py`, `workflow/service_routes.py` | lease `trigger-scan`; `tracked_items` rows, `completion_effects` | scan: replay pending effects, list due items, trigger each, `begin` | overlapping scans; rows written whole by requests that read them earlier; one refusal or failure among many items | purchases reach the row once and in order; nothing is bought that is not due; pending effects and due items get their turn |
| **Sign-in throttle** `storage/repository.py` | failure counters | login | window resets | bound on tries |
| **Trigger mathematics** `triggers/`, `forecasting/`, `nanda_trigger_service/` | none (pure) | due dates, recalibration | rounding, zero, boundaries | agreement with a reference definition |
| **WhatsApp, demo stores** | none of their own | forwarding, formatting | | |

How they interact: a trigger calls `begin`, which claims item and budget and
creates a Prava intent; the user's `act` and `resume` move the run; `resume`
hands the credential to the merchant boundary, which reports to Prava; its
result comes back as one of five outcomes, and `completed` is booked in one
transaction with the completion effects. Retries enter the boundary again with
the same idempotency key (`restock-<uuid>`, drawn once by `begin`). Quotes and
checkouts of all runs of one user go through one cart at the merchant, hence the
cart lease; the merchant is called with the token of the user's connection. The
agent and the NANDA plugin are other ways to the same Prava: each is one process
with state of its own, and neither shares rows with the workflow. Accounts and
tenants decide who may call at all.

## 2. Modules and code

| module | models | composed of |
|---|---|---|
| `Checkout` | the merchant boundary of ONE idempotency key | |
| `PurchaseOnce` | its abstract promise: one order, one payment, an outcome that is the merchant's, one truthful word to Prava | implemented by `Checkout` and `InvoiceCheckout` |
| `InvoiceCheckout` | the second boundary: ONE hosted invoice under ONE idempotency key | |
| `Workflow` | one run, from the notification on, and every request on it | `B == INSTANCE Checkout`: the actions of the boundary are conjoined, not copied |
| `SpendBudget` | the runs of one user under the monthly cap | |
| `CartLease` | the one cart of a user, its lease, and the runs that are quoted and paid with it | |
| `MerchantConnection` | the OAuth connection of one user | |
| `PravaClient`, `Agent` | one process' Prava client, and the agent's tools over it | `Agent` EXTENDS `PravaClient` and conjoins its actions with the context |
| `PravaPayments` | one payment reference of the NANDA plugin | |
| `Accounts` | the accounts, and one tenant with everything its members may do to it | |
| `Outboxes` | the Slack and the welcome-mail outbox | |
| `TriggerScan` | the trigger scan and what purchases teach the items | |
| `CheckoutProofs`, `InvoiceProofs` | proofs of the two boundaries, their refinement of `PurchaseOnce` included | EXTEND `Checkout`, `InvoiceCheckout` |
| `WorkflowProofs` | proofs of `Workflow` | EXTENDS `Workflow`; `P == INSTANCE CheckoutProofs` brings in the lemmas about the boundary |
| `CartProofs` | proofs of `CartLease` | |
| `CapProofs` | proofs of the two monthly caps | EXTENDS `SpendBudget` and `Agent` (hence `PravaClient`) |
| `PaymentsProofs` | proofs of `PravaPayments` | |
| `AccountsProofs` | proofs of `Accounts` and of `MerchantConnection` | EXTENDS both |
| `OutboxesProofs` | proofs of `Outboxes` and of `TriggerScan`: what loops do that may die | EXTENDS both |
| `MC*` | instances for TLC | |

Where a proof module extends two components, the definitions of one of them carry
its name (`BudgetSpec`, `ConnectionTypeOK`, `ScanInit`, `scanVars`), so that none
has two meanings.

**Checkout.** `attempt` is the row, `seen[c]` the copy a caller works on,
`merchant` and `prava` the remote sides, `posts` the report requests made. A
caller is a program counter `pc[c]` and one action is what runs between two
points where another caller, the merchant or a crash can intervene: one database
transaction or one remote call.

| action | code (`merchant/zepto_checkout.py`) |
|---|---|
| `Lookup`, `Resume` | the existing-attempt branches of `complete_checkout`: another amount or session is refused, a terminal row is answered, an exposed one reconciled |
| `Reserve`, `BeginOrder` | `reserve_merchant_checkout_attempt` (insert or nothing), swap to `creating_order` |
| `CheckCart` | the cart, address and binding checks before an order |
| `CreateOrder`, `RecordOrder` | `create_payment_link`, and the row after it; a lost answer leaves `ambiguous` |
| `CheckPrice` | final amount against the approved one, exposure written |
| `Consume`, `Execute`, `Executed` | `prava.consume`, the payment page, the row after it |
| `ReconcileOrder`, `PersistOutcome` | order status read, compare-and-swap of the outcome |
| `DeliverReport`, `ConfirmReport`, `PostReport`, `RecordReport` | the report outbox: claim, single post, read-back |

**Workflow.** `RestockRepository.transition` loads the row, checks its state and commits
the columns that differ: `Load` and `Commit` are two steps, because nothing locks the
row or compares its version. `Plan` records the transition a request has decided on (its
branch follows the run as it was loaded first); `Guard` is
`_post_mandate_failure_guard`; `Recover` is `_recover_lost_ephemeral_credential`;
`CompleteAtomically` is `complete_checkout_atomically` (which does lock, hence one
step). `mandate` is Prava's side of each session. `slips` names two accidents: a
transition was committed over another one, or a run was failed for want of an attempt
that another request was about to make.

**InvoiceCheckout.** The invoice exists before the attempt, and the executor (an
operator's executable behind `SubprocessBrowserPaymentExecutor`) says itself how
the payment went; nothing is read back, so an existing row is answered and never
resumed (`Lookup`). Each action is one transaction or one remote call of
`complete_checkout`: `Reserve`, `Expose`, `Consume`, `Execute` (the card is put to
the invoice or not), `Say` (what comes back, an exception or an unparsable amount
included), `Record` (one UPDATE, with the state `StateOf` and the report that is
owed), then `Claim`, `Post`, `Delivered` of `_deliver_report`. Assumed of the
executor: `credential_used` is true exactly when it used the card, and it does
not call an unpaid invoice paid. The branch of a claim that fails cannot be
reached and is left out.

**SpendBudget.** `ReadSpend` and `EnforceCaps` are the two queries of
`_enforce_caps`. `Fence` is `renew_fence`. Everything after an approval is
reduced to `Complete`, `Revalidate` and `Close`, the changes the sums see.
`slipped` is a history variable: it records that one of three named windows was
hit.

**CartLease.** A basket is known by the run whose exact SKU it holds. Every call of a
merchant tool is an action (`ReplaceCart`, `InspectCart`, `PreviewOrder`, `Examine`,
`Revalue`, `CheckCart`, `CreateOrder`, `Pay`), because each may last 45 seconds and the
lease lasts 300 without being renewed. `BeginQuote` and `Lock` are the two ways into
`checkout_scope`: a quote draws an owner name of its own, a checkout has the name of its
run, so that a later request of that run re-enters the lease a pending checkout left
(`Preserved`). `Unlock` and `Finish` leave it. `Adjust` is `act("adjust")`: it replaces
the run's amount and nothing else, so the stored quote (`quote`) and the payment intent
stay those of the old one. `agreed` is a history variable: the amount of the intent the
user approves, or what they put in its place since. `ApproveLate` and `AdjustLate` are
answers whose branch was chosen when the run was still notified and which meet it
waiting for reapproval. `slips` names what may end a lease under its request: it ran out
(`lapse`), or another request of the same run released it (`release`); and a transition
that was written over what another request had made of the run (`overwrite`). What the
boundary does with crashes, credentials and reports is module `Checkout`'s; here it is
reduced to what the cart and the amount can tell apart (`Answers`).

**MerchantConnection.** `row` is the `merchant_connections` row. A token is a pair
of the flow that granted it and its generation, since the provider rotates
refresh tokens and honours the newest one only. `Complete` and `Begin` lock the
row, hence are one step; `RevokeLoad` and `RevokeCommit` are two, because
`revoke_merchant_connection` does not, and the session writes only the columns that
differ from what it read (`Written`). `Store` checks the row's status and not its
grant. `swapped` and `lost` are history variables that name two accidents: the
row took a token of another grant, or the newest token of a grant was lost on
its way.

**PravaClient and Agent.** `intents` and `credentials` are the two dictionaries. The
GIL makes one dictionary operation atomic and nothing more, so `Poll` and
`Publish`, and `Consume`, `Pop`, `Finalize`, `Retire` are steps of a thread. The
agent's tools are actions that any thread may take in any order, which is all a
language model guarantees; `CompleteCheckout` and `PlaceOrder` are the look at the
store and the write under its lock. The cap is compared when an intent is
requested (`Affordable`), with what is booked.

**PravaPayments.** An asyncio task runs alone from one `await` to the next, so an
action is that stretch of code. A remote call and what the task makes of its
answer are two actions (`CreateSession` and `Created`, `Execute` and `Executed`,
`Report` and `Reported`, `Fetch` and `Poll` or `Verified`); between them other tasks
run and the task may be cancelled, which its thread at Prava does not notice.
`raced` names the windows through which a reference can be charged or refunded
twice, `lost` the charged sessions whose outcome nobody learned. `TaskStep` is what
the event loop and the time limit of a call to Prava bring about; the merchant's
executor and refund handler (`MerchantStep`) are awaited without a limit.

**Accounts.** `thread` carries what a request has checked on to where it writes:
`InviteMember` and `Invite`, `AcceptInvitation` and `Accept`, `SetConsent` and
`WriteConsent`, `DecideRun`, `Decide` and `CommitDecision` are the transactions of one
operation. `ApplyEffects` and `CommitEffects` are the two ends of one: what
`apply_completion_effects` does between its look at the consent, which it does not
lock, and its commit. `Decide` inserts the row
and counts those that are committed: another approver's open insert is not seen,
one of the same user is waited for. `Provision` and `Link` are one transaction
each, decided by the unique constraints. A session token outlives
`DeleteUserData`, so every account may call at any time. The history variables
`contested`, `overtaken`, `overlapped` name the overlaps that the properties have
to except.

**Outboxes.** The two halves share no variable. `ClaimBatch`, `Send`,
`SendDisabled`, `RecordMail` follow a pass of
`attempt_waitlist_welcome_email`; `todo` is what is left of its batch.
`MailerDies` frees its owner id, since a new pass draws a new one. In `Post`,
an error says nothing about whether the message is visible.

**TriggerScan.** `rows` are the `tracked_items` rows with the date of the last purchase,
the cadence in tenths of a day (`Learned` is the step of `recalibrate`) and, as a
history, the purchases the row has learned. `history` and `applied` are the
`completion_effects` rows in the order `repair_pending_completion_effects` reads them
(`Before`). A scanner is a program counter with what it holds: the runs still to replay,
of which it takes the oldest, the due list, the item read by `trigger_item`. `Acquire`,
`Replay`, `ReplayWrites`, `List`, `Ask` and `Finish` are the scan; `BeginRefuses`,
`WriteBack` (`upsert_item` of the item the trigger read), `Check` and `Insert` (two
statements of `create_workflow`), `Suppress`, `Announce`, `QuoteFails`, `BudgetLost` and
`IntentFails` are `begin`. The route and the worker differ in what a refusal or an error
does: the route answers it in its list and gives the lease back, the worker's `urlopen`
raises and the process ends with its lease (`Refuse`, `Raise`, `Workers`). A paying
request is the three steps `ReadItem`, `Complete`, `Apply`; what `Workflow` and
`Checkout` say of it in between is left out. The scanners in `Mortal` may die or meet an
error of Prava anywhere. `Renewals`, `PriceMet` and `ColdItems` are the kinds of items
that `should_fire` and the effects tell apart. `slipped` names two windows: `begin`
stored an item read before a purchase taught it something, or a run was inserted on
effects that became pending after they were looked for.

Operators marked *Mutant* in a module are plausible bugs of the definition that
follows them. They are never part of a specification; each property is shown
to fail when one of them takes the place of the code's definition.

## 3. Runs

Two callers are enough for the races in this code: each window is between one
caller's read and another's write. The connection has three requests, since a
refresh, a second refresh and a disconnect can meet. Where there are proofs they
hold for any number. Amounts are two where an equality or a threshold matters (9
and 10: a deviation of ten percent, within the tolerated decrease one way and
an increase the other), one elsewhere. Two sessions are the approved one and
the one of a reapproval. `MaxCrashes`, `MaxExpiries`, `MaxFaults`, `MaxDeaths`, `MaxDay`,
`MaxCancels`, `MaxRefunds`, `MaxGeneration` bound the only unbounded events of the
environment. `CHECK_DEADLOCK FALSE` is used where a run really may end: nothing
has to happen to a terminal run, a served lead or a paid reference. `Symmetry` is
used with safety properties only.

| run | states | bounds | shows |
|---|---|---|---|
| `checkout` | 554,442 | 2 callers, amounts {9,10}, 2 sessions, 2 crashes | one order, one payment, one report (`AtMostOnce`), `PurchaseOnce` implemented (`KeepsThePromise`), which includes that outcome and report are true |
| `workflow_one` | 94,560 | 1 request at a time, amounts {9,10}, 2 sessions, 2 crashes | a pending checkout with a known order is reconciled, an exposed attempt is decided, an owed report is claimed, an approval is used up or given up; the last three unless a crash abandoned the run (`Abandoned`) |
| `workflow_two` | 1,052,047 | 2 requests, 1 amount, 2 sessions, 1 crash | what survives unserialised transitions: payments were approved, bookings are paid; a paid run stays open and an unapproved run is not paid, but for two accidents |
| `budget` | 6,748,886 | 2 requests, 2 runs, amounts {1,2}, cap 3, 1 expiry, 1 crash | the cap holds unless one of three windows was hit, and names them |
| `cart` | 9,701,448 | 2 runs, 2 requests, prices {9,10}, 1 fault | never two runs inside the lease, no foreign basket quoted or sold, nothing above what the user agreed to paid, a pending checkout keeps its cart; each with the slip that breaks it |
| `connection` | 538,009 | 3 requests, 2 flows, 3 generations, 1 death | where tokens may rest, whose consent the used one is of, that it is the newest the provider honours |
| `agent` | 3,181,475 | 2 threads, 2 sessions, 2 references, 1 item priced at the cap, 1 fault | a card is handed out once, an outcome stays, one order per approved intent, the cap |
| `nanda` | 287,642 | 2 tasks, 2 sessions, 1 terms, 1 cancellation, 2 refunds | receipts are true, charged and refunded once, a polled payment does not stay pending unless its executor never answers |
| `accounts` | 6,663,122 | 2 users, one of them possibly provisioned by the script, 1 subject, 1 invitation, 2 threads, 2 required approvals | one account per subject, members were invited, no consent survives a deletion, a purchase is observed only under a consent, a reached threshold is told |
| `invoice` | 88,634 | 2 callers, amounts {9,10}, 2 sessions, 1 crash | one card put to an invoice at most, `PurchaseOnce` implemented, an owed report claimed unless its caller dies |
| `outboxes` | 11,104 | 1 notice, 2 dispatchers, 1 lead, 2 passes, 3 attempts | one message per notice, requests paid by attempts, every lead served |
| `scan` | 424,909 | route and worker, of which the worker may die; an item bought before and one that was not, with its price met; 2 runs, 3 days, cadence 4 days, window 2 | purchases reach the row once and in order, a run is opened only for an item whose row says it is due, both up to two windows; pending effects are applied and every due item is asked for, unless effects are pending that cannot be replayed |

Type invariants, and the inductive invariants that the proofs of section 5 rest on, are
not part of the runs, because they are proved; each was checked by TLC on the instances
above before. `workflow_one` has one caller: with prices that change the run of two is
beyond TLC. The invariants of `workflow_two` were also checked on its instance and hold
there. Larger instances that were also tried and passed: `Checkout` with three callers,
one session and one crash; `Outboxes` with two notices, two leads, batches of two and
two attempts (4.5 million states); `Accounts` with two subjects and no provisioned
account (3.4 million), and with two positive decisions (7.9 million); `TriggerScan` with
three runs (3.9 million), its inductive invariant included. The instances kept are those
that fire every action in a few minutes; the proofs cover the rest.

Every property excepts what a history variable names and nothing else. Such an
exception is not a bug that is looked away from: it is the exact list of the
windows the code leaves open, and a property that failed without it. Section 6
lists what each of them means for a user.

## 4. Fairness

Liveness is stated only where the code schedules something:

* `Checkout` states safety only: whether anybody comes back to an attempt depends on
  its run, so what must happen to it is stated over `Workflow`.
* `Workflow!FairSpec`: a started request is served (weak fairness of its steps), the
  merchant decides what was submitted and gives up on what was not, and not every read
  of an order or report fails (strong fairness of a conclusive read). A run that accepts
  a resume or a reconciliation again and again gets one. The web client and the sandbox
  page call the resume route (ui/web/src/api.ts:373, sandbox-approval.html:324); the
  reconcile route (ui/api.py:2077) is called by no client of the repository, so that
  part is an assumption on whoever operates it. Both actions keep the routes' guards:
  a run that is neither waiting for its passkey nor pending, and whose attempt exists,
  is refused by both, whatever fairness says. `Abandoned` names these runs, which only
  a crash makes, and every liveness property that depends on them excepts them; section
  6 says what they are. No fairness is assumed of the user, of the passkey, of the
  repair pass, or of a crash not happening.
* `InvoiceCheckout!FairSpec`: a started call runs on, no more; a report whose
  caller died is claimed by nobody, and the property says so.
* `PravaPayments!FairSpec`: the event loop runs every task that can run (weak
  fairness of `TaskStep`), and a polling loop that only ever sees `pending` has a
  deadline, which it compares in each round (strong fairness of `Timeout`). A call to
  Prava ends after 20 seconds, with an answer or an error (plugin.py:228, 276). No
  fairness of the buyer, nor of the executor and the refund handler (`MerchantStep`):
  their await has no limit, and `PendingEnds` excepts one that lasts for ever.
* `Outboxes!FairSpec`: the schedule keeps starting delivery passes, which claim
  oldest rows first (so each available lead is claimed infinitely often if it
  is available infinitely often); a lapsed lease is time passing; the provider
  is not disabled for ever. Slack needs no fairness: nothing is promised there
  but "at most once".

* `TriggerScan!FairScanSpec`: the route is called on a schedule and does not find the
  lease taken each time (strong fairness of its `Acquire`), a started scan goes on, a
  lease that nobody uses any more runs out. No fairness of the worker's supervisor,
  of the user, of the paying requests or of the days. The worker may die and meet
  errors of Prava as often as it likes (`Mortal`); the route's scans are assumed not to
  be cut short for ever, since one that is asks for nothing behind the cut.

`SpendBudget`, `CartLease`, `MerchantConnection`, `Agent` and `Accounts`, too, state safety
only: nothing in the code promises that a user comes back, a lease is asked for
again or a second approver decides.

## 5. Proofs

Everything in this section holds for any finite or infinite constants that satisfy
the assumptions the modules name; TLC evaluates them on every instance. They say

* that amounts, prices and caps are naturals, and amounts that are paid positive:
  `AmountsAssumption`, `PricesAssumption`, `PriceAssumption`, `CapAssumption`,
  `MonthlyCapAssumption`, `NumbersAssumption`;
* that bounds on what the environment does are naturals: `MaxCrashesAssumption`,
  `MaxFaultsAssumption`, `LimitsAssumption`, `MaxDeathsAssumption`,
  `MaxCancelsAssumption`, `MaxGenerationAssumption`; and that a batch and a number
  of attempts are at least one: `LimitAssumption`, `MaxAttemptsAssumption`,
  `RequiredAssumption`, `PositiveAssumption`;
* that a name for "none" is not one of the things it stands beside:
  `SessionsAssumption` of the boundaries, `NobodyAssumption`, `NothingAssumption`,
  `NoFlowAssumption`, `NoTermsAssumption`, `NoUserAssumption`, `NoRunAssumption`,
  `OwnersAssumption` (which also keeps the owner names of quotes and of runs apart),
  `NoSessionAssumption`, `NoReferenceAssumption`, `NoItemAssumption`,
  `NamesAssumption`, `RowAssumption`;
* that what is counted or summed is finite: `MailersAssumption`, `UsersAssumption`,
  `RunsAssumption` of `SpendBudget`, `SessionsAssumption` of `Agent`;
* which accounts are provisioned by the script and what kinds of items there are:
  `ProvisionedAssumption`, `KindsAssumption`.

Every invariant and every action property that a run checks is proved, except for the
liveness properties. The steps of all proofs have the same shape: one lemma per action
(or per kind of step, where several actions do the same to what an invariant speaks
of), under it one step per conjunct that the action can disturb.

**Merchant boundary** (`CheckoutProofs`). None of the
properties is inductive: "one order" depends on who may still create one, which
depends on what the row says, which depends on who wrote it. The strengthening is

    IInv == OwnerInv /\ RowInv /\ CallerInv /\ ReportInv

* `OwnerInv`: one caller at most is between its insert and the end of its
  checkout; it alone moves the row up to the order.
* `RowInv`: row, merchant and session agree. A known order exists, a completed
  attempt was paid, what was submitted was exposed first.
* `CallerInv`: what a caller holds may be old but not wrong. The merchant's
  decision is final, so an outcome read before a stale write is still true.
* `ReportInv`: one claimer, who is the only one to post, and Prava knows only
  what the row decided.

`Typing` and `Invariance` prove `Spec => []TypeOK` and `Spec => []IInv`, one step
per action; `NothingTwice` (one order, one submission, one report), `Exposure`,
`TrueReports`, `TrueOutcomes` follow. `Refinement` is `Spec => Promise!Spec`: the lemma
`StepShapes` reduces every step to one of seven shapes (it idles, orders, pays,
settles, gives up, learns, tells), and each shape is a step or a stutter of
`PurchaseOnce`. `DecidedFinal` uses the same shapes.

**Invoice boundary** (`InvoiceProofs`). The same plan over a smaller machine:
`OwnerInv` (the caller whose insert made the row is alone with it, and what it
holds of the execution is true), `RowInv` (row and invoice agree; a changed price
is never a submitted one), `ReportInv`, `ResultInv` (a caller's result is the
row's). The lemma `Recorded` says what the one UPDATE of an execution does,
`StateOfTrue` what a recorded state says of the execution. `InvoicePaidOnce`,
`InvoiceReports`, `InvoiceOutcomes` follow, and `InvoiceRefinement`: both
boundaries implement the same `PurchaseOnce`.

**Outboxes** (`OutboxesProofs`). `IInv == TypeOK /\ NoticeInv /\ DeliveryInv`.
For Slack: a notice in hand is the dispatcher's own row, and its answer tells
whether it was posted. For mail, the bound on requests needs to know who may
still *give back* an attempt: `Charged(l)` are the passes that have the row still
to send, or hold it unsent, and

    requested[l] + Cardinality(Charged(l)) <= mail[l].attempts

is kept by every step, a lapsed lease and a second claim included. From it:
`OneMessage`, `TrueRows`, `PaidRequests`, `LeaseRespected`, `SentFinal`.

**Merchant connection** (`AccountsProofs`). `StoredTokenIsLive` speaks of one
token; whether it stays true depends on every token in any request's hands. The
strengthening is

    ConnectionInv == ConnectionTypeOK /\ RowInv /\ RequestInv /\ CarrierInv
                     /\ StoredTokenIsLive

* `RowInv`: a token in the row was issued, and rests only in a connected or a
  revoked row; a pending row waits for the last consent.
* `RequestInv`: what requests carry was issued.
* `CarrierInv`: the first token of a grant is with the request that exchanged its
  code and nowhere else; a refreshed token that is not stored yet is newer than
  every other one of its grant.

`NoTokenAtRest`, `LastConsentUsed` and `ConnectionLives` follow.

**NANDA plugin** (`PaymentsProofs`). `ReceiptsAreTrue` relates what three places say
of a charge: the record, Prava and the merchant. The strengthening says who may
still change which of them:

* `OwnerInv`: a paying task is alone with the session it created;
* `ChargeInv`: where in its course the card may have been charged;
* `SessionInv`, with `Settled`: a session that failed, at Prava or in the record,
  will not be charged any more, and if it was, the loss is named;
* `AnswerInv`: an answer about an ended session is still true when it is used;
* `ChargedOnceInv`, `RefundedOnceInv`: without the named windows only the current
  session is paid, and one refund is under way.

`TrueReceipts` and `SettledAtMostOnce` follow.

**Accounts** (`AccountsProofs`). The invariants of the operations hardly touch each
other: `ThreadInv` (what a request carries), `IdentityInv`, `MemberInv`,
`InvitationInv` (an invitation nobody contests has one reader, or is spent),
`ConsentInv` (what was checked still holds, unless overtaken), `DecisionInv` (a
decision that is counted alone is counted right). The lemma `Began` says what a
request that is under way after a step has done in it; the lemmas `InvitationMoves`,
`AdmittedMoves`, `RoleMoves`, `ConsentMoves`, `DecisionMoves` say which actions change
what, so that no proof goes through all of them. `OneAccount`, `InvitedMembers`,
`ConsentErased`, `ConsentedObservation` and `ThresholdHeard` follow; the last needs
`Counts`, what `record_approval_decision` makes of equal decisions.

**Workflow** (`WorkflowProofs`). The workflow's steps contain the boundary's, so its
invariant is the boundary's `IInv`, taken over through the instance `P`, and five
layers of its own, each of which uses the ones before:

    WInv == ControlInv /\ ApprovalInv /\ BookingInv /\ RoundInv /\ KeepingInv

* `ControlInv`: which row copy, credential and transition a request has at each place;
* `ApprovalInv`: every session that a request, a credential or the attempt carries was
  approved by its holder (`Sworn`). From it `Approved`;
* `BookingInv`: a transaction is for the amount paid. From it `Booked`;
* `RoundInv`: without an overwritten transition one request at most drives the run, and
  the run is in a late state once there is an attempt. From it `UnapprovedIsUnpaid`;
* `KeepingInv`: without either accident the run is not given up while a payment may
  follow: a request that fails it does so because there is no attempt, and then nobody
  is about to make one. From it `PaidStaysOpen`.

Since the workflow's actions conjoin those of the boundary, it is a behaviour of `Checkout`
by its form, and what is proved there may be used here.

**Cart and lease** (`CartProofs`).

    CartInv == RequestInv /\ AttemptInv /\ LeaseInv /\ BasketInv /\ ApprovalInv

`RequestInv` says what a request carries at each place, `AttemptInv` that the request
which reserved a run's attempt is alone with it, `LeaseInv` that whoever is in the scope
holds a lease of its own, `BasketInv` that between the look at the cart and its use the
cart is that of the run, `ApprovalInv` that an attempt is made for an amount that was
agreed to, by the approval of an intent or by an adjustment after it. The first two hold
always; the next two as long as no lease ran out or was released under its request, the
last one until a transition was written over a run that waits for reapproval. `OneCart`,
`Own`, `WithinApproval` and the action property `PendingCart` follow.

**The two caps** (`CapProofs`). Both bound a sum over a finite set, and a sum is a
recursive function on subsets. What it returns is induction over data, of which the
library's theorems are out of reach; here it is done in the first order, as a least
counterexample among the subsets of a finite set (`WFMin`): lemmas `SubsetInduction`,
`SumOfZeros` and those on the sum of a changed function or of a smaller set.

    BudgetInv == PlaceInv /\ OwnRunInv /\ ReadInv /\ HeldInv /\ RoomInv /\ FitInv

The cap is not inductive in the sum of what is committed, since a request that has
passed its check is not in the sum yet. `FitInv` is about what was *allowed*: the
commitments and the amounts of the requests whose last check is behind them. `RoomInv`
says that a request entitled to write finds room for its amount beside everybody else's,
`ReadInv` that the spend it compared is still the spend, `HeldInv` who writes under the
lease, `PlaceInv` and `OwnRunInv` where requests are and that the run which `begin`
creates is its own. The last two hold always, the others until a window was hit.
`CapHolds` follows.

    AgentInv == ClientInv /\ IntentInv /\ CallInv /\ AskedInv

`ClientInv` is about the Prava client alone: what a thread asks about is known, one
thread polls a session and one card is made of it (unless the session is shared by
overlapping polls), and who has taken a card. `IntentInv` and `CallInv` are about the
tools: an order is of an intent that was approved. `AskedInv`: what was asked for fits
the cap, ordered or not. `LeasesOnce`, `OutcomesStay`, `OrdersOnce`, `AgentCap` follow.

**Trigger scan** (`OutboxesProofs`, second part).

    ScanInv == RunInv /\ RowInv /\ ReplayInv /\ AskInv /\ QuoteInv /\ PendingInv
               /\ LearnsInOrder

* `RunInv`: the history has each completed run once, an item has one open run.
* `RowInv`: no row, and no copy of one in anybody's hands, has learned a purchase whose
  effects are not applied: effects are taught once.
* `PendingInv`, for items outside the two windows: one purchase is pending, it is the
  last, there is no open run beside it, and whoever will write what it teaches has read
  the row as it is. So the row that is written extends the row that is replaced, although
  the two were read and written in separate transactions.
* `AskInv`: what a scanner holds between the read of an item and the insert of its run.
  When the row has ceased to say that the item is due, it has learned a purchase that the
  scanner's copy lacks.
* `ReplayInv`, `QuoteInv`: what a scanner holds while it replays and while it quotes.

`ScanStepIs` reduces the actions to ten kinds of steps; `LearnedInOrder` and
`OpenedDue` follow. The order of purchases is stated by positions in sequences (`Before`)
instead of a selection from the history, since what `SelectSeq` selects needs induction
over sequences.

**Only model-checked**: the liveness properties, which neither the provers' temporal
logic nor `ENABLED` reaches: `ExposedIsDecided`, `OwedIsClaimed` of the workflow and of
the invoice boundary, `ApprovalIsSpent`, `KnownOrderIsReconciled`, `PendingEnds`,
`EveryLeadIsServed`, `EffectsAreReplayed` and `EveryDueItemIsAsked`.

## 6. Findings

What follows was met while modelling and is reachable in the models. Where it
breaks a property, the property names it as its exception and is false without it;
no run is kept for the counterexample itself. The first seven contradict the
repository's own words.

* **A failed run that was paid** (`PaidRunStaysOpen`, accident `early`).
  `_recover_lost_ephemeral_credential` (service.py:800) fails a run that has no
  merchant attempt: "After restart, absence of a merchant attempt proves the checkout
  boundary was never durably entered" (service.py:796-799). While another request of
  that run is between its transition and the reservation, there is none *yet*: the
  run is failed and the merchant is paid.
* **Effects that cannot be replayed** (`EffectsAreReplayed`, `Unteachable`). The effects
  of a purchase assert that the item was bought before (service.py:188). An item
  starts without a purchase (ui/api.py:1482) and may be bought for its price
  (consumption_model.py:85-87). Its effects then stay pending: the item gets no
  further run, and since the replay raises before the items are listed, no item of
  anybody is triggered by a scan. The worker calls this work "safe to replay before new
  triggers" (worker.py:98).
* **A run nobody takes up.** A process that dies inside `begin`, after
  `create_workflow` (service.py:617), leaves a run in `triggered`; later triggers of its
  item are duplicates of it, and its share of the budget stays committed. "A
  restarted process resumes from durable workflow state"
  (docs/prava_meeting_runbook.md:115).
* **A run nobody can move** (`Abandoned`, excepted by `ExposedIsDecided`, `OwedIsClaimed`
  and `ApprovalIsSpent`). When the process dies inside the boundary, its run stays in
  `quote_revalidated`: resume finds an attempt and refuses the run (service.py:793, 973),
  reconcile accepts `checkout_pending` only (service.py:1147). The same run approved
  again after a price change has a decided attempt under its one key, and is lost
  as early as `mandate_approved`. Its item stays claimed, its amount committed, and an
  exposed attempt is never compared with the merchant again, in spite of "A restarted
  process resumes from durable workflow state" (docs/prava_meeting_runbook.md:115).
* **An adjustment the intent does not know** (`PaidWithinApproval`). `act("adjust")`
  (service.py:837-877) changes the run's amount and keeps quote and intent; the approval
  then goes to the passkey with the intent of the old amount. Adjusted upwards, a run
  whose price has risen pays more than the intent was created for; it never pays more
  than the user's own amount. "new proposed amount/quantity; loop back to step 2 with the
  updated `Intent`" (TECHNICAL_PRD.md:288).
* **A reference charged twice** (`SettledOnce`). "Payment references are idempotent"
  (nanda_prava_adapter/README.md:13): `pay` records the reference only after the
  awaited `create_session` (plugin.py:518), and two calls that overlap are both
  charged.
* **A Slack row that stays `sending`**. Its dispatcher died; the lease is written and
  never read, while `docs/slack_delivery.md` speaks of `failed_ambiguous`.

*Workflow and budget.* `transition` (repository.py:1386) does not lock the row or
compare its version: a skip loaded while the run was notified commits over an approval,
and a skipped run is paid. The idempotency key is drawn once per run (service.py:627):
after a price change the attempt under it is decided, and the run approved again on a
fresh session is answered from it. An approval whose request loaded the run while it was
notified, and writes when it waits for reapproval, sends the fresh amount to the
checkout without a new intent (service.py:878, 953). A run that completes between the
two queries of `_enforce_caps` (service.py:117) is in neither sum. After a final price
change the run asks for reapproval with the amount approved before (service.py:402), and
the message speaks of the fresh one (:418).

*Trigger scan.* The effects are computed from an item read outside their transaction
and written whole (service.py:179), and `begin` stores the item its trigger read
(service.py:616): a trigger that overlaps the purchase it duplicates undoes what the
item has learned, and the item is bought again. The worker's process ends with the
first refused item, its lease held, and the items after it wait for the next one
(worker.py:77); in the route an error of Prava ends the scan the same way. An item
approved on the day it was triggered was bought its window too early, so the cadence
shrinks with each purchase, until the item is always due (consumption_model.py:115).
A price that meets its threshold, and a renewal date, stay as they are after the
purchase they caused: the next scan opens another run.

*Cart.* Two requests that resume one run share the lease's owner name, and the exit
of the first releases the lease under the second. A late resume writes "approved"
over a reapproval, and what it then pays may be above what the user approved. A
second run that begins while an approved one waits for its resume replaces its
cart; the checkout then fails with a cart mismatch. A failure of the
revalidation is swallowed and the stored quote stands for a minute. A cart that is
busy says "retry later" (quote_provider.py:88), and the run that met it fails.

*Connection.* A disconnect that overlaps a callback leaves a revoked row with a
token, or a connected one without; the next use of it answers 409. A refresh
begun under an old grant overwrites the token of the new one.

*Prava client and agent.* Two polls of one session, or a poll after a restart, put one
card away under two references. Nothing calls `purge_expired_credentials`. The agent's
caps count what was booked, not what is open, so `CapHoldsUnlessCrowded` excepts any cap
compared beside an open intent, also one that Prava has refused since; completing an
intent twice books it twice; the item a checkout names is not compared with its
intent's. An expiry found by the local clock is kept although Prava may still approve.

*NANDA plugin.* An executor that never answers keeps its payment pending for ever
(plugin.py:534). A verification that answers late reopens a refunded record
(plugin.py:598), which can be refunded again, as two overlapping refunds can (:627).
A payment whose report failed is called failed though the merchant was paid, and the
reference is refused for ever.

*Accounts.* Two users who accept one invitation at the same time both become
members. Two approvers who decide at the same time are both told "pending" though
together they are enough, and neither can decide again; the required number comes
with each request, and nothing waits for the outcome. Deletion leaves identity,
sessions, observations and decisions, can leave a tenant without an owner, and a
request it overtook writes a consent afterwards, or the effects of a purchase an
observation (repository.py:1950, where the consent is read without a lock). A second
membership is an uncaught constraint error.

*Invoices and outboxes.* When `consume_credential` raises in the invoice boundary
(saas_invoice_checkout.py:335), or the observed amount is no number (:357), the
row stays `executing` and nothing moves it again; an executor that reports no
amount is taken to have charged the approved one (:357).

## 7. Not modelled

* In the boundary: the disclosed mock payment mode and the merchant-unavailable
  fallback, which decide without a merchant; price texts and cart contents,
  which appear as "the checks pass" or "they raise".
* In the workflow: manual renewals, the reviewer account's demo path, audit rows
  and notification texts; `begin` is split between `TriggerScan`, `SpendBudget` and
  `CartLease`.
* In the budget: the turn of the month and edits of the caps.
* Around the cart: the disclosed mock quote, the retry of throttled reads, saved
  addresses and stores.
* In the Prava client: the charge of a recurring mandate (disabled by its feature
  flag) and request formatting; in the agent: the language model, notifications
  and the audit log.
* In accounts: password sign-in, which provisions nobody; the login throttle and
  its counters, which an advisory lock turns into one step per login, and the
  in-memory rate limits; approval policies, which nothing reads; the export;
  `log_forecast_observation` (repository.py:1060), which only tests call.
* In the outboxes: Slack Socket Mode, the deletion of a user's rows.
* In the scan: the local harness `run_tick`, pausing an item, the price a user's
  search observes. Forecasts and priors, pure arithmetic that the unit tests reach;
  the NANDA trigger service over it; WhatsApp; file stores of the demo; database plumbing.
* Races that only SQLite allows, HTTP, prompts and formatting.

## 8. Plan

1. The safety halves of the liveness properties, which can be proved: that an attempt which
   is exposed stays one a reconciliation accepts, that an owed report stays claimable,
   that pending effects can be replayed but for what `Unteachable` names.
2. What the exceptions cost: that a slip of `SpendBudget` exceeds the cap by one
   commitment at most, and that a slipped item of `TriggerScan` loses no more than
   the purchases it overlapped.
3. The drift of the cadence: bounds on `Learned` against the cadence the user gave.
