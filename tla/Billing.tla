-------------------------------- MODULE Billing --------------------------------
(***************************************************************************)
(* An organisation's pool and its metered usage: contributions and invoices *)
(* paid through a payment provider whose webhooks come late, repeated and   *)
(* in any order (billingController.ts, billingCredit.ts, stripeWebhook.ts), *)
(* and the usage cycle that a status request rolls over while session_end   *)
(* events are counted into it (billingConsumer.ts).                         *)
(*                                                                         *)
(* A contribution is its number; the pool is how often each contribution's  *)
(* amount is in it.                                                         *)
(***************************************************************************)
EXTENDS Integers

CONSTANTS
    MaxContributions,  \* bound on contributions and invoices
    MaxCheckouts,      \* bound on the provider's checkout sessions
    MaxMonths,         \* bound on months
    MaxBytes,          \* bound on bytes counted
    StatusReader       \* the status requests under way at once

ASSUME BillingBounds ==
    MaxContributions \in Nat /\ MaxCheckouts \in Nat /\ MaxMonths \in Nat /\ MaxBytes \in Nat

Contribution == 1..MaxContributions
Checkout == 1..MaxCheckouts
NoReading == -1

VARIABLES
    provider,      \* the configured one
    contribution,  \* billing_contributions: its status, and whether an admin issued it
    checkout,      \* the provider's sessions: for which contribution, how they stand
    paying,        \* the payOrgInvoice calls that have found their invoice pending
    hooks,         \* the provider's events, each delivered at least once
    taken,         \* the events this server has answered
    pool,          \* per contribution: how often balance_cents and the ledger have its amount
    month,         \* now
    cycleStart, bytesOut,  \* org_billing's cycle_start_at and cycle_bytes_out
    reading        \* per status request: the cycle start it has read

poolVars == <<provider, contribution, checkout, paying, hooks, taken, pool>>
cycleVars == <<month, cycleStart, bytesOut, reading>>
billingVars == <<poolVars, cycleVars>>

Hook == [type : {"succeeded", "failed", "expired"}, checkout : Checkout]

BillingTypeOK ==
    /\ provider \in {"dev", "stripe"}
    /\ contribution \in [Contribution -> [status : {"none", "pending", "succeeded", "failed", "canceled"},
                                          invoice : BOOLEAN]]
    /\ checkout \in [Checkout -> [of : 0..MaxContributions, state : {"none", "open", "paid", "expired"}]]
    /\ paying \in SUBSET Contribution
    /\ hooks \subseteq Hook /\ taken \subseteq hooks
    /\ pool \in [Contribution -> Nat]
    /\ month \in 0..MaxMonths /\ cycleStart \in 0..MaxMonths /\ bytesOut \in 0..MaxBytes
    /\ reading \in [StatusReader -> Nat \cup {NoReading}]

BillingInit ==
    /\ provider \in {"dev", "stripe"}
    /\ contribution = [c \in Contribution |-> [status |-> "none", invoice |-> FALSE]]
    /\ checkout = [k \in Checkout |-> [of |-> 0, state |-> "none"]]
    /\ paying = {} /\ hooks = {} /\ taken = {}
    /\ pool = [c \in Contribution |-> 0]
    /\ month = 0 /\ cycleStart = 0 /\ bytesOut = 0
    /\ reading = [r \in StatusReader |-> NoReading]

-----------------------------------------------------------------------------
\* The pool

Is(c, status) == contribution[c].status = status

\* creditContribution, one transaction: the status leaves pending, the balance and the ledger take
\* the amount; nothing when the row is not pending.
\* Mutant of Creditable: the status flip is not the guard.
CreditableAnyhow(c) == ~Is(c, "none")
Creditable(c) == Is(c, "pending")

Credit(c, from) ==
    IF Creditable(c)
    THEN /\ contribution' = [from EXCEPT ![c].status = "succeeded"]
         /\ pool' = [pool EXCEPT ![c] = @ + 1]
    ELSE contribution' = from /\ UNCHANGED pool

\* markContributionFailed.
MarkFailed(c, status) ==
    /\ contribution' = IF Is(c, "pending") THEN [contribution EXCEPT ![c].status = status] ELSE contribution
    /\ UNCHANGED pool

\* createCheckout: the development provider credits at once, Stripe opens a session.
CreateCheckout(c, rows) ==
    \/ provider = "dev" /\ contribution' = [rows EXCEPT ![c].status = "succeeded"]
       /\ pool' = [pool EXCEPT ![c] = @ + 1] /\ UNCHANGED checkout
    \/ /\ provider = "stripe"
       /\ \E k \in Checkout : /\ checkout[k].state = "none" /\ \A j \in 1..(k - 1) : checkout[j].state # "none"
                              /\ checkout' = [checkout EXCEPT ![k] = [of |-> c, state |-> "open"]]
       /\ contribution' = rows /\ UNCHANGED pool

New(c) == Is(c, "none") /\ \A d \in 1..(c - 1) : ~Is(d, "none")

\* contributeToOrg: the pending row, then its checkout.
Contribute(c) ==
    /\ New(c)
    /\ CreateCheckout(c, [contribution EXCEPT ![c].status = "pending"])
    /\ UNCHANGED <<provider, paying, hooks, taken, cycleVars>>

\* createOrgInvoice: a pending row that somebody pays later.
IssueInvoice(c) ==
    /\ New(c)
    /\ contribution' = [contribution EXCEPT ![c] = [status |-> "pending", invoice |-> TRUE]]
    /\ UNCHANGED <<provider, checkout, paying, hooks, taken, pool, cycleVars>>

\* payOrgInvoice finds the invoice pending, ...
FindInvoice(c) ==
    /\ Is(c, "pending") /\ contribution[c].invoice /\ c \notin paying
    /\ paying' = paying \cup {c}
    /\ UNCHANGED <<provider, contribution, checkout, hooks, taken, pool, cycleVars>>

\* ... awaits the provider, and stores the fresh session in the row whatever became of it.
PayInvoice(c) ==
    /\ c \in paying /\ paying' = paying \ {c}
    /\ \/ provider = "dev" /\ Credit(c, contribution) /\ UNCHANGED checkout
       \/ provider = "stripe" /\ CreateCheckout(c, contribution)
    /\ UNCHANGED <<provider, hooks, taken, cycleVars>>

\* The provider, from how the webhook uses it: an open session is paid, has an attempt declined or
\* expires.
CheckoutEnds(k, type) ==
    /\ checkout[k].state = "open"
    /\ checkout' = [checkout EXCEPT ![k].state =
                      CASE type = "succeeded" -> "paid" [] type = "expired" -> "expired" [] OTHER -> "open"]
    /\ [type |-> type, checkout |-> k] \notin hooks
    /\ hooks' = hooks \cup {[type |-> type, checkout |-> k]}
    /\ UNCHANGED <<provider, contribution, paying, taken, pool, cycleVars>>

\* POST /webhooks/stripe: an event, for the first time or again.
Webhook(e) == LET c == checkout[e.checkout].of IN
    /\ CASE e.type = "succeeded" -> Credit(c, contribution)
         [] e.type = "failed"    -> MarkFailed(c, "failed")
         [] e.type = "expired"   -> MarkFailed(c, "canceled")
    /\ taken' = taken \cup {e}
    /\ UNCHANGED <<provider, checkout, paying, hooks, cycleVars>>

-----------------------------------------------------------------------------
\* The usage cycle, a month long

MonthPasses == month < MaxMonths /\ month' = month + 1 /\ UNCHANGED <<poolVars, cycleStart, bytesOut, reading>>

\* The session_end consumer.
Meter ==
    /\ bytesOut < MaxBytes /\ bytesOut' = bytesOut + 1
    /\ UNCHANGED <<poolVars, month, cycleStart, reading>>

\* getBillingStatus reads the row, ...
ReadCycle(r) ==
    /\ reading[r] = NoReading
    /\ reading' = [reading EXCEPT ![r] = cycleStart]
    /\ UNCHANGED <<poolVars, month, cycleStart, bytesOut>>

\* ... and once a month has passed advances the cycle it read to the current month, if nobody has.
\* Mutant of StillThatCycle: the update is not guarded.
ThatCycleAnyhow(r) == TRUE
StillThatCycle(r) == cycleStart = reading[r]

RollOver(r) ==
    /\ reading[r] # NoReading
    /\ IF month > reading[r] /\ StillThatCycle(r)
       THEN cycleStart' = month /\ bytesOut' = 0
       ELSE UNCHANGED <<cycleStart, bytesOut>>
    /\ reading' = [reading EXCEPT ![r] = NoReading]
    /\ UNCHANGED <<poolVars, month>>

BillingNext ==
    \/ \E c \in Contribution : Contribute(c) \/ IssueInvoice(c) \/ FindInvoice(c) \/ PayInvoice(c)
    \/ \E k \in Checkout, type \in {"succeeded", "failed", "expired"} : CheckoutEnds(k, type)
    \/ \E e \in hooks : Webhook(e)
    \/ MonthPasses \/ Meter
    \/ \E r \in StatusReader : ReadCycle(r) \/ RollOver(r)

BillingSpec == BillingInit /\ [][BillingNext]_billingVars

-----------------------------------------------------------------------------
\* The pool holds each succeeded contribution once and nothing else: no repeated or late webhook
\* credits twice, and none takes a credited row back.
CreditedOnce == \A c \in Contribution : pool[c] = IF Is(c, "succeeded") THEN 1 ELSE 0

\* Usage of a cycle is not lost while the cycle lasts: the bytes counted drop only as the cycle
\* start moves on, however many status requests saw the old one.
UsageKept == [][cycleStart' = cycleStart => bytesOut' >= bytesOut]_billingVars

\* An invoice paid in one checkout is credited, whatever became of the other tabs: the provider has
\* told this server of the payment, and no attempt at it failed.
PaidIsCredited == \A k \in Checkout : LET c == checkout[k].of IN
    (/\ [type |-> "succeeded", checkout |-> k] \in taken
     /\ contribution[c].invoice
     /\ \A e \in hooks : e.type # "failed")
        => Is(c, "succeeded")
=============================================================================
