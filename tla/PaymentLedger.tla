---------------------------- MODULE PaymentLedger ----------------------------
(***************************************************************************)
(* What the payment rows promise, whatever the interleaving of requests,   *)
(* rollbacks and notifications: a payment is opened once; only an open     *)
(* payment can be paid, so the provider never reports anything about a     *)
(* payment that was not recorded; its status changes only to one that the  *)
(* provider's reports back, and never returns to the initial one; it goes  *)
(* away only by deletion, for good.                                        *)
(***************************************************************************)
CONSTANTS Payments

VARIABLES status,   \* payment -> "none", "deleted" or its recorded status
          reports   \* payment -> everything the provider said of it

ledgerVars == <<status, reports>>

\* The report without which a status may not be recorded.
Backing == [paid |-> "approved", refund_pending |-> "refunded", refunded |-> "refunded",
            disputed |-> "charged_back", payment_failed |-> "rejected",
            cancelled |-> "cancelled"]

Opened == {p \in Payments : status[p] \notin {"none", "deleted"}}

LedgerInit ==
  /\ status = [p \in Payments |-> "none"]
  /\ reports = [p \in Payments |-> {}]

Open(p) ==
  /\ status[p] = "none"
  /\ status' = [status EXCEPT ![p] = "checkout_created"]
  /\ UNCHANGED reports

Report(p) ==
  /\ status[p] # "none"
  /\ \E r \in {"pending", "approved", "rejected", "cancelled", "refunded", "charged_back"} :
       reports' = [reports EXCEPT ![p] = @ \cup {r}]
  /\ UNCHANGED status

Settle(p) ==
  /\ p \in Opened
  /\ \E s \in DOMAIN Backing :
       /\ Backing[s] \in reports[p]
       /\ status' = [status EXCEPT ![p] = s]
  /\ UNCHANGED reports

Delete ==
  /\ \E gone \in SUBSET Opened :
       status' = [p \in Payments |-> IF p \in gone THEN "deleted" ELSE status[p]]
  /\ UNCHANGED reports

LedgerNext == Delete \/ \E p \in Payments : Open(p) \/ Report(p) \/ Settle(p)

LedgerSpec == LedgerInit /\ [][LedgerNext]_ledgerVars
=============================================================================
