------------------------------ MODULE Invoices ------------------------------
(***************************************************************************)
(* What a payment event makes of an invoice.  Billing carries these moves  *)
(* out; Settlement promises that nothing else happens to an invoice, and   *)
(* the services that are paid for by invoice react to them.                *)
(*                                                                         *)
(* "claimed" is an invoice marked PAID by hand whose payment no event has  *)
(* confirmed: is_payment_effective() does not hold of it.                  *)
(***************************************************************************)

InvoiceStates == {"unpaid", "claimed", "paid", "failed", "cancelled", "refunded"}

EventKinds == {"success", "failure", "cancelled", "reversal", "other"}

\* The invoice after an accepted event, whichever attempt it is about
After(kind, state) ==
    CASE kind = "success"   -> "paid"
      [] kind = "failure"   -> CASE state = "paid" -> "refunded"
                                 [] state \in {"claimed", "cancelled"} -> state
                                 [] OTHER -> "failed"
      [] kind = "cancelled" -> "cancelled"
      [] kind = "reversal"  -> "refunded"
      [] OTHER              -> state
=============================================================================
