---------------------------- MODULE PurchaseLedger ----------------------------
(***************************************************************************)
(* What the payment pipeline promises, without queues, workers or retries: *)
(* it issues a policy only for a purchase that was charged, the other ones *)
(* having been entered by hand; a Stripe event is put on record only for a *)
(* policy there is and a purchase that was charged; and the documents of a *)
(* recorded event are ordered at most once, the sticker after the PDF.     *)
(* PolicyActivation implements it under every interleaving, crash, retry   *)
(* and redelivery.                                                         *)
(***************************************************************************)
EXTENDS Naturals

CONSTANTS Quotes, Events, QuoteOf

VARIABLES charged, issued, entered, recorded, pdf, sticker

vars == <<charged, issued, entered, recorded, pdf, sticker>>

Init ==
  /\ charged = {}
  /\ issued = {}
  /\ entered = {}
  /\ recorded = {}
  /\ pdf = [e \in Events |-> 0]
  /\ sticker = [e \in Events |-> 0]

Charge(q) ==
  /\ q \notin charged
  /\ charged' = charged \union {q}
  /\ UNCHANGED <<issued, entered, recorded, pdf, sticker>>

Issue(q) ==
  /\ q \in charged \ issued
  /\ issued' = issued \union {q}
  /\ UNCHANGED <<charged, entered, recorded, pdf, sticker>>

(* Somebody writes the policy of a purchase, charged or not, by hand.      *)
Enter(q) ==
  /\ q \notin issued
  /\ issued' = issued \union {q}
  /\ entered' = entered \union {q}
  /\ UNCHANGED <<charged, recorded, pdf, sticker>>

Record(e) ==
  /\ QuoteOf[e] \in issued \intersect charged
  /\ e \notin recorded
  /\ recorded' = recorded \union {e}
  /\ UNCHANGED <<charged, issued, entered, pdf, sticker>>

OrderPdf(e) ==
  /\ e \in recorded
  /\ pdf[e] = 0
  /\ pdf' = [pdf EXCEPT ![e] = 1]
  /\ UNCHANGED <<charged, issued, entered, recorded, sticker>>

OrderSticker(e) ==
  /\ pdf[e] = 1
  /\ sticker[e] = 0
  /\ sticker' = [sticker EXCEPT ![e] = 1]
  /\ UNCHANGED <<charged, issued, entered, recorded, pdf>>

Next ==
  \/ \E q \in Quotes : Charge(q) \/ Issue(q) \/ Enter(q)
  \/ \E e \in Events : Record(e) \/ OrderPdf(e) \/ OrderSticker(e)

Spec == Init /\ [][Next]_vars
=============================================================================
