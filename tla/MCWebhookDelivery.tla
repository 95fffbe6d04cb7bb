------------------------- MODULE MCWebhookDelivery -------------------------
(* The instance of WebhookRevivals, and so of WebhookDelivery, that TLC checks. *)
EXTENDS WebhookRevivals

CONSTANTS d1, w1, w2

MCDeliveries == {d1}
MCWorkers == {w1, w2}
=============================================================================
