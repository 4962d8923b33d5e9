-------------------------- MODULE MCWebhookDelivery --------------------------
(***************************************************************************)
(* Instances of WebhookDelivery for TLC.                                   *)
(***************************************************************************)
EXTENDS WebhookDelivery, TLC

Allow(c, f, d, o) == "crash" :> c @@ "fault" :> f @@ "dispatch" :> d @@ "outside" :> o

MCBudget     == Allow(1, 1, 2, 1)
ReplayBudget == Allow(0, 0, 1, 1)
=============================================================================
