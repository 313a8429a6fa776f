--------------------------- MODULE MCWebhookOutbox --------------------------
(***************************************************************************)
(* Instances of WebhookOutbox for TLC.                                     *)
(***************************************************************************)
EXTENDS WebhookOutbox

Everything == Subs \X Events

=============================================================================
