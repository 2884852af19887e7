-------------------------- MODULE MCWebhookEmitter --------------------------
(* Instances of WebhookEmitter for TLC. *)
EXTENDS WebhookEmitter

CONSTANTS e1, e2, h1, receive

OneEmitter == [e \in Events |-> receive]

EveryHookWantsAll == [h \in Hooks |-> Events]

AnyHooks == [Hooks -> {"none", "active", "disabled"}]

=============================================================================
