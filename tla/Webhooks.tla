-------------------------------- MODULE Webhooks --------------------------------
(***************************************************************************)
(* The registration of one contestant's webhooks (handlers/webhook.go):    *)
(* every handler lists the webhooks there are and then adds its own.       *)
(***************************************************************************)
EXTENDS Naturals, FiniteSets

CONSTANTS
  Hook,          \* POST /v1/webhooks
  HookLimit,     \* webhooks of a contestant (10)
  MaxHookErrors  \* bound: failing calls

ASSUME WebhookAssumption ==
  IsFiniteSet(Hook) /\ HookLimit \in Nat \ {0} /\ MaxHookErrors \in Nat

VARIABLES
  hook,       \* where the handler of a webhook is, or its answer
  webhooks,   \* the rows of webhooks
  hookErrors,
  blind       \* history: webhooks listed in vain: the call failed, or another
              \* handler was about to add one

hookVars == <<hook, webhooks, hookErrors, blind>>

HookInit ==
  /\ hook = [h \in Hook |-> "new"] /\ webhooks = {} /\ hookErrors = 0 /\ blind = {}

-----------------------------------------------------------------------------

Adding == {h \in Hook : hook[h] = "create"}

HookError(ok) ==
  IF ok THEN UNCHANGED hookErrors
  ELSE hookErrors < MaxHookErrors /\ hookErrors' = hookErrors + 1

tooMany == Cardinality(webhooks) >= HookLimit

\* ListByContestant: its error is not looked at, and an empty list is short
\* enough.
ListByContestant(h, ok) ==
  /\ hook[h] = "new" /\ HookError(ok)
  /\ hook' = [hook EXCEPT ![h] = IF ok /\ tooMany THEN "refused" ELSE "create"]
  /\ blind' = IF ~ok \/ Adding # {} THEN blind \cup {h} ELSE blind
  /\ UNCHANGED webhooks

\* A call that reports an error may have taken effect.
CreateWebhook(h, ok) ==
  /\ hook[h] = "create" /\ HookError(ok)
  /\ webhooks' = webhooks \cup {h} \/ (~ok /\ UNCHANGED webhooks)
  /\ hook' = [hook EXCEPT ![h] = IF ok THEN "created" ELSE "failed"]
  /\ UNCHANGED blind

\* The process dies, or the contestant hangs up.
HangUp(h) ==
  /\ hook[h] = "create" /\ hookErrors < MaxHookErrors /\ hookErrors' = hookErrors + 1
  /\ hook' = [hook EXCEPT ![h] = "failed"]
  /\ UNCHANGED <<webhooks, blind>>

HookNext ==
  \E h \in Hook :
    HangUp(h) \/ (\E ok \in BOOLEAN : ListByContestant(h, ok) \/ CreateWebhook(h, ok))

HookSpec == HookInit /\ [][HookNext]_hookVars

-----------------------------------------------------------------------------
(* Properties *)

\* The limit of webhooks is passed only by handlers that listed them while
\* another was about to add one, or whose list failed (webhook.go:51-66).
HookLimitHolds == Cardinality(webhooks \ blind) <= HookLimit
=============================================================================
