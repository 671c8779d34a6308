---------------------------- MODULE FederatedMerges ----------------------------
(* An entity merged on the instance that has the entities, and the items of another  *)
(* instance (lib/federation, controllers/instances). This one learns of the merge by *)
(* a redirection in the answer to one of its requests: it redirects its items, then  *)
(* subscribes to the revert of the merge. A revert is posted to the subscribers, and *)
(* posted again until they answer.                                                   *)
EXTENDS Naturals, FiniteSets

CONSTANTS Handlers, MaxMerges, MaxNetworkFailures, MaxNotifyAttempts, MaxSubscriptions

VARIABLES
    redirected,     \* the entity is a redirection, on its instance
    subscriptions,  \* documents [id, attempts] there
    notifications,  \* requests to the subscriber: [subscription, received]
    handlers,       \* [Handlers -> step of updateEntitiesRevisionsCache on the other instance]
    item,           \* an item there: [moved: it has the target, previous: it remembers the entity]
    missed,         \* the last revert could not be posted for the items that moved
    mergesBudget    \* [merges, failures, subscriptions] so far

fvars == <<redirected, subscriptions, notifications, handlers, item, missed, mergesBudget>>

FederatedInit ==
    /\ redirected = FALSE
    /\ subscriptions = {} /\ notifications = {}
    /\ handlers = [h \in Handlers |-> "idle"]
    /\ item = [moved |-> FALSE, previous |-> FALSE]
    /\ missed = FALSE
    /\ mergesBudget = [merges |-> 0, failures |-> 0, subscriptions |-> 0]

Counts(counter, max) == mergesBudget[counter] < max /\ mergesBudget' = [mergesBudget EXCEPT ![counter] = @ + 1]
NetworkFails == Counts("failures", MaxNetworkFailures)
HandlerGoes(h, step) == handlers' = [handlers EXCEPT ![h] = step]

-----------------------------------------------------------------------------
\* The instance of the entities.

Merge ==
    /\ ~redirected
    /\ Counts("merges", MaxMerges)
    /\ redirected' = TRUE
    /\ UNCHANGED <<subscriptions, notifications, handlers, item, missed>>

\* emitInstancesEvent. Nobody is told of a revert that comes before the subscription;
\* nor is it sure, when the subscription found was about to end with a former revert.
RevertMerge ==
    /\ redirected
    /\ redirected' = FALSE
    /\ notifications' = notifications \cup {[subscription |-> s, received |-> FALSE] : s \in subscriptions}
    /\ missed' = \/ handlers # [h \in Handlers |-> "idle"] \/ notifications # {}
                 \/ item.moved /\ subscriptions = {}
    /\ UNCHANGED <<subscriptions, handlers, item, mergesBudget>>

\* The subscriber answered: its subscription is over, unless the document has changed.
Acknowledge(n) ==
    /\ n.received
    /\ notifications' = notifications \ {n}
    /\ subscriptions' = subscriptions \ {n.subscription}
    /\ UNCHANGED <<redirected, handlers, item, missed, mergesBudget>>

\* A mutant: a failed notification ends the subscription.
DropFailedNotification(n) ==
    /\ NetworkFails
    /\ notifications' = notifications \ {n}
    /\ subscriptions' = subscriptions \ {n.subscription}
    /\ UNCHANGED <<redirected, handlers, item, missed>>

\* The request, or its answer, is lost: it is planned again, and given up after a year.
RecordNotificationFailure(n) ==
    LET failed == [n.subscription EXCEPT !.attempts = @ + 1]
        givenUp == n.subscription.attempts = MaxNotifyAttempts
    IN /\ NetworkFails
       /\ notifications' = notifications \ {n}
       /\ IF n.subscription \in subscriptions
          THEN /\ subscriptions' = (subscriptions \ {n.subscription}) \cup (IF givenUp THEN {} ELSE {failed})
               /\ missed' = (missed \/ givenUp)
          ELSE UNCHANGED <<subscriptions, missed>>
       /\ UNCHANGED <<redirected, handlers, item>>

RetryFailedNotification(s) ==
    /\ s.attempts > 0 /\ \A n \in notifications : n.subscription.id # s.id
    /\ notifications' = notifications \cup {[subscription |-> s, received |-> FALSE]}
    /\ UNCHANGED <<redirected, subscriptions, handlers, item, missed, mergesBudget>>

-----------------------------------------------------------------------------
\* The other instance.

\* Entities are requested, and the answer has the redirection.
LearnRedirection(h) ==
    /\ handlers[h] = "idle" /\ redirected
    /\ HandlerGoes(h, "propagate")
    /\ UNCHANGED <<redirected, subscriptions, notifications, item, missed, mergesBudget>>

PropagateRedirectionToSocialCore(h) ==
    /\ handlers[h] = "propagate"
    /\ item' = [moved |-> TRUE, previous |-> ~item.moved \/ item.previous]
    /\ HandlerGoes(h, "subscribe")
    /\ UNCHANGED <<redirected, subscriptions, notifications, missed, mergesBudget>>

\* recordSubscription: looks for one, then posts it. The request may fail before.
SubscribeToRevert(h) ==
    /\ handlers[h] = "subscribe"
    /\ HandlerGoes(h, IF subscriptions = {} THEN "post" ELSE "idle")
    /\ UNCHANGED <<redirected, subscriptions, notifications, item, missed, mergesBudget>>

PostSubscription(h) ==
    /\ handlers[h] = "post"
    /\ Counts("subscriptions", MaxSubscriptions)
    /\ subscriptions' = subscriptions \cup {[id |-> mergesBudget.subscriptions + 1, attempts |-> 0]}
    /\ HandlerGoes(h, "idle")
    /\ UNCHANGED <<redirected, notifications, item, missed>>

FailToSubscribe(h) ==
    /\ handlers[h] \in {"subscribe", "post"}
    /\ NetworkFails
    /\ HandlerGoes(h, "idle")
    /\ UNCHANGED <<redirected, subscriptions, notifications, item, missed>>

\* The event is received: items that remember the entity have it again.
ReceiveRevert(n) ==
    /\ ~n.received
    /\ notifications' = (notifications \ {n}) \cup {[n EXCEPT !.received = TRUE]}
    /\ item' = IF item.previous THEN [moved |-> FALSE, previous |-> FALSE] ELSE item
    /\ UNCHANGED <<redirected, subscriptions, handlers, missed, mergesBudget>>

FederatedNext ==
    \/ Merge \/ RevertMerge
    \/ \E n \in notifications : ReceiveRevert(n) \/ Acknowledge(n) \/ RecordNotificationFailure(n)
    \/ \E s \in subscriptions : RetryFailedNotification(s)
    \/ \E h \in Handlers :
         \/ LearnRedirection(h) \/ PropagateRedirectionToSocialCore(h)
         \/ SubscribeToRevert(h) \/ PostSubscription(h) \/ FailToSubscribe(h)

FederatedSpec == FederatedInit /\ [][FederatedNext]_fvars

-----------------------------------------------------------------------------

\* Once the notifications of a reverted merge were all delivered, the items have their
\* entity back, whatever was lost, delivered twice, or merged again in between; except
\* when the revert came before the subscription, during the notification of a former
\* revert, or when it was given up.
RevertsReachOtherInstances ==
    /\ ~redirected /\ ~missed
    /\ handlers = [h \in Handlers |-> "idle"]
    /\ notifications = {} /\ \A s \in subscriptions : s.attempts = 0
    => ~item.moved
=============================================================================
