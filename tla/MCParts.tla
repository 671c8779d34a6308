-------------------------------- MODULE MCParts --------------------------------
(* Parts of the server that share nothing, in one run: a behaviour is one of a     *)
(* single part and leaves the others at their initial state.                       *)
EXTENDS Indexation, OutgoingRequests, SessionKeys, RelationsCache, FederatedMerges, GroupedCache,
        TransactionEmails, PublicActivities, TLC

VARIABLE part   \* the part a behaviour is about

PartsInit ==
    /\ part \in {"indexation", "requests", "keys", "relations", "federation", "cache", "emails", "activities"}
    /\ IndexationInit /\ OutgoingInit /\ SessionKeysInit /\ RelationsCacheInit
    /\ FederatedInit /\ GroupedCacheInit /\ MailInit /\ PublicInit

\* Requests sent, handlers of an event, readers of a cache and new items are interchangeable.
Symmetric ==
    Permutations(Calls) \cup Permutations(Handlers) \cup Permutations(Readers) \cup Permutations(Books)

PartsNext ==
    /\ part' = part
    /\ \/ part = "indexation" /\ IndexationNext
          /\ UNCHANGED <<ovars, kvars, rvars, fvars, cvars, mailVars, pvars>>
       \/ part = "requests" /\ OutgoingNext
          /\ UNCHANGED <<xvars, kvars, rvars, fvars, cvars, mailVars, pvars>>
       \/ part = "keys" /\ SessionKeysNext
          /\ UNCHANGED <<xvars, ovars, rvars, fvars, cvars, mailVars, pvars>>
       \/ part = "relations" /\ RelationsCacheNext
          /\ UNCHANGED <<xvars, ovars, kvars, fvars, cvars, mailVars, pvars>>
       \/ part = "federation" /\ FederatedNext
          /\ UNCHANGED <<xvars, ovars, kvars, rvars, cvars, mailVars, pvars>>
       \/ part = "cache" /\ GroupedCacheNext
          /\ UNCHANGED <<xvars, ovars, kvars, rvars, fvars, mailVars, pvars>>
       \/ part = "emails" /\ MailNext
          /\ UNCHANGED <<xvars, ovars, kvars, rvars, fvars, cvars, pvars>>
       \/ part = "activities" /\ PublicNext
          /\ UNCHANGED <<xvars, ovars, kvars, rvars, fvars, cvars, mailVars>>

PartsSpec ==
    PartsInit /\ [][PartsNext]_<<part, xvars, ovars, kvars, rvars, fvars, cvars, mailVars, pvars>>
=============================================================================
