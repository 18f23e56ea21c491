------------------------- MODULE MCSubscriptionManager -------------------------
(* Instances of SubscriptionManager for TLC. *)
EXTENDS SubscriptionManager, TLC

CONSTANTS t1, t2, t3, f1, f2, o1, o2

\* One task for each filter, as in this program, and tasks that share one.
OwnTopics == t1 :> f1 @@ t2 :> f2
OneTopic == t1 :> f1
SharedTopics == t1 :> f1 @@ t2 :> f1
MixedTopics == t1 :> f1 @@ t2 :> f2 @@ t3 :> f2
=============================================================================
