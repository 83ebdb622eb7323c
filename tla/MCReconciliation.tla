--------------------------- MODULE MCReconciliation ---------------------------
(* TLC instances of Reconciliation: a message that is delivered, complained  *)
(* about and fails for good, in any order, and the deferred one that was     *)
(* sent when the first was never recorded, or was never recorded itself.     *)
EXTENDS Reconciliation, TLC

CONSTANTS r1, a1, m1, m2, soft2, sent1, spam1, fail1

MCAddressOf == r1 :> a1

MCRowOf == m1 :> r1 @@ m2 :> r1

MCMessageOf == sent1 :> m1 @@ spam1 :> m1 @@ fail1 :> m1 @@ soft2 :> m2

MCEventType ==
    sent1 :> "MessageSent" @@ spam1 :> "MessageSpamReport"
        @@ fail1 :> "MessageDeliveryFailed" @@ soft2 :> "MessageDeliveryFailed"

MCEventStatus ==
    sent1 :> "other" @@ spam1 :> "other" @@ fail1 :> "permanent" @@ soft2 :> "other"

Symmetry == Permutations(Workers)

=============================================================================
