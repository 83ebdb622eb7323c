------------------------ MODULE MCCampaignLifecycle ------------------------
(* TLC instances of CampaignLifecycle: contacts, requests and workers are    *)
(* alike.                                                                    *)
EXTENDS CampaignLifecycle, TLC

Symmetry ==
    Permutations(Contacts) \cup Permutations(Requests) \cup Permutations(Workers)

=============================================================================
