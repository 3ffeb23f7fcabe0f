------------------------ MODULE MCCampaignExecution ------------------------
EXTENDS CampaignExecution, TLC

CampaignSymmetry ==
    Permutations(Runs) \cup Permutations(Workers) \cup Permutations(Cancellers)
=============================================================================
