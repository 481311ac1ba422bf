--------------------------- MODULE MCCampaignLaunch ---------------------------
\* The launches of CampaignLaunch are interchangeable.
EXTENDS CampaignLaunch, TLC
Symmetry == Permutations(Launch)
=============================================================================
