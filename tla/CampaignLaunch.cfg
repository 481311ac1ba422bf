CONSTANTS
    NFiles = 2
    MaxShard = 2
    Launch = {l1, l2}
    Nobody = Nobody
    Mode = "benchmark_faithful"
SPECIFICATION Spec
SYMMETRY Symmetry
INVARIANTS CampaignInv WatchedAsContracted
PROPERTIES ManifestKept
CHECK_DEADLOCK FALSE
