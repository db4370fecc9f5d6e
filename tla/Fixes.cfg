\* Two drifts that share a branch, and a patch of one of their files.
SPECIFICATION Spec
CONSTANTS
    drift1 = drift1  drift2 = drift2  patch = patch
    slug = slug  network = network  storage = storage
    Fixes <- MCFixes
    Agent <- MCAgent
    Slugs = {slug}
    Slug <- MCSlug
    Files = {network, storage}
    File <- MCFile
    MaxCommits = 1
CONSTRAINT Bounds
INVARIANT LostUpdatesExplained PullRequestHoldsFix FailedWorkExplained
CHECK_DEADLOCK FALSE
