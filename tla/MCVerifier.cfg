SPECIFICATION FairSpec
CONSTANTS
    Parallelism = 1
    BacklogSize = 2
    Kinds = {"vote", "compound", "payload", "bundle"}
    BundleVotes = 2
    MaxBundles = 1
    MaxMessages = 11
    BundleLoad = 8
INVARIANTS
    SubmitFindsRoom
    OneResultPerVote
PROPERTIES
    VotesAnswered
    QuietShutdownEnds
CHECK_DEADLOCK FALSE
