\* The stack may hold the rest of a longer path behind the one that is copied.
CONSTANTS
    Places <- FivePlaces
    Cwd = "cwd"
    Extensions <- LongerNames
    FileSystems <- FilesThere
SPECIFICATION FollowSpec
INVARIANT FollowReturnsTarget
