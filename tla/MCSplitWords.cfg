\* Short strings of words and blanks.
CONSTANTS
    Characters = {a, blank}
    Separators = {{blank}}
    default_sep = {blank}
    MaxString = 4
    SPLIT_SIZE_INITIAL = 1
    SPLIT_GROW_FACTOR = 2
SPECIFICATION SplitSpec
INVARIANT SplitsIntoWords
