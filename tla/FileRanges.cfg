SPECIFICATION Spec
CONSTANTS
    None = None
    Papers = {a4, a3}
    DefaultPaper = a4
    Kinds = {plain}
    Pages = {1, 2, 9}
    ArrayLimit = 5
    MaxCopies = 2
    MaxRanges = 3
    MaxTokens = 5
INVARIANTS TypeOK OnePaper AllPagesAlone FlagIsTrue
