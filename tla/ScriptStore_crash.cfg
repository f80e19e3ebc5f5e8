\* What the documentation says and the code does not keep.
SPECIFICATION StoreSpec
CONSTANTS
    Texts = {example, moody}
    Moody = {moody}
    Example = example
    NoText = NoText
    Pids = {p1, p2}
    MaxRevision = 2
INVARIANT RunsWhatWasEnabled
