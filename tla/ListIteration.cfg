SPECIFICATION Spec
CONSTANTS
    MaxLinks = 3
    MaxVector = 2
    MaxSize = 6
    o1 = o1
    Others = {o1}
    Feeds <- MCFeeds
    Handles = {h1}
    EmptyIterator = EmptyIterator
    NoIterator = NoIterator
    MaxPushback = 2
INVARIANTS
    DeliversTheList
    NeverTwice
    RemovesWhatItFound
