---------------------------- MODULE MCListIteration ----------------------------
EXTENDS ListIteration

CONSTANT o1

\* Something new, alone and before what may have been an element.
MCFeeds == {<<o1>>, <<o1, 1>>}
=============================================================================
