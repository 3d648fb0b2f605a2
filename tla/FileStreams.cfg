SPECIFICATION Spec
CONSTANTS
    s1 = s1
    s2 = s2
    s3 = s3
    Streams = {s1, s2, s3}
    MaxDescriptor = 3
    kBufferSize = 2
    MaxLength = 3
    Setups <- MCSetups
INVARIANTS
    NothingIsSkipped
    DescriptorsAreOwned
PROPERTIES
    LinesAreTheText
    ClientsGetTheFile
\* A process may crash, and a call may end for good.
CHECK_DEADLOCK FALSE
