----------------------------- MODULE MCFileStreams -----------------------------
EXTENDS FileStreams

CONSTANTS s1, s2, s3

Mode(mode, append, binary) == [mode |-> mode, append |-> append, binary |-> binary]
Setup(streams, files, modes, calls, serving, growing) ==
    [streams |-> streams, files |-> files, modes |-> modes, calls |-> calls, serving |-> serving, growing |-> growing]
Xs(n) == [i \in 1 .. n |-> "x"]

MCSetups ==
    [ \* Every file of up to three bytes is read, in both modes.
      reading |-> Setup({s1}, SeqOf(Bytes, 3), {Mode("r", FALSE, b) : b \in BOOLEAN},
                        {"read", "line", "lines"}, FALSE, FALSE),
      \* A file grows while it is read.
      growing |-> Setup({s1}, {Xs(1)}, {Mode("r", FALSE, b) : b \in BOOLEAN}, {"read", "line"}, FALSE, TRUE),
      \* A file is read and written through several streams.
      writing |-> Setup({s1, s2}, {Xs(2)}, {Mode(m, FALSE, TRUE) : m \in {"r", "w", "rw"}},
                        {"read", "write"}, FALSE, FALSE),
      \* Files go to clients.
      serving |-> Setup({s1, s2, s3}, {<<"x", "lf", "x">>}, {Mode("r", FALSE, TRUE)}, {}, TRUE, FALSE) ]
=============================================================================
