---------------------------- MODULE MCFileUpload ----------------------------
EXTENDS FileUpload

CONSTANTS u1, u2, w, a, b

TwoClis == {u1, u2}
OneWeb  == {w}

\* Two CLIs and a browser compete for a name; the browser has a second file.
Compete == [c \in {u1, u2, w} |-> IF c = w THEN <<a, b>> ELSE <<a>>]

Bad == {b}
=============================================================================
