------------------------------ MODULE MC_Store ------------------------------
EXTENDS Store, TLC

CONSTANTS st1, st2, ip1, ip2, p1, p2, bad

\* Two stations and two addresses; two key paths, one of them not a file.
TwoNames == {st1, st2}
TwoIps == {ip1, ip2}
TwoPaths == {p1, p2}
NotAFile == {p2}
\* A station name holding a quote.
QuotedName == {bad}
ThreeNames == {st1, st2, bad}
=============================================================================
