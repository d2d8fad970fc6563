--------------------------- MODULE MC_IngressCopy ---------------------------
(* Model values and small constant definitions for IngressCopy.           *)
EXTENDS IngressCopy, TLC

CONSTANTS w1, w2, f1, f2, f3, n1, n2, n3

\* One UI connected, or two.
OneWorker == {w1}
TwoWorkers == {w1, w2}

\* Three files with three names, as on a key without name clashes.
ThreeFiles == {f1, f2, f3}
ThreeNames == {n1, n2, n3}
DistinctNames == [f \in ThreeFiles |-> CASE f = f1 -> n1 [] f = f2 -> n2 [] f = f3 -> n3]

\* Two files, two names.
TwoFiles == {f1, f2}
TwoNames == {n1, n2}
TwoDistinct == [f \in TwoFiles |-> IF f = f1 THEN n1 ELSE n2]

\* a/x.txt and b/x.txt, or café.txt and cafe.txt: one sanitised name.
OneName == {n1}
SameName == [f \in TwoFiles |-> n1]

\* f2's path is not valid UTF-8.
BadF2 == {f2}

\* Every path is valid UTF-8.
NoBad == {}

\* Every directory of the key can be read, or f2 lies in one that cannot.
AllReadable == {}
UnreadableF2 == {f2}
=============================================================================
