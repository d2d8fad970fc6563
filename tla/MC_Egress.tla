------------------------------ MODULE MC_Egress ------------------------------
(* Model values and small constant definitions for Egress.                *)
EXTENDS Egress, TLC

CONSTANTS i1, i2, i3, i4, n1, n2

Verdict(ok, yara) == [is_digest_ok |-> ok, is_toobig |-> FALSE,
                      is_type_allowed |-> TRUE, av_pass |-> TRUE,
                      yara_pass |-> yara]

\* i1 passes every check, i2 fails yara (rejected under yara_clean), i3
\* has a wrong digest.
ThreeIn == {i1, i2, i3}
ThreeTransit == <<i1, i2, i3>>
ThreeMd == [i \in ThreeIn |-> CASE i = i1 -> Verdict(TRUE, TRUE)
                               [] i = i2 -> Verdict(TRUE, FALSE)
                               [] i = i3 -> Verdict(FALSE, TRUE)]
\* i2 carries the name of i1.
ThreeNames == [i \in ThreeIn |-> IF i = i3 THEN n2 ELSE n1]
ThreeLength == [i \in ThreeIn |-> IF i = i1 THEN 2 ELSE 1]

\* The same three, then an accepted file with the name of the rejected i3.
FourIn == {i1, i2, i3, i4}
FourTransit == <<i1, i2, i3, i4>>
FourMd == [i \in FourIn |-> IF i = i4 THEN Verdict(TRUE, TRUE) ELSE ThreeMd[i]]
FourNames == [i \in FourIn |-> IF i \in {i3, i4} THEN n2 ELSE n1]
FourLength == [i \in FourIn |-> IF i = i1 THEN 2 ELSE 1]

\* Two accepted files.
TwoIn == {i1, i2}
TwoTransit == <<i1, i2>>
TwoMd == [i \in TwoIn |-> Verdict(TRUE, TRUE)]
TwoDistinct == [i \in TwoIn |-> IF i = i1 THEN n1 ELSE n2]
\* The same file name received twice, the second time shorter.
TwoSame == [i \in TwoIn |-> n1]
LongThenShort == [i \in TwoIn |-> IF i = i1 THEN 2 ELSE 1]

AllNames == {n1, n2}
=============================================================================
