---------------------------- MODULE MC_UsbEvents ----------------------------
(* Model values and definitions that instantiate UsbEvents for TLC.        *)
EXTENDS UsbEvents, TLC

CONSTANTS w1, w2, d1, d2, p1, p2

\* Two keys of different models, or two sticks of the same model (same
\* vendor/model/revision, different serial numbers).
DistinctProducts == [d \in {d1, d2} |-> IF d = d1 THEN p1 ELSE p2]
SharedProduct    == [d \in {d1, d2} |-> p1]

OnePartition  == [d \in {d1, d2} |-> {1}]
TwoPartitions == [d \in {d1, d2} |-> {1, 2}]
\* d2 carries two partitions, so its plug-in is two add events.
MixedPartitions == [d \in {d1, d2} |-> IF d = d1 THEN {1} ELSE {1, 2}]
\* d2 laid out like a GPT cloud image: partitions 1 and 14.
CloudImage == [d \in {d1, d2} |-> IF d = d1 THEN {1} ELSE {1, 14}]

OneWorker  == {w1}
TwoWorkers == {w1, w2}
=============================================================================
