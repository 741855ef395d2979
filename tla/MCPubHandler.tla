---------------------------- MODULE MCPubHandler ---------------------------
\* Loads for the run of PubHandler: a HAP on a synchronized clock, and a
\* MID360 that is stamped by the host.
EXTENDS PubHandler

CONSTANTS hap, mid360

Points(ofHap, ofMid360) == [l \in Lidar |-> IF l = hap THEN ofHap ELSE ofMid360]

\* The HAP alone, which the MID360 disturbs with IMU samples only; both of
\* them; and the destructor.
ThreeLoads == { [points |-> Points(4, 0), stops |-> FALSE],
                [points |-> Points(2, 1), stops |-> FALSE],
                [points |-> Points(1, 0), stops |-> TRUE] }
============================================================================
