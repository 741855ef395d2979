-------------------------- MODULE MCLidarRegistry --------------------------
\* Settings for the runs of LidarRegistry.
EXTENDS LidarRegistry

CONSTANTS h1, h2, h3

Announced(n1, n2, n3) ==
    [h \in Handle |-> CASE h = h1 -> n1 [] h = h2 -> n2 [] h = h3 -> n3]

\* One lidar is listed twice and refuses options.
ListedTwice ==
    [configs |-> <<[handle |-> h1, options |-> {"blind_spot"}],
                   [handle |-> h1, options |-> {"data_type", "scan_pattern", "dual_emit"}]>>,
     changes |-> Announced(2, 0, 0), refusals |-> TRUE]

\* More lidars are listed than the table has slots.
TooMany ==
    [configs |-> <<[handle |-> h1, options |-> {"data_type"}],
                   [handle |-> h2, options |-> {}],
                   [handle |-> h3, options |-> {"data_type"}]>>,
     changes |-> Announced(1, 1, 1), refusals |-> FALSE]

\* A listed lidar and one that is not in the file.
OneListed ==
    [configs |-> <<[handle |-> h1, options |-> {"data_type"}]>>,
     changes |-> Announced(2, 1, 0), refusals |-> FALSE]

AllSettings == {ListedTwice, TooMany, OneListed}
============================================================================
