---------------------------- MODULE MCSyncedImu -----------------------------
\* The threads for the run of SyncedImu: two video sensors share the publisher.
EXTENDS SyncedImu

Cameras == {"depth", "color"}
=============================================================================
