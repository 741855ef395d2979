------------------------ MODULE MCLidarDistribution ------------------------
(* Instances of LidarDistribution: one stream is loaded at a time. *)
EXTENDS LidarDistribution

Load(pointClouds, imuSamples) ==
    [s \in Stream |-> IF s = "pcd" THEN pointClouds ELSE imuSamples]

OneStreamLoaded ==
    { [format |-> "PointCloud2", load |-> Load(2, 0)],
      [format |-> "PclPxyzi", load |-> Load(1, 0)],
      [format |-> "Custom", load |-> Load(0, 1)] }
OneOfEach == Load(1, 1)
=============================================================================
