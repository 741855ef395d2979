---------------------------- MODULE CaptureFiles ----------------------------
(***************************************************************************)
(* The three recorders and the two directories they share:                 *)
(*   PcdRecorderNode   accumulates clouds and flushes them to n.pcd,       *)
(*   PngRecorderNode   writes one image to n.png,                          *)
(*   SyncCaptureNode   writes n.png, accumulates clouds, writes n.pcd.     *)
(* Each node is a process of its own with a single-threaded executor, so   *)
(* its callbacks do not interleave with each other, but the nodes do: each *)
(* scans the directory for the largest number and writes later.            *)
(*                                                                         *)
(* A cloud is the number of its message, counted per node; the clouds that *)
(* carry no usable point are left out.  Scans and writes may fail.         *)
(***************************************************************************)
EXTENDS Integers, FiniteSets, SequencesExt

CONSTANTS PcdNodes, PngNodes, SyncNodes,
          SaveOnShutdown,   \* save_on_shutdown of the PcdRecorderNodes
          MaxIndex,         \* largest file number (2^64 - 1 in the code)
          MaxClouds,        \* bound: clouds a node receives
          Settings,         \* the settings to start with
          NoFile

CloudNodes == PcdNodes \cup SyncNodes
Node == CloudNodes \cup PngNodes
Index == 1..MaxIndex
Cloud == 1..MaxClouds

ASSUME NodesAssumption ==
    /\ PcdNodes \cap PngNodes = {} /\ CloudNodes \cap (PngNodes \ PcdNodes) = {}
    /\ PcdNodes \cap SyncNodes = {}
ASSUME BoundsAssumption == MaxIndex \in Nat /\ MaxClouds \in Nat
ASSUME NoFileAssumption == NoFile \notin Node \cup [by : CloudNodes, clouds : Seq(Cloud)]

\* The nodes a user starts, save_once of the PcdRecorderNodes, and whether nodes
\* run at the same time.
Setting == [nodes : SUBSET Node, saveOnce : BOOLEAN, concurrent : BOOLEAN]
ASSUME SettingsAssumption == Settings \subseteq Setting

VARIABLES
    setup,      \* the setting, which nothing changes
    pcd,        \* pcd[i]: the contents of i.pcd, by whom and which clouds
    png,        \* png[i]: who wrote i.png
    at,         \* where each node is
    ok,         \* rclcpp::ok() of each node
    number,     \* the file number a node has chosen
    seen,       \* how many clouds a node has received
    buffer,     \* cloud_buffer_
    saving,     \* cloud_to_save
    first,      \* the cloud of the synchronized pair (0: !capture_started_)
    written     \* history: how many files a node has written

files == <<pcd, png>>
clouds == <<seen, buffer, saving, first>>
vars == <<setup, files, at, ok, number, clouds, written>>

Point == {"off", "spin", "scan", "save", "image", "exit", "done"}

Init ==
    /\ setup \in Settings
    /\ pcd = [i \in Index |-> NoFile] /\ png = [i \in Index |-> NoFile]
    /\ at = [n \in Node |-> "off"] /\ ok = [n \in Node |-> TRUE]
    /\ number = [n \in Node |-> 0] /\ written = [n \in Node |-> 0]
    /\ seen = [n \in CloudNodes |-> 0]
    /\ buffer = [n \in CloudNodes |-> <<>>] /\ saving = [n \in CloudNodes |-> <<>>]
    /\ first = [n \in CloudNodes |-> 0]

Goes(n, point) == at' = [at EXCEPT ![n] = point]
Spinning(n) == at[n] = "spin" /\ ok[n]
Shutdown(n) == ok' = [ok EXCEPT ![n] = FALSE]

Numbers(dir) == {i \in Index : dir[i] # NoFile}
Largest(is) == IF is = {} THEN 0 ELSE Max(is)

-----------------------------------------------------------------------------
(* Process life *)

Start(n) ==
    /\ at[n] = "off" /\ n \in setup.nodes
    /\ setup.concurrent \/ \A m \in Node : at[m] \in {"off", "done"}
    /\ Goes(n, "spin")
    /\ UNCHANGED <<setup, files, ok, number, clouds, written>>

\* Ctrl-C; a callback that runs is finished first.
Interrupt(n) ==
    /\ at[n] \notin {"off", "exit", "done"} /\ ok[n]
    /\ Shutdown(n)
    /\ UNCHANGED <<setup, files, at, number, clouds, written>>

SpinReturns(n) ==
    /\ at[n] = "spin" /\ ~ok[n]
    /\ Goes(n, "exit")
    /\ UNCHANGED <<setup, files, ok, number, clouds, written>>

\* Mutant: the number after the count of files.
BuildFileNameByCount(n, used, then, otherwise) ==
    /\ at[n] = "scan"
    /\ \/ Largest(used) < MaxIndex /\ number' = [number EXCEPT ![n] = Cardinality(used) + 1]
          /\ Goes(n, then) /\ UNCHANGED ok
       \/ UNCHANGED number /\ otherwise
    /\ UNCHANGED <<setup, files, clouds, written>>

\* The number of the next file, or none: the directory cannot be read or the
\* largest number is in use.
BuildFileName(n, used, then, otherwise) ==
    /\ at[n] = "scan"
    /\ \/ Largest(used) < MaxIndex /\ number' = [number EXCEPT ![n] = Largest(used) + 1]
          /\ Goes(n, then) /\ UNCHANGED ok
       \/ UNCHANGED number /\ otherwise
    /\ UNCHANGED <<setup, files, clouds, written>>

-----------------------------------------------------------------------------
(* PcdRecorderNode *)

PointCloudCallback(n) ==
    /\ Spinning(n) /\ seen[n] < MaxClouds
    /\ seen' = [seen EXCEPT ![n] = @ + 1]
    /\ buffer' = [buffer EXCEPT ![n] = Append(@, seen[n] + 1)]
    /\ UNCHANGED <<setup, files, at, ok, number, saving, first, written>>

\* Mutant: saves the buffer and keeps it.
CopyBuffer(n) ==
    /\ saving' = [saving EXCEPT ![n] = buffer[n]]
    /\ Goes(n, "scan")
    /\ UNCHANGED <<setup, files, ok, number, seen, buffer, first, written>>

SwapBuffer(n) ==
    /\ saving' = [saving EXCEPT ![n] = buffer[n]]
    /\ buffer' = [buffer EXCEPT ![n] = <<>>]
    /\ Goes(n, "scan")
    /\ UNCHANGED <<setup, files, ok, number, seen, first, written>>

FlushTimer(n) ==
    /\ Spinning(n) /\ buffer[n] # <<>>
    /\ SwapBuffer(n)

Completed(n) == setup.saveOnce /\ written[n] > 0      \* save_once_completed_

Destructor(n) ==
    /\ at[n] = "exit"
    /\ IF SaveOnShutdown /\ ~Completed(n) /\ buffer[n] # <<>>
       THEN SwapBuffer(n)
       ELSE Goes(n, "done") /\ UNCHANGED <<setup, files, ok, number, clouds, written>>

\* A failed flush loses what it has swapped out.  Called from the destructor it
\* passes through "exit" once more, with nothing left to flush.
PcdFileName(n) ==
    BuildFileName(n, Numbers(pcd), "save", Goes(n, "spin") /\ UNCHANGED ok)

SavePcd(n) ==
    /\ at[n] = "save"
    /\ \/ /\ pcd' = [pcd EXCEPT ![number[n]] = [by |-> n, clouds |-> saving[n]]]
          /\ written' = [written EXCEPT ![n] = @ + 1]
          /\ IF setup.saveOnce THEN Shutdown(n) ELSE UNCHANGED ok
       \/ UNCHANGED <<pcd, written, ok>>
    /\ saving' = [saving EXCEPT ![n] = <<>>]
    /\ Goes(n, "spin")
    /\ UNCHANGED <<setup, png, number, seen, buffer, first>>

PcdRecorder(n) ==
    \/ PointCloudCallback(n) \/ FlushTimer(n) \/ PcdFileName(n) \/ SavePcd(n)
    \/ SpinReturns(n) \/ Destructor(n)
-----------------------------------------------------------------------------
(* PngRecorderNode *)

\* A failed conversion has no effect.
ImageCallback(n) ==
    /\ Spinning(n) /\ written[n] = 0
    /\ Goes(n, "scan")
    /\ UNCHANGED <<setup, files, ok, number, clouds, written>>

PngFileName(n) ==
    BuildFileName(n, Numbers(png), "image", Goes(n, "spin") /\ UNCHANGED ok)

SavePng(n) ==
    /\ at[n] = "image"
    /\ \/ /\ png' = [png EXCEPT ![number[n]] = n]
          /\ written' = [written EXCEPT ![n] = @ + 1]
          /\ Shutdown(n)
       \/ UNCHANGED <<png, written, ok>>
    /\ Goes(n, "spin")
    /\ UNCHANGED <<setup, pcd, number, clouds>>

Leave(n) ==
    /\ at[n] = "exit"
    /\ Goes(n, "done")
    /\ UNCHANGED <<setup, files, ok, number, clouds, written>>

PngRecorder(n) ==
    ImageCallback(n) \/ PngFileName(n) \/ SavePng(n) \/ SpinReturns(n) \/ Leave(n)

-----------------------------------------------------------------------------
(* SyncCaptureNode *)

Capturing(n) == written[n] > 0          \* capture_timer_ is set

\* The synchronizer has a subscription of its own: it pairs an image with a cloud
\* that the capture callback has or has not had yet.
SyncCallback(n, k) ==
    /\ Spinning(n) /\ first[n] = 0
    /\ first' = [first EXCEPT ![n] = k]
    /\ Goes(n, "scan")
    /\ UNCHANGED <<setup, files, ok, number, seen, buffer, saving, written>>

\* Mutant: looks into the image directory only.
SyncFileNameOfImages(n) ==
    BuildFileName(n, Numbers(png), "image", Goes(n, "spin") /\ Shutdown(n))

SyncFileName(n) ==
    BuildFileName(n, Numbers(pcd) \cup Numbers(png), "image",
                  Goes(n, "spin") /\ Shutdown(n))

\* saveImage, the timer and appendPointCloud; distance filtering may leave
\* nothing of the cloud.
SaveImage(n) ==
    /\ at[n] = "image"
    /\ \/ /\ png' = [png EXCEPT ![number[n]] = n]
          /\ written' = [written EXCEPT ![n] = @ + 1]
          /\ \E kept \in {<<>>, <<first[n]>>} : buffer' = [buffer EXCEPT ![n] = kept]
          /\ UNCHANGED ok
       \/ Shutdown(n) /\ UNCHANGED <<png, written, buffer>>
    /\ Goes(n, "spin")
    /\ UNCHANGED <<setup, pcd, number, seen, saving, first>>

\* Mutant: takes the synchronized cloud once more.
TakeEveryCloud(n) ==
    /\ Spinning(n) /\ seen[n] < MaxClouds
    /\ seen' = [seen EXCEPT ![n] = @ + 1]
    /\ buffer' = IF Capturing(n) THEN [buffer EXCEPT ![n] = Append(@, seen[n] + 1)] ELSE buffer
    /\ UNCHANGED <<setup, files, at, ok, number, saving, first, written>>

\* The cloud with the stamp of the synchronized one is left out.
LidarCaptureCallback(n) ==
    LET k == seen[n] + 1 IN
    /\ Spinning(n) /\ k <= MaxClouds
    /\ seen' = [seen EXCEPT ![n] = k]
    /\ buffer' = IF Capturing(n) /\ k # first[n]
                 THEN [buffer EXCEPT ![n] = Append(@, k)] ELSE buffer
    /\ UNCHANGED <<setup, files, at, ok, number, saving, first, written>>

\* Mutant: returns without a shutdown when there is nothing to save.
SavePointCloudIfAny(n) ==
    /\ Spinning(n) /\ Capturing(n) /\ buffer[n] # <<>>
    /\ pcd' = [pcd EXCEPT ![number[n]] = [by |-> n, clouds |-> buffer[n]]]
    /\ written' = [written EXCEPT ![n] = @ + 1]
    /\ Shutdown(n)
    /\ UNCHANGED <<setup, png, at, number, clouds>>

\* Nothing accumulated, a failed write and a saved file all shut the node down.
SaveAccumulatedPointCloud(n) ==
    /\ Spinning(n) /\ Capturing(n)
    /\ \/ /\ buffer[n] # <<>>
          /\ pcd' = [pcd EXCEPT ![number[n]] = [by |-> n, clouds |-> buffer[n]]]
          /\ written' = [written EXCEPT ![n] = @ + 1]
       \/ UNCHANGED <<pcd, written>>
    /\ Shutdown(n)
    /\ UNCHANGED <<setup, png, at, number, clouds>>

SyncCapture(n) ==
    \/ \E k \in Cloud : SyncCallback(n, k)
    \/ SyncFileName(n) \/ SaveImage(n) \/ LidarCaptureCallback(n)
    \/ SaveAccumulatedPointCloud(n) \/ SpinReturns(n) \/ Leave(n)

-----------------------------------------------------------------------------
Next ==
    \/ \E n \in Node : Start(n) \/ Interrupt(n)
    \/ \E n \in PcdNodes : PcdRecorder(n)
    \/ \E n \in PngNodes : PngRecorder(n)
    \/ \E n \in SyncNodes : SyncCapture(n)

\* A started capture goes on: its process runs and its timer fires.
Spec == Init /\ [][Next]_vars
FairSpec == Spec /\ \A n \in SyncNodes : WF_vars(SyncCapture(n))

-----------------------------------------------------------------------------
(* Properties *)

Clouds == {s \in BoundedSeq(Cloud, MaxClouds) : IsInjective(s)}

TypeOK ==
    /\ setup \in Settings
    /\ \A i \in Index : pcd[i] # NoFile =>
          pcd[i].by \in CloudNodes /\ pcd[i].clouds \in Clouds \ {<<>>}
    /\ png \in [Index -> PngNodes \cup SyncNodes \cup {NoFile}]
    /\ at \in [Node -> Point] /\ ok \in [Node -> BOOLEAN]
    /\ number \in [Node -> Index \cup {0}] /\ written \in [Node -> Nat]
    /\ seen \in [CloudNodes -> 0..MaxClouds] /\ first \in [CloudNodes -> 0..MaxClouds]
    /\ buffer \in [CloudNodes -> Clouds] /\ saving \in [CloudNodes -> Clouds]

FilesKept == /\ \A i \in Index : pcd[i] # NoFile => pcd'[i] = pcd[i]
             /\ \A i \in Index : png[i] # NoFile => png'[i] = png[i]

\* A number is used once per directory: no recorder replaces a file it finds
\* or another one has written (the READMEs of both recorders).
NothingOverwritten == [][FilesKept]_files

\* The same as long as the recorders run one after the other.
NothingOverwrittenAlone == [][~setup.concurrent => FilesKept]_files

\* The two files of a synchronized capture stay a pair: image and points under
\* one number are those of the same capture.
PairsStayTogether ==
    ~setup.concurrent => \A n \in SyncNodes : written[n] = 2 =>
        png[number[n]] = n /\ pcd[number[n]] # NoFile /\ pcd[number[n]].by = n

\* A point cloud is saved at most once, in one place of one file: the synchronized
\* cloud is not taken from both subscriptions, and a PcdRecorderNode gives a buffer
\* up before it writes it, whether the timer or the destructor flushes.
FilesBy(n) == {i \in Index : pcd[i] # NoFile /\ pcd[i].by = n}
SavedOnce ==
    \A n \in CloudNodes : \A i \in FilesBy(n) : \A a \in DOMAIN pcd[i].clouds :
        /\ \A j \in FilesBy(n) : \A b \in DOMAIN pcd[j].clouds :
              pcd[i].clouds[a] = pcd[j].clouds[b] => i = j /\ a = b
        /\ n \in PcdNodes => /\ ~Contains(buffer[n], pcd[i].clouds[a])
                              /\ ~Contains(saving[n], pcd[i].clouds[a])

\* A synchronized capture ends, with or without its files.
CaptureEnds == \A n \in SyncNodes : first[n] # 0 ~> at[n] = "done"
=============================================================================
