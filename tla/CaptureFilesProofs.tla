------------------------- MODULE CaptureFilesProofs -------------------------
(***************************************************************************)
(* Proofs about the recorders, for every number of nodes, clouds and       *)
(* files, whatever scan or write fails and whenever a user interrupts:     *)
(* recorders that run one after the other replace no file, the files of a  *)
(* capture stay a pair, and a cloud is saved at most once.                 *)
(***************************************************************************)
EXTENDS CaptureFiles, SequenceTheorems, FiniteSetTheorems, WellFoundedInduction, TLAPS

File == [by : CloudNodes, clouds : Seq(Cloud)]

\* Types of the variables.
TypeInv ==
    /\ setup \in Setting
    /\ pcd \in [Index -> File \cup {NoFile}]
    /\ png \in [Index -> PngNodes \cup SyncNodes \cup {NoFile}]
    /\ at \in [Node -> Point] /\ ok \in [Node -> BOOLEAN]
    /\ number \in [Node -> Index \cup {0}] /\ written \in [Node -> Nat]
    /\ seen \in [CloudNodes -> 0..MaxClouds] /\ first \in [CloudNodes -> 0..MaxClouds]
    /\ buffer \in [CloudNodes -> Seq(Cloud)] /\ saving \in [CloudNodes -> Seq(Cloud)]

\* A cloud that a PcdRecorderNode has seen is in one place at most: its buffer, what
\* it is saving, or one file.
Saved(n, k, i) == pcd[i] # NoFile /\ pcd[i].by = n /\ Contains(pcd[i].clouds, k)
PcdInv(n) ==
    \A k \in Cloud :
        /\ Contains(buffer[n], k) => k <= seen[n] /\ ~ Contains(saving[n], k)
        /\ Contains(saving[n], k) => k <= seen[n]
        /\ \A i \in Index : Saved(n, k, i) =>
              /\ k <= seen[n] /\ ~ Contains(buffer[n], k) /\ ~ Contains(saving[n], k)
              /\ \A j \in Index : Saved(n, k, j) => i = j

\* A synchronized capture begins once, and writes its points once: then it is over.
SyncInv(n) ==
    /\ at[n] = "off" => written[n] = 0
    /\ at[n] \in {"scan", "image"} => first[n] # 0 /\ written[n] = 0
    /\ written[n] > 0 => first[n] # 0
    /\ ok[n] => written[n] <= 1
    /\ written[n] <= 2
    /\ \A i, j \in Index : /\ pcd[i] # NoFile /\ pcd[i].by = n
                           /\ pcd[j] # NoFile /\ pcd[j].by = n
                           => ~ ok[n] /\ i = j

\* When recorders run one after the other, the number of the one that runs is free from
\* when it is chosen to when it is used.
Active(n) == at[n] \notin {"off", "done"}
Free(dir, i) == i \in Index /\ dir[i] = NoFile
NumberFree(n) ==
    /\ n \in PcdNodes /\ at[n] = "save" => Free(pcd, number[n])
    /\ n \notin PcdNodes /\ at[n] = "image" => Free(png, number[n])
    /\ n \in SyncNodes /\ at[n] = "image" => Free(pcd, number[n])

\* The image of a capture that waits for its points, and the two files of one that is over.
PairInv(n) ==
    /\ at[n] = "spin" /\ ok[n] /\ written[n] = 1 => Free(pcd, number[n])
    /\ (at[n] = "spin" /\ ok[n] /\ written[n] = 1) \/ written[n] = 2 =>
          number[n] \in Index /\ png[number[n]] = n
    /\ written[n] = 2 => pcd[number[n]] # NoFile /\ pcd[number[n]].by = n

AloneInv ==
    ~ setup.concurrent =>
        /\ \A m, n \in Node : Active(m) /\ Active(n) => m = n
        /\ \A n \in Node : NumberFree(n)
        /\ \A n \in SyncNodes : PairInv(n)

Inv ==
    /\ TypeInv
    /\ \A n \in PcdNodes : PcdInv(n)
    /\ \A n \in SyncNodes : SyncInv(n)
    /\ AloneInv
-----------------------------------------------------------------------------
\* A recorder is of one kind.
LEMMA Kinds ==
    /\ PcdNodes \cap PngNodes = {} /\ PcdNodes \cap SyncNodes = {} /\ SyncNodes \cap PngNodes = {}
    /\ Node = PcdNodes \cup PngNodes \cup SyncNodes /\ CloudNodes = PcdNodes \cup SyncNodes
    /\ NoFile \notin Node /\ NoFile \notin File
  BY NodesAssumption, NoFileAssumption DEF Node, CloudNodes, File

\* The number after the largest one is free.
LEMMA NextIsFree ==
    ASSUME NEW used \in SUBSET Index, Largest(used) < MaxIndex
    PROVE  Largest(used) + 1 \in Index /\ Largest(used) + 1 \notin used
<1>1. MaxIndex \in Nat /\ Index = 1..MaxIndex
  BY BoundsAssumption DEF Index
<1>2. CASE used = {}
  BY <1>1, <1>2 DEF Largest
<1>3. CASE used # {}
  <2> DEFINE below == {m \in Nat : \E i \in used : m = MaxIndex - i}
  <2>1. below \subseteq Nat /\ below # {}
    <3>1. PICK i \in used : TRUE
      BY <1>3
    <3>2. MaxIndex - i \in below
      BY <1>1
    <3>3. QED
      BY <3>2
  <2>2. PICK m \in below : \A n \in below : ~ (n < m)
    <3>1. \E m \in below : \A n \in below : <<n, m>> \notin OpToRel(<, Nat)
      BY <2>1, NatLessThanWellFounded, WFMin
    <3>2. QED
      BY <2>1, <3>1 DEF OpToRel
  <2>3. PICK i \in used : m = MaxIndex - i
    OBVIOUS
  <2>4. \A j \in used : i >= j
    <3> TAKE j \in used
    <3>1. MaxIndex - j \in below /\ i \in 1..MaxIndex /\ j \in 1..MaxIndex
      BY <1>1
    <3>2. ~ (MaxIndex - j < MaxIndex - i)
      BY <2>2, <2>3, <3>1
    <3>3. QED
      BY <1>1, <3>1, <3>2
  <2>5. Max(used) \in used /\ \A j \in used : Max(used) >= j
    BY <2>4 DEF Max
  <2>6. Largest(used) = Max(used)
    BY <1>3 DEF Largest
  <2>7. PICK k \in used : k = Largest(used) /\ \A j \in used : k >= j
    BY <2>5, <2>6
  <2> HIDE DEF below
  <2>8. k \in 1..MaxIndex /\ k < MaxIndex
    BY <1>1, <2>7
  <2>9. k + 1 \in 1..MaxIndex /\ k + 1 \notin used
    BY <1>1, <2>7, <2>8
  <2>10. QED
    BY <1>1, <2>7, <2>9
<1>4. QED
  BY <1>2, <1>3

\* A cloud is in a buffer if it was there or is the one that is added.
LEMMA Appended ==
    ASSUME NEW s \in Seq(Cloud), NEW c \in Cloud
    PROVE  /\ Append(s, c) \in Seq(Cloud)
           /\ \A k : Contains(Append(s, c), k) <=> Contains(s, k) \/ k = c
<1>1. /\ Append(s, c) \in Seq(Cloud) /\ Len(Append(s, c)) = Len(s) + 1 /\ Len(s) \in Nat
      /\ \A i \in 1..Len(s) : Append(s, c)[i] = s[i]
      /\ Append(s, c)[Len(s) + 1] = c
  BY AppendProperties, LenProperties
<1>2. \A i : i \in 1..(Len(s) + 1) <=> i \in 1..Len(s) \/ i = Len(s) + 1
  BY <1>1
<1>3. QED
  BY <1>1, <1>2 DEF Contains

\* The empty buffer contains no cloud.
LEMMA NothingContained ==
    /\ <<>> \in Seq(Cloud) /\ \A k : ~ Contains(<<>>, k)
    /\ \A c \in Cloud : <<c>> \in Seq(Cloud)
  BY DEF Contains

\* A node goes on to a point; a process is told to end.
LEMMA Going ==
    ASSUME TypeInv, NEW n \in Node, NEW point \in Point, Goes(n, point)
    PROVE  /\ at' \in [Node -> Point] /\ at'[n] = point
           /\ \A m \in Node : m # n => at'[m] = at[m]
  BY DEF TypeInv, Goes

\* A node that shuts down leaves the other nodes running.
LEMMA ShuttingDown ==
    ASSUME TypeInv, NEW n \in Node, Shutdown(n)
    PROVE  /\ ok' \in [Node -> BOOLEAN] /\ ok'[n] = FALSE
           /\ \A m \in Node : m # n => ok'[m] = ok[m]
  BY DEF TypeInv, Shutdown

-----------------------------------------------------------------------------
\* A step changes what is of the node that takes it, and adds files of that node.
Own(n) ==
    /\ UNCHANGED setup
    /\ \A m \in Node : m # n =>
          at'[m] = at[m] /\ ok'[m] = ok[m] /\ number'[m] = number[m] /\ written'[m] = written[m]
    /\ \A m \in CloudNodes : m # n =>
          /\ seen'[m] = seen[m] /\ first'[m] = first[m]
          /\ buffer'[m] = buffer[m] /\ saving'[m] = saving[m]
    /\ \A i \in Index : pcd'[i] = pcd[i] \/ (pcd'[i] # NoFile /\ pcd'[i].by = n)
    /\ \A i \in Index : png'[i] = png[i] \/ png'[i] = n

\* What a step of node n has to do, with what it has to do for n itself.
Good(n) ==
    /\ TypeInv' /\ Own(n)
    /\ n \in PcdNodes => PcdInv(n)'
    /\ n \in SyncNodes => SyncInv(n)'
    /\ \/ Active(n)
       \/ UNCHANGED files /\ (~ setup.concurrent => \A m \in Node : ~ Active(m))
    /\ ~ setup.concurrent => /\ FilesKept /\ NumberFree(n)'
                             /\ n \in SyncNodes => PairInv(n)'

\* What one node does leaves the clouds of the others alone,
LEMMA OthersKeepClouds ==
    ASSUME Inv, NEW n \in Node, Good(n), NEW m \in Node, m # n
    PROVE  /\ m \in PcdNodes => PcdInv(m)'
           /\ m \in SyncNodes => SyncInv(m)'
<1>1. /\ at'[m] = at[m] /\ ok'[m] = ok[m] /\ number'[m] = number[m] /\ written'[m] = written[m]
      /\ \A i \in Index : pcd'[i] = pcd[i] \/ (pcd'[i] # NoFile /\ pcd'[i].by = n)
  BY DEF Good, Own
<1>2. m \in CloudNodes => /\ seen'[m] = seen[m] /\ first'[m] = first[m]
                          /\ buffer'[m] = buffer[m] /\ saving'[m] = saving[m]
  BY DEF Good, Own
<1>3. \A k \in Cloud, i \in Index : Saved(m, k, i)' => Saved(m, k, i)
  BY <1>1 DEF Saved
<1>4. m \in PcdNodes => PcdInv(m)'
  BY <1>2, <1>3, Kinds DEF Inv, PcdInv
<1>5. \A i \in Index : pcd'[i] # NoFile /\ pcd'[i].by = m => pcd[i] # NoFile /\ pcd[i].by = m
  BY <1>1
<1>6. m \in SyncNodes => SyncInv(m)'
  <2> SUFFICES ASSUME m \in SyncNodes PROVE SyncInv(m)'
    OBVIOUS
  <2>1. SyncInv(m)
    BY DEF Inv
  <2>2. UNCHANGED <<at[m], ok[m], written[m], first[m]>>
    BY <1>1, <1>2, Kinds
  <2>3. \A i, j \in Index : /\ pcd'[i] # NoFile /\ pcd'[i].by = m
                            /\ pcd'[j] # NoFile /\ pcd'[j].by = m
                            => ~ ok[m] /\ i = j
    BY <1>5, <2>1 DEF SyncInv
  <2>4. QED
    BY <2>1, <2>2, <2>3 DEF SyncInv
<1>7. QED
  BY <1>4, <1>6

\* and, when recorders run one after the other, their files and numbers.
LEMMA OthersKeepFiles ==
    ASSUME Inv, NEW n \in Node, Good(n), NEW m \in Node, m # n, ~ setup.concurrent
    PROVE  NumberFree(m)' /\ (m \in SyncNodes => PairInv(m)')
<1>1. /\ at'[m] = at[m] /\ ok'[m] = ok[m] /\ number'[m] = number[m] /\ written'[m] = written[m]
      /\ FilesKept /\ (Active(n) \/ UNCHANGED files)
  BY DEF Good, Own
<1>2. NumberFree(m) /\ (m \in SyncNodes => PairInv(m)) /\ (Active(n) => ~ Active(m))
  BY DEF Inv, AloneInv
<1>3. CASE UNCHANGED files
  BY <1>1, <1>2, <1>3 DEF NumberFree, PairInv, Free, files
<1>4. CASE Active(n)
  <2>1. at'[m] \in {"off", "done"}
    BY <1>1, <1>2, <1>4 DEF Active
  <2>2. NumberFree(m)'
    BY <2>1 DEF NumberFree
  <2>3. ASSUME m \in SyncNodes PROVE PairInv(m)'
    <3>1. ASSUME written'[m] = 2
          PROVE  /\ number'[m] \in Index /\ png'[number'[m]] = m
                 /\ pcd'[number'[m]] # NoFile /\ pcd'[number'[m]].by = m
      <4>1. /\ number[m] \in Index /\ png[number[m]] = m
            /\ pcd[number[m]] # NoFile /\ pcd[number[m]].by = m
        BY <1>1, <1>2, <2>3, <3>1 DEF PairInv
      <4>2. pcd'[number[m]] = pcd[number[m]] /\ png'[number[m]] = png[number[m]]
        BY <1>1, <4>1, Kinds DEF FilesKept
      <4>3. QED
        BY <1>1, <4>1, <4>2
    <3>2. QED
      BY <2>1, <3>1 DEF PairInv
  <2>4. QED
    BY <2>2, <2>3
<1>5. QED
  BY <1>1, <1>3, <1>4

\* What Good says of a step is enough to keep the invariant.
LEMMA GoodKeeps ==
    ASSUME Inv, NEW n \in Node, Good(n)
    PROVE  Inv'
<1>1. \A m \in PcdNodes : PcdInv(m)'
  BY OthersKeepClouds, Kinds DEF Good
<1>2. \A m \in SyncNodes : SyncInv(m)'
  BY OthersKeepClouds, Kinds DEF Good
<1>3. ASSUME ~ setup'.concurrent PROVE AloneInv'
  <2>1. ~ setup.concurrent
    BY <1>3 DEF Good, Own
  <2>2. \A m \in Node : NumberFree(m)'
    BY <2>1, OthersKeepFiles DEF Good
  <2>3. \A m \in SyncNodes : PairInv(m)'
    BY <2>1, OthersKeepFiles, Kinds DEF Good
  <2>4. \A k, m \in Node : Active(k)' /\ Active(m)' => k = m
    <3>1. \A m \in Node : m # n => (Active(m)' <=> Active(m))
      BY DEF Good, Own, Active
    <3>2. \A m \in Node : m # n => ~ Active(m)' \/ ~ Active(n)
      BY <2>1, <3>1 DEF Inv, AloneInv
    <3>3. CASE Active(n)
      BY <3>2, <3>3
    <3>4. CASE \A m \in Node : ~ Active(m)
      BY <3>1, <3>4
    <3>5. QED
      BY <2>1, <3>3, <3>4 DEF Good
  <2>5. QED
    BY <2>2, <2>3, <2>4 DEF AloneInv
<1>4. AloneInv'
  BY <1>3 DEF AloneInv
<1>5. QED
  BY <1>1, <1>2, <1>4 DEF Inv, Good

-----------------------------------------------------------------------------
\* Steps that write nothing and leave the clouds alone.
LEMMA MovedIsGood ==
    ASSUME Inv, NEW n \in Node,
           UNCHANGED <<setup, files, clouds, written>>,
           at' \in [Node -> Point], ok' \in [Node -> BOOLEAN], number' \in [Node -> Index \cup {0}],
           \A m \in Node : m # n => at'[m] = at[m] /\ ok'[m] = ok[m] /\ number'[m] = number[m],
           ok'[n] => ok[n],
           at'[n] # "off",
           at'[n] \in {"scan", "image"} /\ n \in SyncNodes => first[n] # 0 /\ written[n] = 0,
           Active(n) \/ (~ setup.concurrent => \A m \in Node : ~ Active(m)),
           ~ setup.concurrent => NumberFree(n)',
           n \in SyncNodes /\ ~ setup.concurrent =>
              \/ at'[n] = at[n] /\ number'[n] = number[n]
              \/ written[n] = 0
              \/ at'[n] # "spin" /\ number'[n] = number[n]
    PROVE  Good(n)
<1>1. TypeInv'
  BY DEF Inv, TypeInv, files, clouds
<1>2. Own(n) /\ FilesKept
  BY DEF Own, files, clouds, FilesKept
<1>3. n \in PcdNodes => PcdInv(n)'
  BY DEF Inv, PcdInv, Saved, files, clouds
<1>4. n \in SyncNodes => SyncInv(n)'
  <2>1. n \in SyncNodes => SyncInv(n)
    BY DEF Inv
  <2>2. UNCHANGED <<written, first, pcd>>
    BY DEF files, clouds
  <2>3. ok[n] \in BOOLEAN /\ ok'[n] \in BOOLEAN
    BY DEF Inv, TypeInv
  <2>4. QED
    BY <2>1, <2>2, <2>3 DEF SyncInv
<1>5. ASSUME n \in SyncNodes, ~ setup.concurrent PROVE PairInv(n)'
  <2>1. PairInv(n) /\ UNCHANGED <<pcd, png, written>>
    BY <1>5 DEF Inv, AloneInv, files
  <2>2. CASE at'[n] = at[n] /\ number'[n] = number[n]
    BY <2>1, <2>2 DEF PairInv, Free
  <2>3. CASE written[n] = 0
    BY <2>1, <2>3 DEF PairInv, Free
  <2>4. CASE at'[n] # "spin" /\ number'[n] = number[n]
    BY <2>1, <2>4 DEF PairInv, Free
  <2>5. QED
    BY <1>5, <2>2, <2>3, <2>4
<1>6. QED
  BY <1>1, <1>2, <1>3, <1>4, <1>5 DEF Good

\* A process that is started has chosen no number yet and written nothing.
LEMMA StartIsGood ==
    ASSUME Inv, NEW n \in Node, Start(n)
    PROVE  Good(n)
<1>1. /\ at' \in [Node -> Point] /\ at'[n] = "spin" /\ \A m \in Node : m # n => at'[m] = at[m]
  BY Going DEF Start, Inv, Point
<1>2. UNCHANGED <<setup, files, ok, number, clouds, written>> /\ at[n] = "off"
  BY DEF Start
<1>3. ok \in [Node -> BOOLEAN] /\ number \in [Node -> Index \cup {0}]
  BY DEF Inv, TypeInv
<1>4. ~ setup.concurrent => \A m \in Node : ~ Active(m)
  BY DEF Start, Active
<1>5. NumberFree(n)'
  BY <1>1 DEF NumberFree
<1>6. n \in SyncNodes => written[n] = 0
  BY <1>2 DEF Inv, SyncInv
<1>7. QED
  BY <1>1, <1>2, <1>3, <1>4, <1>5, <1>6, MovedIsGood

\* An interrupt changes no number and no file.
LEMMA InterruptIsGood ==
    ASSUME Inv, NEW n \in Node, Interrupt(n)
    PROVE  Good(n)
<1>1. /\ ok' \in [Node -> BOOLEAN] /\ ok'[n] = FALSE /\ \A m \in Node : m # n => ok'[m] = ok[m]
  BY ShuttingDown DEF Interrupt, Inv
<1>2. UNCHANGED <<setup, files, at, number, clouds, written>> /\ Active(n) /\ at[n] # "off"
  BY DEF Interrupt, Active
<1>3. at \in [Node -> Point] /\ number \in [Node -> Index \cup {0}]
  BY DEF Inv, TypeInv
<1>4. ~ setup.concurrent => NumberFree(n)'
  <2>1. ~ setup.concurrent => NumberFree(n)
    BY DEF Inv, AloneInv
  <2>2. QED
    BY <1>2, <2>1 DEF NumberFree, Free, files
<1>5. at[n] \in {"scan", "image"} /\ n \in SyncNodes => first[n] # 0 /\ written[n] = 0
  BY DEF Inv, SyncInv
<1>6. QED
  BY <1>1, <1>2, <1>3, <1>4, <1>5, MovedIsGood

\* The steps on which a node goes to where it does not use a number.
LEMMA GoingIsGood ==
    ASSUME Inv, NEW n \in Node, NEW point \in Point \ {"off", "save", "image"}, Goes(n, point),
           UNCHANGED <<setup, files, ok, number, clouds, written>>, Active(n),
           n \in SyncNodes => point \notin {"spin", "scan"}
    PROVE  Good(n)
<1>1. /\ at' \in [Node -> Point] /\ at'[n] = point /\ \A m \in Node : m # n => at'[m] = at[m]
  BY Going DEF Inv
<1>2. ok \in [Node -> BOOLEAN] /\ number \in [Node -> Index \cup {0}]
  BY DEF Inv, TypeInv
<1>3. NumberFree(n)'
  BY <1>1 DEF NumberFree
<1>4. QED
  BY <1>1, <1>2, <1>3, MovedIsGood

\* Returning from spin, ending, and the callback that goes on to save an image write nothing.
LEMMA LeavingIsGood ==
    ASSUME Inv, NEW n \in Node, SpinReturns(n) \/ Leave(n) \/ (n \in PngNodes /\ ImageCallback(n))
    PROVE  Good(n)
<1>1. /\ Active(n) /\ UNCHANGED <<setup, files, ok, number, clouds, written>>
      /\ Goes(n, "exit") \/ Goes(n, "done") \/ (n \in PngNodes /\ Goes(n, "scan"))
  BY DEF SpinReturns, Leave, ImageCallback, Spinning, Active
<1>2. /\ "exit" \in Point \ {"off", "save", "image"} /\ "done" \in Point \ {"off", "save", "image"}
      /\ "scan" \in Point \ {"off", "save", "image"}
  BY DEF Point
<1>3. n \in PngNodes => n \notin SyncNodes
  BY Kinds
<1>4. QED
  BY <1>1, <1>2, <1>3, GoingIsGood

\* A number that is chosen for a file is not the number of one that is there.
LEMMA FileNameIsGood ==
    ASSUME Inv, NEW n \in Node,
           \/ n \in PcdNodes /\ PcdFileName(n)
           \/ n \in PngNodes /\ PngFileName(n)
           \/ n \in SyncNodes /\ SyncFileName(n)
    PROVE  Good(n)
<1>1. /\ at[n] = "scan" /\ UNCHANGED <<setup, files, clouds, written>> /\ Active(n)
  BY DEF PcdFileName, PngFileName, SyncFileName, BuildFileName, Active
<1>2. /\ at \in [Node -> Point] /\ ok \in [Node -> BOOLEAN] /\ number \in [Node -> Index \cup {0}]
  BY DEF Inv, TypeInv
<1>3. n \in SyncNodes => first[n] # 0 /\ written[n] = 0
  BY <1>1 DEF Inv, SyncInv
<1>4. ASSUME Goes(n, "spin"), UNCHANGED number, UNCHANGED ok \/ Shutdown(n) PROVE Good(n)
  <2>1. /\ at' \in [Node -> Point] /\ at'[n] = "spin" /\ \A m \in Node : m # n => at'[m] = at[m]
    BY <1>4, Going DEF Inv, Point
  <2>2. /\ ok' \in [Node -> BOOLEAN] /\ (ok'[n] => ok[n]) /\ \A m \in Node : m # n => ok'[m] = ok[m]
    BY <1>2, <1>4, ShuttingDown DEF Inv
  <2>3. NumberFree(n)'
    BY <2>1 DEF NumberFree
  <2>4. number' \in [Node -> Index \cup {0}] /\ \A m \in Node : number'[m] = number[m]
    BY <1>2, <1>4
  <2>5. QED
    BY <1>1, <1>3, <2>1, <2>2, <2>3, <2>4, MovedIsGood
<1>5. ASSUME NEW used \in SUBSET Index, Largest(used) < MaxIndex,
             number' = [number EXCEPT ![n] = Largest(used) + 1],
             NEW point \in {"save", "image"}, Goes(n, point), UNCHANGED ok,
             n \in PcdNodes => point = "save" /\ used = Numbers(pcd),
             n \in PngNodes => used = Numbers(png),
             n \in SyncNodes => used = Numbers(pcd) \cup Numbers(png)
      PROVE  Good(n)
  <2>1. Largest(used) + 1 \in Index /\ Largest(used) + 1 \notin used
    BY <1>5, NextIsFree
  <2>2. /\ number' \in [Node -> Index \cup {0}] /\ number'[n] \in Index /\ number'[n] \notin used
        /\ \A m \in Node : m # n => number'[m] = number[m]
    BY <1>2, <1>5, <2>1
  <2>3. /\ at' \in [Node -> Point] /\ at'[n] = point /\ \A m \in Node : m # n => at'[m] = at[m]
    BY <1>5, Going DEF Inv, Point
  <2>4. UNCHANGED <<pcd, png>>
    BY <1>1 DEF files
  <2>5. NumberFree(n)'
    BY <1>5, <2>2, <2>3, <2>4, Kinds DEF NumberFree, Free, Numbers
  <2>6. QED
    BY <1>1, <1>2, <1>3, <1>5, <2>2, <2>3, <2>5, MovedIsGood
<1>6. Numbers(pcd) \subseteq Index /\ Numbers(png) \subseteq Index
  BY DEF Numbers
<1>7. CASE n \in PcdNodes /\ PcdFileName(n)
  BY <1>4, <1>5, <1>6, <1>7, Kinds DEF PcdFileName, BuildFileName
<1>8. CASE n \in PngNodes /\ PngFileName(n)
  BY <1>4, <1>5, <1>6, <1>8, Kinds DEF PngFileName, BuildFileName
<1>9. CASE n \in SyncNodes /\ SyncFileName(n)
  BY <1>4, <1>5, <1>6, <1>9, Kinds DEF SyncFileName, BuildFileName
<1>10. QED
  BY <1>7, <1>8, <1>9

-----------------------------------------------------------------------------
\* What a PcdRecorderNode does with its clouds.
LEMMA CloudIsGood ==
    ASSUME Inv, NEW n \in PcdNodes, PointCloudCallback(n)
    PROVE  Good(n)
<1> DEFINE c == seen[n] + 1
<1>1. n \in Node /\ n \in CloudNodes /\ n \notin SyncNodes
  BY Kinds
<1>2. /\ seen \in [CloudNodes -> 0..MaxClouds] /\ buffer \in [CloudNodes -> Seq(Cloud)]
      /\ seen[n] < MaxClouds /\ seen' = [seen EXCEPT ![n] = c]
      /\ buffer' = [buffer EXCEPT ![n] = Append(buffer[n], c)]
      /\ UNCHANGED <<setup, pcd, png, at, ok, number, saving, first, written>>
      /\ Active(n)
  BY DEF Inv, TypeInv, PointCloudCallback, Spinning, Active, files
<1>3. c \in Cloud /\ c \in 0..MaxClouds /\ seen[n] \in Nat
  BY <1>1, <1>2, BoundsAssumption DEF Cloud
<1>4. buffer[n] \in Seq(Cloud)
  BY <1>1, <1>2
<1>5. /\ Append(buffer[n], c) \in Seq(Cloud)
      /\ \A k : Contains(Append(buffer[n], c), k) <=> Contains(buffer[n], k) \/ k = c
  BY <1>3, <1>4, Appended
<1>6. /\ seen' \in [CloudNodes -> 0..MaxClouds] /\ seen'[n] = seen[n] + 1
      /\ buffer' \in [CloudNodes -> Seq(Cloud)] /\ buffer'[n] = Append(buffer[n], c)
      /\ \A m \in CloudNodes : m # n => seen'[m] = seen[m] /\ buffer'[m] = buffer[m]
  BY <1>1, <1>2, <1>3, <1>5
<1> HIDE DEF c
<1>7. TypeInv'
  BY <1>2, <1>6 DEF Inv, TypeInv
<1>8. Own(n)
  BY <1>2, <1>6 DEF Own
<1>9. PcdInv(n)'
  <2>1. PcdInv(n) /\ \A k \in Cloud, i \in Index : Saved(n, k, i)' <=> Saved(n, k, i)
    BY <1>2 DEF Inv, Saved
  <2>2. \A k \in Cloud : k <= seen[n] => k # c /\ k <= seen'[n]
    BY <1>3, <1>6 DEF c, Cloud
  <2>3. c <= seen'[n]
    BY <1>3, <1>6 DEF c
  <2>4. \A k \in Cloud : Contains(buffer'[n], k) <=> Contains(buffer[n], k) \/ k = c
    BY <1>5, <1>6
  <2>5. UNCHANGED saving
    BY <1>2
  <2>6. QED
    BY <2>1, <2>2, <2>3, <2>4, <2>5 DEF PcdInv
<1>10. ~ setup.concurrent => FilesKept /\ NumberFree(n)'
  BY <1>1, <1>2 DEF Inv, AloneInv, FilesKept, NumberFree, Free
<1>11. QED
  BY <1>1, <1>2, <1>7, <1>8, <1>9, <1>10 DEF Good

\* Swapping the buffer for an empty one moves its clouds to those being saved.
LEMMA SwapIsGood ==
    ASSUME Inv, NEW n \in PcdNodes, SwapBuffer(n), Active(n)
    PROVE  Good(n)
<1>1. n \in Node /\ n \in CloudNodes /\ n \notin SyncNodes
  BY Kinds
<1>2. /\ buffer \in [CloudNodes -> Seq(Cloud)] /\ saving \in [CloudNodes -> Seq(Cloud)]
      /\ saving' = [saving EXCEPT ![n] = buffer[n]] /\ buffer' = [buffer EXCEPT ![n] = <<>>]
      /\ UNCHANGED <<setup, pcd, png, ok, number, seen, first, written>>
  BY DEF Inv, TypeInv, SwapBuffer, files
<1>3. /\ at' \in [Node -> Point] /\ at'[n] = "scan" /\ \A m \in Node : m # n => at'[m] = at[m]
  BY <1>1, Going DEF SwapBuffer, Inv, Point
<1>4. /\ buffer' \in [CloudNodes -> Seq(Cloud)] /\ buffer'[n] = <<>>
      /\ saving' \in [CloudNodes -> Seq(Cloud)] /\ saving'[n] = buffer[n]
      /\ \A m \in CloudNodes : m # n => buffer'[m] = buffer[m] /\ saving'[m] = saving[m]
  BY <1>1, <1>2, NothingContained
<1>5. TypeInv'
  BY <1>2, <1>3, <1>4 DEF Inv, TypeInv
<1>6. Own(n)
  BY <1>2, <1>3, <1>4 DEF Own
<1>7. PcdInv(n)'
  <2>1. PcdInv(n) /\ \A k \in Cloud, i \in Index : Saved(n, k, i)' <=> Saved(n, k, i)
    BY <1>2 DEF Inv, Saved
  <2>2. \A k \in Cloud : ~ Contains(buffer'[n], k)
    BY <1>4, NothingContained
  <2>3. saving'[n] = buffer[n] /\ seen'[n] = seen[n]
    BY <1>2, <1>4
  <2>4. QED
    BY <2>1, <2>2, <2>3 DEF PcdInv
<1>8. FilesKept /\ NumberFree(n)'
  BY <1>1, <1>2, <1>3 DEF FilesKept, NumberFree
<1>9. QED
  BY <1>1, <1>5, <1>6, <1>7, <1>8 DEF Good

\* A cloud file is written under the free number that was chosen, with the clouds being saved.
LEMMA SavePcdIsGood ==
    ASSUME Inv, NEW n \in PcdNodes, SavePcd(n)
    PROVE  Good(n)
<1> DEFINE file == [by |-> n, clouds |-> saving[n]]
<1>1. n \in Node /\ n \in CloudNodes /\ n \notin SyncNodes
  BY Kinds
<1>2. /\ pcd \in [Index -> File \cup {NoFile}] /\ saving \in [CloudNodes -> Seq(Cloud)]
      /\ written \in [Node -> Nat] /\ ok \in [Node -> BOOLEAN]
  BY DEF Inv, TypeInv
<1>3. /\ at[n] = "save" /\ Active(n) /\ saving' = [saving EXCEPT ![n] = <<>>]
      /\ UNCHANGED <<setup, png, number, seen, buffer, first>>
      /\ \/ /\ pcd' = [pcd EXCEPT ![number[n]] = file]
            /\ written' = [written EXCEPT ![n] = @ + 1]
         \/ UNCHANGED <<pcd, written>>
      /\ Shutdown(n) \/ UNCHANGED ok
  BY DEF SavePcd, Active
<1>4. /\ at' \in [Node -> Point] /\ at'[n] = "spin" /\ \A m \in Node : m # n => at'[m] = at[m]
  BY <1>1, Going DEF SavePcd, Inv, Point
<1>5. /\ ok' \in [Node -> BOOLEAN] /\ \A m \in Node : m # n => ok'[m] = ok[m]
  BY <1>1, <1>2, <1>3, ShuttingDown DEF Inv
<1>6. /\ saving' \in [CloudNodes -> Seq(Cloud)] /\ saving'[n] = <<>>
      /\ \A m \in CloudNodes : m # n => saving'[m] = saving[m]
  BY <1>1, <1>2, <1>3, NothingContained
<1>7. written' \in [Node -> Nat] /\ \A m \in Node : m # n => written'[m] = written[m]
  <2>1. written' = [written EXCEPT ![n] = written[n] + 1] \/ written' = written
    BY <1>3
  <2>2. written[n] + 1 \in Nat
    BY <1>1, <1>2
  <2>3. QED
    BY <1>2, <2>1, <2>2
<1>8. file \in File /\ file # NoFile /\ file.by = n /\ file.clouds = saving[n]
  BY <1>1, <1>2, Kinds DEF File
<1> HIDE DEF file
<1>9. /\ pcd' \in [Index -> File \cup {NoFile}]
      /\ \A i \in Index : pcd'[i] = pcd[i] \/ (i = number[n] /\ pcd'[i] = file)
  <2>1. pcd' = [pcd EXCEPT ![number[n]] = file] \/ pcd' = pcd
    BY <1>3
  <2>2. QED
    BY <1>2, <1>8, <2>1
<1>10. TypeInv'
  BY <1>3, <1>4, <1>5, <1>6, <1>7, <1>9 DEF Inv, TypeInv
<1>11. Own(n)
  BY <1>3, <1>4, <1>5, <1>6, <1>7, <1>8, <1>9 DEF Own
<1>12. PcdInv(n)'
  <2>1. PcdInv(n) /\ seen'[n] = seen[n] /\ buffer'[n] = buffer[n]
    BY <1>3 DEF Inv
  <2>2. \A k \in Cloud : ~ Contains(saving'[n], k)
    BY <1>6, NothingContained
  <2>3. \A k \in Cloud, i \in Index :
           Saved(n, k, i)' => Saved(n, k, i) \/ (i = number[n] /\ Contains(saving[n], k))
    BY <1>8, <1>9 DEF Saved
  <2>4. QED
    BY <2>1, <2>2, <2>3 DEF PcdInv
<1>13. ~ setup.concurrent => FilesKept
  <2>1. ~ setup.concurrent => pcd[number[n]] = NoFile
    BY <1>1, <1>3 DEF Inv, AloneInv, NumberFree, Free
  <2>2. QED
    BY <1>3, <1>9, <2>1 DEF FilesKept
<1>14. NumberFree(n)'
  BY <1>4 DEF NumberFree
<1>15. QED
  BY <1>1, <1>3, <1>10, <1>11, <1>12, <1>13, <1>14 DEF Good

\* An image file is written under the free number that was chosen.
LEMMA SavePngIsGood ==
    ASSUME Inv, NEW n \in PngNodes, SavePng(n)
    PROVE  Good(n)
<1>1. n \in Node /\ n \notin CloudNodes /\ n \notin PcdNodes /\ n \notin SyncNodes
  BY Kinds
<1>2. /\ png \in [Index -> PngNodes \cup SyncNodes \cup {NoFile}]
      /\ written \in [Node -> Nat] /\ ok \in [Node -> BOOLEAN]
  BY DEF Inv, TypeInv
<1>3. /\ at[n] = "image" /\ Active(n) /\ UNCHANGED <<setup, pcd, number, clouds>>
      /\ \/ /\ png' = [png EXCEPT ![number[n]] = n] /\ Shutdown(n)
            /\ written' = [written EXCEPT ![n] = @ + 1]
         \/ UNCHANGED <<png, written, ok>>
  BY DEF SavePng, Active
<1>4. /\ at' \in [Node -> Point] /\ at'[n] = "spin" /\ \A m \in Node : m # n => at'[m] = at[m]
  BY <1>1, Going DEF SavePng, Inv, Point
<1>5. /\ ok' \in [Node -> BOOLEAN] /\ \A m \in Node : m # n => ok'[m] = ok[m]
  BY <1>1, <1>2, <1>3, ShuttingDown DEF Inv
<1>6. written' \in [Node -> Nat] /\ \A m \in Node : m # n => written'[m] = written[m]
  BY <1>1, <1>2, <1>3
<1>7. /\ png' \in [Index -> PngNodes \cup SyncNodes \cup {NoFile}]
      /\ \A i \in Index : png'[i] = png[i] \/ (i = number[n] /\ png'[i] = n)
  BY <1>2, <1>3
<1>8. TypeInv'
  BY <1>3, <1>4, <1>5, <1>6, <1>7 DEF Inv, TypeInv, clouds
<1>9. Own(n)
  BY <1>3, <1>4, <1>5, <1>6, <1>7 DEF Own, clouds
<1>10. ~ setup.concurrent => FilesKept
  <2>1. ~ setup.concurrent => png[number[n]] = NoFile
    BY <1>1, <1>3 DEF Inv, AloneInv, NumberFree, Free
  <2>2. QED
    BY <1>3, <1>7, <2>1 DEF FilesKept
<1>11. NumberFree(n)'
  BY <1>4 DEF NumberFree
<1>12. QED
  BY <1>1, <1>3, <1>8, <1>9, <1>10, <1>11 DEF Good

-----------------------------------------------------------------------------
\* What a SyncCaptureNode does.
LEMMA SyncIsGood ==
    ASSUME Inv, NEW n \in SyncNodes, NEW k \in Cloud, SyncCallback(n, k)
    PROVE  Good(n)
<1>1. n \in Node /\ n \in CloudNodes /\ n \notin PcdNodes
  BY Kinds
<1>2. /\ at[n] = "spin" /\ first[n] = 0 /\ Active(n)
      /\ first \in [CloudNodes -> 0..MaxClouds] /\ first' = [first EXCEPT ![n] = k]
      /\ UNCHANGED <<setup, pcd, png, ok, number, seen, buffer, saving, written>>
  BY DEF SyncCallback, Spinning, Active, Inv, TypeInv, files
<1>3. /\ at' \in [Node -> Point] /\ at'[n] = "scan" /\ \A m \in Node : m # n => at'[m] = at[m]
  BY <1>1, Going DEF SyncCallback, Inv, Point
<1>4. k \in 0..MaxClouds /\ k # 0
  BY BoundsAssumption DEF Cloud
<1>5. /\ first' \in [CloudNodes -> 0..MaxClouds] /\ first'[n] # 0
      /\ \A m \in CloudNodes : m # n => first'[m] = first[m]
  BY <1>1, <1>2, <1>4
<1>6. TypeInv'
  BY <1>2, <1>3, <1>5 DEF Inv, TypeInv
<1>7. Own(n)
  BY <1>2, <1>3, <1>5 DEF Own
<1>8. written[n] = 0
  BY <1>1, <1>2 DEF Inv, SyncInv, TypeInv
<1>9. SyncInv(n)'
  <2>1. SyncInv(n)
    BY DEF Inv
  <2>2. QED
    BY <1>2, <1>3, <1>5, <1>8, <2>1 DEF SyncInv
<1>10. FilesKept /\ NumberFree(n)' /\ PairInv(n)'
  BY <1>1, <1>2, <1>3, <1>8 DEF FilesKept, NumberFree, PairInv
<1>11. QED
  BY <1>1, <1>2, <1>6, <1>7, <1>9, <1>10 DEF Good

\* The synchronized recorder writes its image and takes the number for its points.
LEMMA SaveImageIsGood ==
    ASSUME Inv, NEW n \in SyncNodes, SaveImage(n)
    PROVE  Good(n)
<1>1. n \in Node /\ n \in CloudNodes /\ n \notin PcdNodes
  BY Kinds
<1>2. /\ png \in [Index -> PngNodes \cup SyncNodes \cup {NoFile}]
      /\ written \in [Node -> Nat] /\ ok \in [Node -> BOOLEAN]
      /\ buffer \in [CloudNodes -> Seq(Cloud)] /\ first \in [CloudNodes -> 0..MaxClouds]
  BY DEF Inv, TypeInv
<1>3. /\ at[n] = "image" /\ Active(n) /\ UNCHANGED <<setup, pcd, number, seen, saving, first>>
      /\ \/ /\ png' = [png EXCEPT ![number[n]] = n] /\ UNCHANGED ok
            /\ written' = [written EXCEPT ![n] = written[n] + 1]
            /\ \E kept \in {<<>>, <<first[n]>>} : buffer' = [buffer EXCEPT ![n] = kept]
         \/ Shutdown(n) /\ UNCHANGED <<png, written, buffer>>
  BY DEF SaveImage, Active
<1>4. /\ at' \in [Node -> Point] /\ at'[n] = "spin" /\ \A m \in Node : m # n => at'[m] = at[m]
  BY <1>1, Going DEF SaveImage, Inv, Point
<1>5. written[n] = 0 /\ first[n] # 0 /\ first[n] \in Cloud /\ SyncInv(n)
  <2>1. written[n] = 0 /\ first[n] # 0 /\ SyncInv(n)
    BY <1>3 DEF Inv, SyncInv
  <2>2. first[n] \in 0..MaxClouds
    BY <1>1, <1>2
  <2>3. QED
    BY <2>1, <2>2, BoundsAssumption DEF Cloud
<1>6. /\ ok' \in [Node -> BOOLEAN] /\ (ok'[n] => ok[n]) /\ \A m \in Node : m # n => ok'[m] = ok[m]
  BY <1>1, <1>2, <1>3, ShuttingDown DEF Inv
<1>7. /\ written' \in [Node -> Nat] /\ written'[n] \in {0, 1}
      /\ \A m \in Node : m # n => written'[m] = written[m]
  <2>1. written' = [written EXCEPT ![n] = written[n] + 1] \/ written' = written
    BY <1>3
  <2>2. QED
    BY <1>1, <1>2, <1>5, <2>1
<1>8. /\ png' \in [Index -> PngNodes \cup SyncNodes \cup {NoFile}]
      /\ \A i \in Index : png'[i] = png[i] \/ (i = number[n] /\ png'[i] = n)
  <2>1. png' = [png EXCEPT ![number[n]] = n] \/ png' = png
    BY <1>3
  <2>2. QED
    BY <1>2, <2>1
<1>9. /\ buffer' \in [CloudNodes -> Seq(Cloud)]
      /\ \A m \in CloudNodes : m # n => buffer'[m] = buffer[m]
  <2>1. <<first[n]>> \in Seq(Cloud) /\ <<>> \in Seq(Cloud)
    BY <1>5, NothingContained
  <2>2. buffer' = buffer \/ \E kept \in Seq(Cloud) : buffer' = [buffer EXCEPT ![n] = kept]
    BY <1>3, <2>1
  <2>3. QED
    BY <1>1, <1>2, <2>2
<1>10. TypeInv'
  BY <1>3, <1>4, <1>6, <1>7, <1>8, <1>9 DEF Inv, TypeInv
<1>11. Own(n)
  BY <1>3, <1>4, <1>6, <1>7, <1>8, <1>9 DEF Own
<1>12. SyncInv(n)'
  BY <1>3, <1>4, <1>5, <1>6, <1>7 DEF SyncInv
<1>13. ASSUME ~ setup.concurrent PROVE FilesKept /\ NumberFree(n)' /\ PairInv(n)'
  <2>1. Free(png, number[n]) /\ Free(pcd, number[n])
    BY <1>1, <1>3, <1>13 DEF Inv, AloneInv, NumberFree
  <2>2. FilesKept
    BY <1>3, <1>8, <2>1 DEF FilesKept, Free
  <2>3. NumberFree(n)'
    BY <1>4 DEF NumberFree
  <2>4. written'[n] = 1 => png'[number[n]] = n
    BY <1>2, <1>3, <1>5, <2>1 DEF Free
  <2>5. PairInv(n)'
    BY <1>3, <1>7, <2>1, <2>4 DEF PairInv, Free
  <2>6. QED
    BY <2>2, <2>3, <2>5
<1>14. QED
  BY <1>1, <1>3, <1>10, <1>11, <1>12, <1>13 DEF Good

\* The lidar callback of the synchronized recorder adds a cloud that was not stored before.
LEMMA LidarCaptureIsGood ==
    ASSUME Inv, NEW n \in SyncNodes, LidarCaptureCallback(n)
    PROVE  Good(n)
<1> DEFINE c == seen[n] + 1
<1>1. n \in Node /\ n \in CloudNodes /\ n \notin PcdNodes
  BY Kinds
<1>2. /\ seen \in [CloudNodes -> 0..MaxClouds] /\ buffer \in [CloudNodes -> Seq(Cloud)]
      /\ c <= MaxClouds /\ seen' = [seen EXCEPT ![n] = c] /\ at[n] = "spin" /\ Active(n)
      /\ buffer' = [buffer EXCEPT ![n] = Append(buffer[n], c)] \/ buffer' = buffer
      /\ UNCHANGED <<setup, pcd, png, at, ok, number, saving, first, written>>
  BY DEF Inv, TypeInv, LidarCaptureCallback, Spinning, Active, files
<1>3. c \in Cloud /\ c \in 0..MaxClouds
  BY <1>1, <1>2, BoundsAssumption DEF Cloud
<1>4. buffer[n] \in Seq(Cloud) /\ Append(buffer[n], c) \in Seq(Cloud)
  BY <1>1, <1>2, <1>3, Appended
<1> HIDE DEF c
<1>5. /\ seen' \in [CloudNodes -> 0..MaxClouds] /\ \A m \in CloudNodes : m # n => seen'[m] = seen[m]
      /\ buffer' \in [CloudNodes -> Seq(Cloud)]
      /\ \A m \in CloudNodes : m # n => buffer'[m] = buffer[m]
  BY <1>2, <1>3, <1>4
<1>6. TypeInv'
  BY <1>2, <1>5 DEF Inv, TypeInv
<1>7. Own(n)
  BY <1>2, <1>5 DEF Own
<1>8. SyncInv(n)'
  BY <1>2 DEF Inv, SyncInv
<1>9. ~ setup.concurrent => FilesKept /\ NumberFree(n)' /\ PairInv(n)'
  BY <1>1, <1>2 DEF Inv, AloneInv, FilesKept, NumberFree, PairInv, Free
<1>10. QED
  BY <1>1, <1>2, <1>6, <1>7, <1>8, <1>9 DEF Good

\* The synchronized recorder writes its points under the number of its image, once.
LEMMA SaveCloudsIsGood ==
    ASSUME Inv, NEW n \in SyncNodes, SaveAccumulatedPointCloud(n)
    PROVE  Good(n)
<1> DEFINE file == [by |-> n, clouds |-> buffer[n]]
<1>1. n \in Node /\ n \in CloudNodes /\ n \notin PcdNodes
  BY Kinds
<1>2. /\ pcd \in [Index -> File \cup {NoFile}] /\ buffer \in [CloudNodes -> Seq(Cloud)]
      /\ written \in [Node -> Nat]
  BY DEF Inv, TypeInv
<1>3. /\ at[n] = "spin" /\ ok[n] /\ written[n] > 0 /\ Active(n) /\ Shutdown(n)
      /\ UNCHANGED <<setup, png, at, number, seen, buffer, saving, first>>
      /\ \/ /\ pcd' = [pcd EXCEPT ![number[n]] = file]
            /\ written' = [written EXCEPT ![n] = @ + 1]
         \/ UNCHANGED <<pcd, written>>
  BY DEF SaveAccumulatedPointCloud, Spinning, Capturing, Active, clouds
<1>4. SyncInv(n) /\ written[n] = 1 /\ \A i \in Index : ~ (pcd[i] # NoFile /\ pcd[i].by = n)
  <2>1. SyncInv(n)
    BY DEF Inv
  <2>2. QED
    BY <1>1, <1>2, <1>3, <2>1 DEF SyncInv
<1>5. /\ ok' \in [Node -> BOOLEAN] /\ ok'[n] = FALSE /\ \A m \in Node : m # n => ok'[m] = ok[m]
  BY <1>1, <1>3, ShuttingDown DEF Inv
<1>6. file \in File /\ file # NoFile /\ file.by = n
  BY <1>1, <1>2, Kinds DEF File
<1> HIDE DEF file
<1>7. \/ /\ written' = [written EXCEPT ![n] = 2] /\ pcd' = [pcd EXCEPT ![number[n]] = file]
      \/ written' = written /\ pcd' = pcd
  BY <1>3, <1>4
<1>8. /\ written' \in [Node -> Nat] /\ written'[n] \in {1, 2}
      /\ \A m \in Node : m # n => written'[m] = written[m]
  <2>1. written' = [written EXCEPT ![n] = 2] \/ written' = written
    BY <1>7
  <2>2. QED
    BY <1>1, <1>2, <1>4, <2>1
<1>9. /\ pcd' \in [Index -> File \cup {NoFile}]
      /\ \A i \in Index : pcd'[i] = pcd[i] \/ (i = number[n] /\ pcd'[i] = file)
  BY <1>2, <1>6, <1>7
<1>10. written'[n] = 2 /\ number[n] \in Index => pcd'[number[n]] = file
  BY <1>1, <1>2, <1>4, <1>7
<1>11. TypeInv'
  BY <1>3, <1>5, <1>8, <1>9 DEF Inv, TypeInv
<1>12. Own(n)
  BY <1>3, <1>5, <1>6, <1>8, <1>9 DEF Own
<1>13. SyncInv(n)'
  <2>1. \A i, j \in Index : /\ pcd'[i] # NoFile /\ pcd'[i].by = n
                            /\ pcd'[j] # NoFile /\ pcd'[j].by = n
                            => i = j
    BY <1>4, <1>9
  <2>2. QED
    BY <1>3, <1>4, <1>5, <1>8, <2>1 DEF SyncInv
<1>14. ASSUME ~ setup.concurrent PROVE FilesKept /\ NumberFree(n)' /\ PairInv(n)'
  <2>1. Free(pcd, number[n]) /\ png[number[n]] = n
    BY <1>3, <1>4, <1>14 DEF Inv, AloneInv, PairInv
  <2>2. FilesKept
    BY <1>3, <1>9, <2>1 DEF FilesKept, Free
  <2>3. NumberFree(n)'
    BY <1>3 DEF NumberFree
  <2>4. PairInv(n)'
    BY <1>3, <1>5, <1>6, <1>8, <1>10, <2>1 DEF PairInv, Free
  <2>5. QED
    BY <2>2, <2>3, <2>4
<1>15. QED
  BY <1>1, <1>3, <1>11, <1>12, <1>13, <1>14 DEF Good

-----------------------------------------------------------------------------
\* The invariant of the recorders.

\* The invariant holds before any recorder has started.
LEMMA InitInv ==
    ASSUME Init
    PROVE  Inv
<1>1. TypeInv
  <2>1. setup \in Setting
    BY SettingsAssumption DEF Init
  <2>2. at \in [Node -> Point] /\ 0 \in 0..MaxClouds
    BY BoundsAssumption DEF Init, Point
  <2>3. <<>> \in Seq(Cloud)
    OBVIOUS
  <2>4. QED
    BY <2>1, <2>2, <2>3 DEF Init, TypeInv
<1>2. ASSUME NEW n \in PcdNodes PROVE PcdInv(n)
  <2>1. n \in CloudNodes
    BY Kinds
  <2>2. QED
    BY <2>1, NothingContained DEF Init, PcdInv, Saved
<1>3. ASSUME NEW n \in SyncNodes PROVE SyncInv(n)
  <2>1. n \in CloudNodes /\ n \in Node
    BY Kinds
  <2>2. QED
    BY <2>1 DEF Init, SyncInv
<1>4. AloneInv
  <2>1. \A n \in Node : at[n] = "off" /\ written[n] = 0
    BY DEF Init
  <2>2. SyncNodes \subseteq Node
    BY Kinds
  <2>3. QED
    BY <2>1, <2>2 DEF AloneInv, Active, NumberFree, PairInv
<1>5. QED
  BY <1>1, <1>2, <1>3, <1>4 DEF Inv

\* Every step is a good one of some node.
LEMMA StepIsGood ==
    ASSUME Inv, Next
    PROVE  \E n \in Node : Good(n)
<1>1. ASSUME NEW n \in Node, Start(n) \/ Interrupt(n) PROVE Good(n)
  BY <1>1, StartIsGood, InterruptIsGood
<1>2. ASSUME NEW n \in PcdNodes, PcdRecorder(n) PROVE Good(n) /\ n \in Node
  <2>1. n \in Node
    BY Kinds
  <2>2. CASE PointCloudCallback(n) \/ SavePcd(n) \/ PcdFileName(n) \/ SpinReturns(n)
    BY <2>1, <2>2, CloudIsGood, SavePcdIsGood, FileNameIsGood, LeavingIsGood
  <2>3. CASE FlushTimer(n)
    BY <2>1, <2>3, SwapIsGood DEF FlushTimer, Spinning, Active
  <2>4. CASE Destructor(n)
    <3>1. Active(n)
      BY <2>4 DEF Destructor, Active
    <3>2. CASE SwapBuffer(n)
      BY <2>1, <3>1, <3>2, SwapIsGood
    <3>3. CASE Goes(n, "done") /\ UNCHANGED <<setup, files, ok, number, clouds, written>>
      BY <2>4, <3>3, LeavingIsGood, <2>1 DEF Destructor, Leave
    <3>4. QED
      BY <2>4, <3>2, <3>3 DEF Destructor
  <2>5. QED
    BY <1>2, <2>1, <2>2, <2>3, <2>4 DEF PcdRecorder
<1>3. ASSUME NEW n \in PngNodes, PngRecorder(n) PROVE Good(n) /\ n \in Node
  <2>1. n \in Node
    BY Kinds
  <2>2. QED
    BY <1>3, <2>1, SavePngIsGood, FileNameIsGood, LeavingIsGood DEF PngRecorder
<1>4. ASSUME NEW n \in SyncNodes, SyncCapture(n) PROVE Good(n) /\ n \in Node
  <2>1. n \in Node
    BY Kinds
  <2>2. QED
    BY <1>4, <2>1, SyncIsGood, SaveImageIsGood, LidarCaptureIsGood, SaveCloudsIsGood,
       FileNameIsGood, LeavingIsGood DEF SyncCapture
<1>5. QED
  BY <1>1, <1>2, <1>3, <1>4 DEF Next

\* The invariant depends on the variables only: a step that changes none keeps it.
LEMMA NothingDone ==
    ASSUME Inv, UNCHANGED vars
    PROVE  Inv'
<1>1. UNCHANGED <<setup, pcd, png, at, ok, number, seen, buffer, saving, first, written>>
  BY DEF vars, files, clouds
<1>2. TypeInv'
  BY <1>1 DEF Inv, TypeInv
<1>3. (\A n \in PcdNodes : PcdInv(n)')
  BY <1>1 DEF Inv, PcdInv, Saved
<1>4. (\A n \in SyncNodes : SyncInv(n)')
  BY <1>1 DEF Inv, SyncInv
<1>5. AloneInv'
  BY <1>1 DEF Inv, AloneInv, Active, NumberFree, PairInv, Free
<1>6. QED
  BY <1>2, <1>3, <1>4, <1>5 DEF Inv

\* What each node knows of its clouds and of the number it has chosen is right, and every
\* variable keeps its type.
THEOREM RecordersInvariant == Spec => []Inv
<1>1. Init => Inv
  BY InitInv
<1>2. Inv /\ [Next]_vars => Inv'
  BY StepIsGood, GoodKeeps, NothingDone
<1>3. QED
  BY <1>1, <1>2, PTL DEF Spec

\* Recorders that run one after the other never replace a file, whatever they find in the
\* two directories, whatever fails and whenever they are interrupted.
THEOREM NoFileReplacedAlone == Spec => NothingOverwrittenAlone
<1>1. ASSUME Inv, [Next]_vars, ~ setup.concurrent PROVE FilesKept \/ UNCHANGED files
  <2>1. CASE Next
    BY <1>1, <2>1, StepIsGood DEF Good
  <2>2. CASE UNCHANGED vars
    BY <2>2 DEF vars
  <2>3. QED
    BY <1>1, <2>1, <2>2
<1>2. Inv /\ [Next]_vars => [~ setup.concurrent => FilesKept]_files
  BY <1>1
<1>3. QED
  BY <1>2, RecordersInvariant, PTL DEF Spec, NothingOverwrittenAlone

\* The image and the points of a synchronized capture stay under one number, when recorders
\* run one after the other.
THEOREM CapturesStayPairs == Spec => []PairsStayTogether
<1>1. Inv => PairsStayTogether
  BY DEF Inv, AloneInv, PairInv, PairsStayTogether
<1>2. QED
  BY <1>1, RecordersInvariant, PTL

-----------------------------------------------------------------------------
\* No cloud is twice in a buffer, among those being saved or in a file; a synchronized
\* capture holds clouds its callback has had, and the synchronized one.
OnceInv ==
    /\ \A n \in CloudNodes : IsInjective(buffer[n]) /\ IsInjective(saving[n])
    /\ \A i \in Index : pcd[i] # NoFile => IsInjective(pcd[i].clouds)
    /\ \A n \in SyncNodes, k \in Cloud :
          Contains(buffer[n], k) => first[n] # 0 /\ (k <= seen[n] \/ k = first[n])

\* A new cloud is added to others.
LEMMA AppendedOnce ==
    ASSUME NEW s \in Seq(Cloud), NEW c \in Cloud, IsInjective(s), ~ Contains(s, c)
    PROVE  IsInjective(Append(s, c))
<1>1. /\ Append(s, c) \in Seq(Cloud) /\ Len(Append(s, c)) = Len(s) + 1 /\ Len(s) \in Nat
      /\ \A i \in 1..Len(s) : Append(s, c)[i] = s[i]
      /\ Append(s, c)[Len(s) + 1] = c
  BY AppendProperties, LenProperties
<1>2. DOMAIN s = 1..Len(s) /\ DOMAIN Append(s, c) = 1..(Len(s) + 1)
  BY <1>1, LenProperties
<1>3. \A i \in 1..Len(s) : s[i] # c
  BY DEF Contains
<1>4. \A i : i \in 1..(Len(s) + 1) <=> i \in 1..Len(s) \/ i = Len(s) + 1
  BY <1>1
<1>5. \A i, j \in 1..Len(s) : s[i] = s[j] => i = j
  BY <1>2 DEF IsInjective
<1>6. QED
  BY <1>1, <1>2, <1>3, <1>4, <1>5 DEF IsInjective

\* No cloud, and one cloud, are not twice the same.
LEMMA FewAreOnce == IsInjective(<<>>) /\ \A k : IsInjective(<<k>>)
  BY DEF IsInjective

\* A recorder adds a cloud to its buffer that was not there.
LEMMA CloudOnce ==
    ASSUME Inv, OnceInv, NEW n \in CloudNodes,
           \/ n \in PcdNodes /\ PointCloudCallback(n)
           \/ n \in SyncNodes /\ LidarCaptureCallback(n)
    PROVE  OnceInv'
<1> DEFINE c == seen[n] + 1
<1>1. /\ seen \in [CloudNodes -> 0..MaxClouds] /\ buffer \in [CloudNodes -> Seq(Cloud)]
      /\ seen' = [seen EXCEPT ![n] = c] /\ UNCHANGED <<pcd, saving, first>>
      /\ \/ buffer' = buffer
         \/ /\ buffer' = [buffer EXCEPT ![n] = Append(buffer[n], c)]
            /\ n \in SyncNodes => c # first[n] /\ Capturing(n)
      /\ c <= MaxClouds
  <2>1. seen \in [CloudNodes -> 0..MaxClouds] /\ buffer \in [CloudNodes -> Seq(Cloud)]
    BY DEF Inv, TypeInv
  <2>2. CASE n \in PcdNodes /\ PointCloudCallback(n)
    <3>1. n \notin SyncNodes
      BY <2>2, Kinds
    <3>2. QED
      BY <2>1, <2>2, <3>1, BoundsAssumption DEF PointCloudCallback, files
  <2>3. CASE n \in SyncNodes /\ LidarCaptureCallback(n)
    <3>1. \/ buffer' = buffer
          \/ Capturing(n) /\ c # first[n] /\ buffer' = [buffer EXCEPT ![n] = Append(buffer[n], c)]
      BY <2>1, <2>3 DEF LidarCaptureCallback
    <3>2. QED
      BY <2>1, <2>3, <3>1 DEF LidarCaptureCallback, files
  <2>4. QED
    BY <2>2, <2>3
<1>2. c \in Cloud /\ seen[n] \in Nat /\ c > seen[n]
  BY <1>1, BoundsAssumption DEF Cloud
<1>3. buffer[n] \in Seq(Cloud) /\ IsInjective(buffer[n])
  BY <1>1 DEF OnceInv
<1>4. n \in SyncNodes /\ Capturing(n) => first[n] # 0
  BY DEF Inv, SyncInv, TypeInv, Capturing
<1>5. \/ buffer'[n] = buffer[n]
      \/ /\ buffer'[n] = Append(buffer[n], c) /\ ~ Contains(buffer[n], c)
         /\ n \in SyncNodes => first[n] # 0
  <2>1. n \in PcdNodes => ~ Contains(buffer[n], c)
    BY <1>2 DEF Inv, PcdInv
  <2>2. n \in SyncNodes /\ c # first[n] => ~ Contains(buffer[n], c)
    BY <1>2 DEF OnceInv
  <2>3. n \in PcdNodes \/ n \in SyncNodes
    BY Kinds
  <2>4. QED
    BY <1>1, <1>4, <2>1, <2>2, <2>3
<1>6. IsInjective(buffer'[n])
  BY <1>2, <1>3, <1>5, AppendedOnce
<1>7. /\ seen'[n] = c /\ \A m \in CloudNodes : m # n => seen'[m] = seen[m]
      /\ \A m \in CloudNodes : m # n => buffer'[m] = buffer[m]
  BY <1>1
<1>8. n \in SyncNodes => \A k \in Cloud :
         Contains(buffer'[n], k) => first[n] # 0 /\ (k <= seen'[n] \/ k = first[n])
  <2>1. \A k \in Cloud : k <= seen[n] \/ k = c => k <= c
    BY <1>2 DEF Cloud
  <2>2. \A k \in Cloud : Contains(buffer'[n], k) =>
           Contains(buffer[n], k) \/ (k = c /\ (n \in SyncNodes => first[n] # 0))
    <3>1. \A k : Contains(Append(buffer[n], c), k) <=> Contains(buffer[n], k) \/ k = c
      BY <1>2, <1>3, Appended
    <3>2. QED
      BY <1>5, <3>1, Zenon
  <2>3. QED
    BY <1>7, <2>1, <2>2 DEF OnceInv
<1> HIDE DEF c
<1>9. \A m \in CloudNodes : IsInjective(buffer'[m]) /\ IsInjective(saving'[m])
  BY <1>1, <1>6, <1>7 DEF OnceInv
<1>10. \A m \in SyncNodes, k \in Cloud :
          Contains(buffer'[m], k) => first'[m] # 0 /\ (k <= seen'[m] \/ k = first'[m])
  BY <1>1, <1>7, <1>8, Kinds DEF OnceInv
<1>11. QED
  BY <1>1, <1>9, <1>10 DEF OnceInv

\* What is saved was in a buffer, and what is kept of a synchronized cloud is one cloud.
LEMMA SavingOnce ==
    ASSUME Inv, OnceInv, NEW n \in CloudNodes,
           \/ n \in PcdNodes /\ (SwapBuffer(n) \/ SavePcd(n))
           \/ n \in SyncNodes /\ (SaveImage(n) \/ SaveAccumulatedPointCloud(n))
    PROVE  OnceInv'
<1>1. /\ buffer \in [CloudNodes -> Seq(Cloud)] /\ saving \in [CloudNodes -> Seq(Cloud)]
      /\ pcd \in [Index -> File \cup {NoFile}] /\ UNCHANGED <<seen, first>>
  BY DEF Inv, TypeInv, SwapBuffer, SavePcd, SaveImage, SaveAccumulatedPointCloud, clouds
<1>2. \A m \in CloudNodes : m # n => buffer'[m] = buffer[m] /\ saving'[m] = saving[m]
  BY <1>1 DEF SwapBuffer, SavePcd, SaveImage, SaveAccumulatedPointCloud, clouds
<1>3. /\ buffer'[n] \in {buffer[n], <<>>} \/ (n \in SyncNodes /\ buffer'[n] = <<first[n]>>)
      /\ saving'[n] \in {saving[n], buffer[n], <<>>}
  BY <1>1 DEF SwapBuffer, SavePcd, SaveImage, SaveAccumulatedPointCloud, clouds
<1>4. \A m \in CloudNodes : IsInjective(buffer'[m]) /\ IsInjective(saving'[m])
  BY <1>2, <1>3, FewAreOnce DEF OnceInv
<1>5. \A i \in Index : pcd'[i] = pcd[i] \/ (pcd'[i] # NoFile => IsInjective(pcd'[i].clouds))
  <2>1. \/ pcd' = pcd
        \/ pcd' = [pcd EXCEPT ![number[n]] = [by |-> n, clouds |-> saving[n]]]
        \/ pcd' = [pcd EXCEPT ![number[n]] = [by |-> n, clouds |-> buffer[n]]]
    BY DEF SwapBuffer, SavePcd, SaveImage, SaveAccumulatedPointCloud, files
  <2>2. IsInjective(buffer[n]) /\ IsInjective(saving[n])
    BY DEF OnceInv
  <2>3. /\ [by |-> n, clouds |-> saving[n]].clouds = saving[n]
        /\ [by |-> n, clouds |-> buffer[n]].clouds = buffer[n]
    OBVIOUS
  <2>4. QED
    BY <1>1, <2>1, <2>2, <2>3
<1>6. \A i \in Index : pcd'[i] # NoFile => IsInjective(pcd'[i].clouds)
  BY <1>5 DEF OnceInv
<1>7. n \in SyncNodes => \A k \in Cloud :
         Contains(buffer'[n], k) => first[n] # 0 /\ (k <= seen[n] \/ k = first[n])
  <2>1. n \in SyncNodes /\ SaveImage(n) => first[n] # 0
    BY DEF SaveImage, Inv, SyncInv
  <2>2. n \in SyncNodes => buffer'[n] = buffer[n] \/ SaveImage(n)
    BY Kinds DEF SwapBuffer, SavePcd, SaveAccumulatedPointCloud, clouds
  <2>3. \A k : Contains(<<first[n]>>, k) => k = first[n]
    BY DEF Contains
  <2>4. QED
    BY <1>3, <2>1, <2>2, <2>3, NothingContained DEF OnceInv
<1>8. QED
  BY <1>1, <1>2, <1>4, <1>6, <1>7, Kinds DEF OnceInv

\* The other steps leave the clouds alone; before a capture has begun there are none.
LEMMA StepKeepsOnce ==
    ASSUME Inv, OnceInv, [Next]_vars
    PROVE  OnceInv'
<1>1. ASSUME UNCHANGED <<pcd, clouds>> PROVE OnceInv'
  BY <1>1 DEF OnceInv, clouds
<1>2. ASSUME NEW n \in Node, Start(n) \/ Interrupt(n) PROVE OnceInv'
  BY <1>1, <1>2 DEF Start, Interrupt, files
<1>3. ASSUME NEW n \in PcdNodes, PcdRecorder(n) PROVE OnceInv'
  <2>1. n \in CloudNodes
    BY Kinds
  <2>2. CASE PointCloudCallback(n)
    BY <2>1, <2>2, CloudOnce
  <2>3. CASE SwapBuffer(n) \/ SavePcd(n)
    BY <2>1, <2>3, SavingOnce
  <2>4. CASE PcdFileName(n) \/ SpinReturns(n)
             \/ UNCHANGED <<setup, files, ok, number, clouds, written>>
    BY <1>1, <2>4 DEF PcdFileName, BuildFileName, SpinReturns, files
  <2>5. QED
    BY <1>3, <2>2, <2>3, <2>4 DEF PcdRecorder, FlushTimer, Destructor
<1>4. ASSUME NEW n \in PngNodes, PngRecorder(n) PROVE OnceInv'
  BY <1>1, <1>4 DEF PngRecorder, ImageCallback, PngFileName, BuildFileName, SavePng, SpinReturns,
                    Leave, files
<1>5. ASSUME NEW n \in SyncNodes, SyncCapture(n) PROVE OnceInv'
  <2>1. n \in CloudNodes
    BY Kinds
  <2>2. ASSUME NEW k \in Cloud, SyncCallback(n, k) PROVE OnceInv'
    <3>1. /\ first[n] = 0 /\ first' = [first EXCEPT ![n] = k]
          /\ UNCHANGED <<pcd, buffer, saving, seen>> /\ first \in [CloudNodes -> 0..MaxClouds]
      BY <2>2 DEF SyncCallback, files, Inv, TypeInv
    <3>2. \A m \in SyncNodes : m # n => first'[m] = first[m]
      BY <3>1, Kinds
    <3>3. \A c \in Cloud : ~ Contains(buffer[n], c)
      BY <3>1 DEF OnceInv
    <3>4. QED
      BY <3>1, <3>2, <3>3 DEF OnceInv
  <2>3. CASE LidarCaptureCallback(n)
    BY <2>1, <2>3, CloudOnce
  <2>4. CASE SaveImage(n) \/ SaveAccumulatedPointCloud(n)
    BY <2>1, <2>4, SavingOnce
  <2>5. CASE SyncFileName(n) \/ SpinReturns(n) \/ Leave(n)
    BY <1>1, <2>5 DEF SyncFileName, BuildFileName, SpinReturns, Leave, files
  <2>6. QED
    BY <1>5, <2>2, <2>3, <2>4, <2>5 DEF SyncCapture
<1>6. CASE UNCHANGED vars
  BY <1>1, <1>6 DEF vars, files
<1>7. QED
  BY <1>2, <1>3, <1>4, <1>5, <1>6 DEF Next

\* A point cloud is saved at most once, in one place of one file, also by recorders that
\* run at the same time and replace each other's files; and a PcdRecorderNode has it
\* neither in its buffer nor among those being saved then.
THEOREM CloudsAreSavedOnce == Spec => []SavedOnce
<1>1. ASSUME Inv, OnceInv, NEW n \in CloudNodes, NEW i \in FilesBy(n),
             NEW a \in DOMAIN pcd[i].clouds
      PROVE  /\ pcd[i].clouds[a] \in Cloud /\ Saved(n, pcd[i].clouds[a], i)
             /\ IsInjective(pcd[i].clouds)
  <2>1. i \in Index /\ pcd[i] # NoFile /\ pcd[i].by = n /\ pcd[i] \in File
    BY <1>1 DEF FilesBy, Inv, TypeInv
  <2>2. pcd[i].clouds \in Seq(Cloud)
    BY <2>1 DEF File
  <2>3. a \in 1..Len(pcd[i].clouds) /\ pcd[i].clouds[a] \in Cloud
    BY <2>2, ElementOfSeq, LenProperties
  <2>4. QED
    BY <1>1, <2>1, <2>3 DEF Saved, Contains, OnceInv
<1>2. ASSUME Inv, OnceInv, NEW n \in CloudNodes, NEW i \in FilesBy(n), NEW j \in FilesBy(n),
             NEW a \in DOMAIN pcd[i].clouds, NEW b \in DOMAIN pcd[j].clouds,
             pcd[i].clouds[a] = pcd[j].clouds[b]
      PROVE  i = j /\ a = b
  <2>1. i \in Index /\ j \in Index
    BY DEF FilesBy
  <2>2. /\ pcd[i].clouds[a] \in Cloud /\ Saved(n, pcd[i].clouds[a], i)
        /\ Saved(n, pcd[i].clouds[a], j) /\ IsInjective(pcd[i].clouds)
    BY <1>1, <1>2
  <2>3. i = j
    BY <1>2, <2>1, <2>2, Kinds DEF Inv, PcdInv, SyncInv, Saved
  <2>4. QED
    BY <1>2, <2>2, <2>3 DEF IsInjective
<1>3. ASSUME Inv, OnceInv, NEW n \in PcdNodes, NEW i \in FilesBy(n),
             NEW a \in DOMAIN pcd[i].clouds
      PROVE  ~ Contains(buffer[n], pcd[i].clouds[a]) /\ ~ Contains(saving[n], pcd[i].clouds[a])
  <2>1. n \in CloudNodes /\ i \in Index
    BY Kinds DEF FilesBy
  <2>2. pcd[i].clouds[a] \in Cloud /\ Saved(n, pcd[i].clouds[a], i)
    BY <1>1, <1>3, <2>1
  <2>3. QED
    BY <1>3, <2>1, <2>2 DEF Inv, PcdInv
<1>4. Inv /\ OnceInv => SavedOnce
  BY <1>2, <1>3 DEF SavedOnce
<1>5. Init => OnceInv
  BY FewAreOnce, NothingContained, Kinds DEF Init, OnceInv
<1>6. Inv /\ OnceInv /\ [Next]_vars => OnceInv'
  BY StepKeepsOnce
<1>7. QED
  BY <1>4, <1>5, <1>6, RecordersInvariant, PTL DEF Spec
=============================================================================
