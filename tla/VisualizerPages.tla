---------------------------- MODULE VisualizerPages ----------------------------
(***************************************************************************)
(* The visualizers of the site, one of which is open: a topic mounts its   *)
(* own and no other.  The reader's gestures are counted where a page has   *)
(* no end of its own; the timers of the animated pages run besides.  Four  *)
(* topics have the simulation service compute what they show.              *)
(***************************************************************************)
EXTENDS Integers, Sequences

CONSTANTS MaxGestures,   \* bound, for the topics in its domain
          MaxPoolSize, CarrierCount, FirstSpawn, LaterSpawn,
          PageFrames, NoFrame, FreeFrames, EdenCapacity, TenuringAge,
          MapKeys, SpreadHash, MapSeeds, DemoKeys,
          InitialCapacity, TreeifyBin, MinTreeCapacity, UntreeifyBin,
          ServerNames, HashToAngle, KeyAngles, VNodeCounts, InitialSsthresh,
          Orders, FirstOrder, Prefilled, DemoInserts, TypedKeys, Repeats,
          MaxCylinder, DiskQueues, BlockSizeBytes, DirectPointers, FileSizes, FirstSize,
          A, B, C, D, E, Null, BitInputs,
          Capacities, Rates, Bursts, FirstCapacity, FirstRate, FirstBurst,
          BufferSize, Threads, NoThread, Coordinates, Drifts, QuizData, Unanswered,
          Requests, MaxTimeline, PageRequests, MaxFrames, MaxReferences,
          BankRequests, MaxWord, OctetBits, SubnetRequests

VARIABLES topic, page, gestures

vars == <<topic, page, gestures>>

Threading == INSTANCE ThreadLabs
Memory == INSTANCE MemoryLabs
Hashing == INSTANCE HashLabs
Window == INSTANCE CongestionWindow
Tree == INSTANCE BPlusTree
Storage == INSTANCE StorageLessons
Scripts == INSTANCE LessonScripts
Algebra == INSTANCE RelationalAlgebra
Suite == INSTANCE NetworkingSuite
Labs == INSTANCE SystemLabs
Concepts == INSTANCE ConceptPages
Player == INSTANCE StepPlayer
Cpu == INSTANCE CpuScheduling WITH job <- page
Paging == INSTANCE PageReplacement WITH walk <- page
Bankers == INSTANCE BankersSafety WITH bank <- page
Ipv4 == INSTANCE Ipv4Subnet WITH sub <- page

(* ------------------------------ which page ----------------------------- *)

Animated == {"spring-testing-production", "java-multithreading-concurrency", "virtual memory", "jvm-gc",
             "java-hashmap-internals", "consistent hashing", "tcp-congestion", "dbms-indexing"}

Mounted == \/ topic = "spring-testing-production" /\ Threading!PoolInit
           \/ topic = "java-multithreading-concurrency" /\ Threading!LoomInit
           \/ topic = "virtual memory" /\ Memory!MmuInit
           \/ topic = "jvm-gc" /\ Memory!HeapInit
           \/ topic = "java-hashmap-internals" /\ Hashing!MapInit
           \/ topic = "consistent hashing" /\ Hashing!RingInit
           \/ topic = "tcp-congestion" /\ Window!Init
           \/ topic = "dbms-indexing" /\ Tree!Init
           \/ topic = "disk-scheduling" /\ Storage!DiskInit
           \/ topic = "file-systems" /\ Storage!InodeInit
           \/ topic = "functional-dependencies-keys" /\ Scripts!DependencyOpens
           \/ topic = "database-normalization" /\ Scripts!NormalizationOpens
           \/ topic = "concurrency-control" /\ Scripts!ConcurrencyOpens
           \/ topic = "relational-algebra-calculus" /\ Algebra!Init
           \/ topic = "networking" /\ Suite!Init
           \/ topic = "nat" /\ Labs!NatInit
           \/ topic = "network-performance-qos" /\ Labs!ShapingInit
           \/ topic = "synchronization" /\ Labs!SyncInit
           \/ topic = "process-management" /\ Labs!LifecycleInit
           \/ topic = "hubs" /\ Concepts!HubInit
           \/ topic = "shell" /\ Concepts!ShellInit
           \/ topic = "cpu-scheduling" /\ Cpu!Init
           \/ topic = "page-replacement" /\ Paging!Init
           \/ topic = "bankers-algorithm" /\ Bankers!Init
           \/ topic = "subnet-calculator" /\ Ipv4!Init

Init == Mounted /\ gestures = 0

Gesture == \/ topic = "spring-testing-production" /\ Threading!PoolGesture
           \/ topic = "java-multithreading-concurrency" /\ Threading!LoomGesture
           \/ topic = "virtual memory" /\ Memory!MmuGesture
           \/ topic = "jvm-gc" /\ Memory!HeapGesture
           \/ topic = "java-hashmap-internals" /\ Hashing!MapGesture
           \/ topic = "consistent hashing" /\ Hashing!RingGesture
           \/ topic = "tcp-congestion" /\ Window!Gesture
           \/ topic = "dbms-indexing" /\ Tree!Gesture
           \/ topic = "disk-scheduling" /\ Storage!DiskGesture
           \/ topic = "file-systems" /\ Storage!InodeGesture
           \/ topic = "functional-dependencies-keys" /\ Scripts!DependencyGesture
           \/ topic = "database-normalization" /\ Scripts!NormalizationGesture
           \/ topic = "concurrency-control" /\ Scripts!ConcurrencyGesture
           \/ topic = "relational-algebra-calculus" /\ Algebra!Gesture
           \/ topic = "networking" /\ Suite!Gesture
           \/ topic = "nat" /\ Labs!NatGesture
           \/ topic = "network-performance-qos" /\ Labs!ShapingGesture
           \/ topic = "synchronization" /\ Labs!SyncGesture
           \/ topic = "process-management" /\ Labs!LifecycleGesture
           \/ topic = "hubs" /\ Concepts!HubGesture
           \/ topic = "shell" /\ Concepts!ShellGesture

(* ------------------------------- behaviour ----------------------------- *)

Counted == topic \in DOMAIN MaxGestures

ReaderActs == /\ Counted => gestures < MaxGestures[topic]
              /\ Gesture
              /\ gestures' = IF Counted THEN gestures + 1 ELSE gestures
              /\ UNCHANGED topic

TimerFires == /\ \/ topic \in Animated /\ Player!Tick
                 \/ topic = "process-management" /\ Labs!Timer
              /\ UNCHANGED <<topic, gestures>>

(* The service has no state: a request is computed and answered.  The       *)
(* controller hands it on unchanged; one that is refused becomes a 400 that *)
(* sends the page to its own copy of the algorithm.                         *)
ComputeCpuScheduling == topic = "cpu-scheduling" /\ Cpu!Next
ComputePageReplacement == topic = "page-replacement" /\ Paging!Next
ComputeBankersAlgorithm == topic = "bankers-algorithm" /\ Bankers!Next
ComputeSubnet == topic = "subnet-calculator" /\ Ipv4!Next

ServiceComputes == /\ \/ ComputeCpuScheduling \/ ComputePageReplacement
                      \/ ComputeBankersAlgorithm \/ ComputeSubnet
                   /\ UNCHANGED <<topic, gestures>>

Next == ReaderActs \/ TimerFires \/ ServiceComputes

(* An interval that is not cleared fires.                                  *)
Spec == Init /\ [][Next]_vars /\ WF_vars(TimerFires)

(* ------------------------------ properties ----------------------------- *)

(* What an engine holds once an operation is over is what its algorithm    *)
(* promises, after any sequence of operations.                             *)
EnginesAreSound ==
    CASE topic = "spring-testing-production" -> Threading!PoolEngineIsSound
      [] topic = "java-multithreading-concurrency" -> Threading!LoomEngineIsSound
      [] topic = "virtual memory" -> Memory!MmuEngineIsSound
      [] topic = "jvm-gc" -> Memory!HeapEngineIsSound
      [] topic = "java-hashmap-internals" -> Hashing!MapEngineIsSound
      [] topic = "consistent hashing" -> Hashing!RingEngineIsSound
      [] topic = "tcp-congestion" -> Window!EngineIsSound
      [] topic = "dbms-indexing" -> Tree!EngineIsSound
      [] topic = "nat" -> Labs!NatEngineIsSound
      [] topic = "network-performance-qos" -> Labs!ShapingEngineIsSound
      [] topic = "synchronization" -> Labs!SyncEngineIsSound
      [] topic = "process-management" -> Labs!LifecycleEngineIsSound
      [] OTHER -> TRUE

(* What a lesson teaches step by step is what the definition of its        *)
(* subject says: schedules, block trees, closures and keys, normal forms,  *)
(* lock tables, relations, waveforms, distance vectors, similarities, and  *)
(* the answers of a quiz.  It does not cover three claims that are wrong:  *)
(* that the Boyce-Codd decomposition preserves its dependencies            *)
(* (NormalizationVisualizer.jsx:70), that the flattened relation of the    *)
(* first scenario is in Boyce-Codd normal form (normalizationEngine.js:94),*)
(* and the wait-for graph that is shown for Thomas' write rule             *)
(* (concurrencyControlEngine.js:120).                                      *)
LessonsAreRight ==
    CASE topic = "disk-scheduling" -> Storage!DiskEngineIsSound
      [] topic = "file-systems" -> Storage!InodeEngineIsSound
      [] topic = "functional-dependencies-keys" -> Scripts!DependenciesAreSound
      [] topic = "database-normalization" -> Scripts!NormalizationIsSound
      [] topic = "concurrency-control" -> Scripts!ConcurrencyIsSound
      [] topic = "relational-algebra-calculus" -> Algebra!EngineIsSound
      [] topic = "networking" -> Suite!EngineIsSound
      [] topic = "hubs" -> Concepts!HubEngineIsSound
      [] topic = "shell" -> Concepts!ShellEngineIsSound
      [] OTHER -> TRUE

(* Page by page, what the panels of a display say of each other.           *)
DisplayIsSound ==
    CASE topic = "spring-testing-production" -> Threading!PoolShownIsSound
      [] topic = "java-multithreading-concurrency" -> Threading!LoomShownIsSound
      [] topic = "virtual memory" -> Memory!MmuShownIsSound
      [] topic = "jvm-gc" -> Memory!HeapShownIsSound
      [] topic = "java-hashmap-internals" -> Hashing!MapShownIsSound
      [] topic = "consistent hashing" -> Hashing!RingShownIsSound
      [] topic = "tcp-congestion" -> Window!ShownIsSound
      [] topic = "dbms-indexing" -> Tree!ShownIsSound
      [] topic = "disk-scheduling" -> Storage!DiskShownIsSound
      [] topic = "file-systems" -> Storage!InodeShownIsSound
      [] topic = "relational-algebra-calculus" -> Algebra!ShownIsSound
      [] topic = "networking" -> Suite!ShownIsSound
      [] topic = "nat" -> Labs!NatShownIsSound
      [] topic = "network-performance-qos" -> Labs!ShapingShownIsSound
      [] topic = "synchronization" -> Labs!SyncShownIsSound
      [] topic = "process-management" -> Labs!LifecycleShownIsSound
      [] topic = "hubs" -> Concepts!HubShownIsSound
      [] topic = "shell" -> Concepts!ShellShownIsSound
      [] OTHER -> TRUE

(* The service's timelines, frames, verdicts and subnets are what their    *)
(* policy prescribes, and so are those of the pages' own copies.           *)
AnswersAreSound == CASE topic = "cpu-scheduling" -> Cpu!SchedulesAreSound
                     [] topic = "page-replacement" -> Paging!PagesAreSound
                     [] topic = "bankers-algorithm" -> Bankers!VerdictsAreSound
                     [] topic = "subnet-calculator" -> Ipv4!SubnetsAreSound
                     [] OTHER -> TRUE

(* What is on display belongs together, at every snapshot a timer or the   *)
(* control bar can stand at and whichever gesture came in between.         *)
ShownIsSound == DisplayIsSound /\ (topic \in Animated => Player!StandsAtASnapshot)

(* When a server joins or leaves the ring, a key changes hands only if its *)
(* server left or the new one takes it.                                    *)
OnlyItsOwnKeysMove == [][topic = "consistent hashing" => Hashing!MovesItsOwn(page.engine, page'.engine)]_vars

(* Playback comes to its end once the reader lets go, and a context switch *)
(* ends always.                                                            *)
PlaybackEnds == /\ <>[](topic \in Animated => ~Player!Running)
                /\ []<>(topic = "process-management" => ~page.switching)
==============================================================================
