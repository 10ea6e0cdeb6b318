-------------------------- MODULE ConfigWatchProofs --------------------------
(***************************************************************************)
(* What is proved of ConfigWatch for any keys, versions and payloads: that *)
(* a watcher at rest after a successful reload holds the current version,  *)
(* and that a response has every stable key and nothing made up.           *)
(***************************************************************************)
EXTENDS ConfigWatch, TLAPS

(* While no event waits, nothing was swapped since the reload began: what  *)
(* it has read is current, and what it has stored is what it has read.     *)
Fresh ==
  /\ wpc # "add" => watching
  /\ events = 0 /\ wpc \in {"read", "prune", "store"} =>
       \A k \in Keys : fileMap[k] \in {0, version}
  /\ wpc = "store" => \A k \in Keys \ todo : cache[k] = fileMap[k]
  /\ QuietMeansCurrent

WatcherInvariant == TypeOK /\ Fresh

(* Every step keeps the types.                                             *)
LEMMA TypeStep ==
  ASSUME TypeOK, [Next]_vars
  PROVE  TypeOK'
<1> USE ConfigAssumption DEF TypeOK, Nothing, volume, watcher, reader
<1>1. CASE Swap
  BY <1>1 DEF Swap
<1>2. CASE LinkNew
  BY <1>2 DEF LinkNew
<1>3. CASE UnlinkOld
  BY <1>3 DEF UnlinkOld
<1>4. CASE AddWatch
  BY <1>4 DEF AddWatch
<1>5. CASE TakeEvent
  BY <1>5 DEF TakeEvent
<1>6. CASE ReadDir
  BY <1>6 DEF ReadDir
<1>7. CASE ReadFile
  <2>1. PICK k \in todo :
          \/ /\ k \in links \cap keysOf[version]
             /\ fileMap' = [fileMap EXCEPT ![k] = version]
             /\ todo' = todo \ {k}
             /\ UNCHANGED <<wpc, failed>>
          \/ /\ failed' = TRUE
             /\ wpc' \in {"wait", "off"}
             /\ UNCHANGED <<todo, fileMap>>
    BY <1>7 DEF ReadFile
  <2>2. UNCHANGED <<volume, events, watching, cache, loaded, reader>>
    BY <1>7 DEF ReadFile
  <2>3. fileMap' \in [Keys -> 0..version] /\ todo' \subseteq Keys
    BY <2>1
  <2>4. failed' \in BOOLEAN
    BY <2>1, Zenon
  <2>5. wpc' \in {"add", "list", "read", "prune", "store", "wait", "off"}
    BY <2>1
  <2> QED
    BY <2>2, <2>3, <2>4, <2>5
<1>8. CASE ReadDone
  BY <1>8 DEF ReadDone
<1>9. CASE Prune
  BY <1>9 DEF Prune, Deleted
<1>10. CASE Store
  BY <1>10 DEF Store
<1>11. CASE UpdateDone
  BY <1>11 DEF UpdateDone
<1>12. CASE ConfigRead
  BY <1>12 DEF ConfigRead
<1>13. CASE Visit
  BY <1>13 DEF Visit
<1>14. CASE UNCHANGED vars
  BY <1>14 DEF vars
<1> QED
  BY <1>1, <1>2, <1>3, <1>4, <1>5, <1>6, <1>7, <1>8, <1>9, <1>10, <1>11, <1>12,
     <1>13, <1>14
     DEF Next, Kubelet, Watcher

(* Every step keeps the reload in line with the events.                    *)
LEMMA FreshStep ==
  ASSUME TypeOK, Fresh, [Next]_vars
  PROVE  Fresh'
<1> USE DEF TypeOK, Fresh, QuietMeansCurrent, Nothing, volume, watcher, reader
<1>1. CASE Swap
  BY <1>1 DEF Swap
<1>2. CASE LinkNew
  BY <1>2 DEF LinkNew
<1>3. CASE UnlinkOld
  BY <1>3 DEF UnlinkOld
<1>4. CASE AddWatch
  BY <1>4 DEF AddWatch
<1>5. CASE TakeEvent
  BY <1>5 DEF TakeEvent
<1>6. CASE ReadDir
  BY <1>6 DEF ReadDir
<1>7. CASE ReadFile
  BY <1>7 DEF ReadFile
<1>8. CASE ReadDone
  BY <1>8 DEF ReadDone
<1>9. CASE Prune
  BY <1>9 DEF Prune, Deleted
<1>10. CASE Store
  BY <1>10 DEF Store
<1>11. CASE UpdateDone
  BY <1>11 DEF UpdateDone
<1>12. CASE ConfigRead
  BY <1>12 DEF ConfigRead
<1>13. CASE Visit
  BY <1>13 DEF Visit
<1>14. CASE UNCHANGED vars
  BY <1>14 DEF vars
<1> QED
  BY <1>1, <1>2, <1>3, <1>4, <1>5, <1>6, <1>7, <1>8, <1>9, <1>10, <1>11, <1>12,
     <1>13, <1>14
     DEF Next, Kubelet, Watcher

(* The types and the freshness hold in every state.                        *)
THEOREM WatcherCorrect == Spec => []WatcherInvariant
<1>1. Init => WatcherInvariant
  <2> SUFFICES ASSUME Init
               PROVE  WatcherInvariant
    OBVIOUS
  <2>1. watching \in BOOLEAN /\ loaded \in BOOLEAN /\ failed \in BOOLEAN
    BY Zenon DEF Init
  <2>2. version \in 1..MaxVersion /\ events \in 0..(version - 1)
    BY ConfigAssumption DEF Init
  <2>3. keysOf \in [1..MaxVersion -> SUBSET Keys] /\ links \subseteq Keys
    BY ConfigAssumption DEF Init
  <2>4. /\ fileMap \in [Keys -> 0..version] /\ cache \in [Keys -> 0..version]
        /\ files \in [Keys -> 0..version]
    BY DEF Init, Nothing
  <2>5. TypeOK
    BY <2>1, <2>2, <2>3, <2>4 DEF Init, TypeOK
  <2>6. Fresh
    BY DEF Init, Fresh, QuietMeansCurrent
  <2> QED
    BY <2>5, <2>6 DEF WatcherInvariant
<1>2. WatcherInvariant /\ [Next]_vars => WatcherInvariant'
  BY TypeStep, FreshStep DEF WatcherInvariant
<1> QED
  BY <1>1, <1>2, PTL DEF Spec

(* Every variable has its type; each event is that of a swap.              *)
THEOREM TypeCorrect == Spec => []TypeOK
<1>1. WatcherInvariant => TypeOK
  BY DEF WatcherInvariant
<1> QED
  BY <1>1, WatcherCorrect, PTL

(* A watcher at rest after a successful reload holds the current version.  *)
THEOREM QuietTheorem == Spec => []QuietMeansCurrent
<1>1. WatcherInvariant => QuietMeansCurrent
  BY DEF WatcherInvariant, Fresh
<1> QED
  BY <1>1, WatcherCorrect, PTL

-----------------------------------------------------------------------------
(* A content that is held is that of its key in an earlier or the current  *)
(* version.                                                                *)
Genuine(contents) == \A k \in Keys : contents[k] # 0 => k \in keysOf[contents[k]]

(* A key that every version had has a link, is in each reload from its     *)
(* listing to its store, and once loaded is never out of the cache.        *)
Kept ==
  /\ Stable \subseteq links
  /\ wpc = "read" => \A k \in Stable : k \in todo \/ fileMap[k] # 0
  /\ wpc \in {"prune", "store"} => \A k \in Stable : fileMap[k] # 0
  /\ wpc = "store" => \A k \in Stable : k \in todo \/ cache[k] # 0
  /\ loaded => \A k \in Stable : cache[k] # 0

(* What a response has visited is complete as far as it goes.              *)
Collected ==
  /\ rpc # "idle" => loaded /\ \A k \in Stable : k \in toVisit \/ files[k] # 0
  /\ rpc = "done" => toVisit = {}

Sound ==
  /\ Genuine(fileMap) /\ Genuine(cache) /\ Genuine(files)
  /\ Kept /\ Collected


(* A published version keeps its keys, so fewer and fewer keys are stable. *)
LEMMA Published ==
  ASSUME TypeOK, [Next]_vars
  PROVE  /\ version <= version'
         /\ \A v \in 1..version : keysOf'[v] = keysOf[v]
         /\ Stable' \subseteq Stable
<1> USE DEF TypeOK
<1>1. version <= version' /\ \A v \in 1..version : keysOf'[v] = keysOf[v]
  <2>1. CASE Swap
    BY <2>1, ConfigAssumption DEF Swap
  <2>2. CASE version' = version /\ keysOf' = keysOf
    BY <2>2
  <2> QED
    BY <2>1, <2>2, Zenon
    DEF Next, Kubelet, Watcher, LinkNew, UnlinkOld, AddWatch, TakeEvent, ReadDir, ReadFile,
        ReadDone, Prune, Store, UpdateDone, ConfigRead, Visit, vars, volume
<1>2. 1..version \subseteq 1..version'
  BY <1>1, TypeStep
<1> QED
  BY <1>1, <1>2 DEF Stable

(* Every content read, cached or collected was in its version.             *)
LEMMA GenuineStep ==
  ASSUME TypeOK, [Next]_vars, Genuine(fileMap), Genuine(cache), Genuine(files)
  PROVE  Genuine(fileMap)' /\ Genuine(cache)' /\ Genuine(files)'
<1> DEFINE Was(c, k) == c[k] # 0 => c[k] \in 1..version /\ k \in keysOf[c[k]]
<1>1. \A k \in Keys : Was(fileMap, k) /\ Was(cache, k) /\ Was(files, k)
  BY DEF TypeOK, Genuine
<1>2. \A k \in Keys, v \in 1..version : k \in keysOf[v] => k \in keysOf'[v]
  BY Published, Zenon
<1>3. \A k \in Keys : \/ fileMap'[k] = 0
                      \/ fileMap'[k] = fileMap[k]
                      \/ fileMap'[k] = version /\ k \in keysOf[version]
  <2>1. CASE ReadDir
    BY <2>1 DEF ReadDir, Nothing
  <2>2. CASE ReadFile
    BY <2>2 DEF ReadFile, TypeOK
  <2>3. CASE fileMap' = fileMap
    BY <2>3
  <2> QED
    BY <2>1, <2>2, <2>3, Zenon
    DEF Next, Kubelet, Watcher, Swap, LinkNew, UnlinkOld, AddWatch, TakeEvent, ReadDone,
        Prune, Store, UpdateDone, ConfigRead, Visit, vars, watcher
<1>4. \A k \in Keys : \/ cache'[k] = 0
                      \/ cache'[k] = cache[k]
                      \/ cache'[k] = fileMap[k]
  <2>1. CASE Prune
    BY <2>1 DEF Prune, TypeOK
  <2>2. CASE Store
    BY <2>2 DEF Store, TypeOK
  <2>3. CASE cache' = cache
    BY <2>3
  <2> QED
    BY <2>1, <2>2, <2>3, Zenon
    DEF Next, Kubelet, Watcher, Swap, LinkNew, UnlinkOld, AddWatch, TakeEvent, ReadDir,
        ReadFile, ReadDone, UpdateDone, ConfigRead, Visit, vars, watcher
<1>5. \A k \in Keys : \/ files'[k] = 0
                      \/ files'[k] = files[k]
                      \/ files'[k] = cache[k]
  <2>1. CASE ConfigRead
    BY <2>1 DEF ConfigRead, Nothing
  <2>2. CASE Visit
    BY <2>2 DEF Visit, TypeOK
  <2>3. CASE files' = files
    BY <2>3
  <2> QED
    BY <2>1, <2>2, <2>3, Zenon
    DEF Next, Kubelet, Watcher, Swap, LinkNew, UnlinkOld, AddWatch, TakeEvent, ReadDir,
        ReadFile, ReadDone, Prune, Store, UpdateDone, vars, reader
<1>6. version \in 1..version
  BY DEF TypeOK
<1> QED
  BY <1>1, <1>2, <1>3, <1>4, <1>5, <1>6 DEF Genuine

(* Every step keeps the stable keys in the directory, the reload and the   *)
(* cache.                                                                  *)
LEMMA KeptStep ==
  ASSUME TypeOK, Kept, [Next]_vars
  PROVE  Kept'
<1>1. Stable' \subseteq Stable /\ Stable \subseteq Keys
  BY Published DEF Stable
<1>2. \A k \in Stable : k \in keysOf[version]
  BY DEF Stable, TypeOK
<1> HIDE DEF Stable
<1> USE <1>1 DEF TypeOK, Kept, volume, watcher
<1>3. CASE Swap
  BY <1>3 DEF Swap
<1>4. CASE LinkNew
  BY <1>4 DEF LinkNew
<1>5. CASE UnlinkOld
  BY <1>2, <1>5 DEF UnlinkOld
<1>6. CASE AddWatch
  BY <1>6 DEF AddWatch
<1>7. CASE TakeEvent
  BY <1>7 DEF TakeEvent
<1>8. CASE ReadDir
  BY <1>8 DEF ReadDir
<1>9. CASE ReadFile
  BY <1>9 DEF ReadFile
<1>10. CASE ReadDone
  BY <1>10 DEF ReadDone
<1>11. CASE Prune
  BY <1>11 DEF Prune, Deleted
<1>12. CASE Store
  BY <1>12 DEF Store
<1>13. CASE UpdateDone
  BY <1>13 DEF UpdateDone
<1>14. CASE ConfigRead
  BY <1>14 DEF ConfigRead
<1>15. CASE Visit
  BY <1>15 DEF Visit
<1>16. CASE UNCHANGED vars
  BY <1>16 DEF vars
<1> QED
  BY <1>3, <1>4, <1>5, <1>6, <1>7, <1>8, <1>9, <1>10, <1>11, <1>12, <1>13, <1>14, <1>15,
     <1>16
     DEF Next, Kubelet, Watcher

(* Every step keeps what a response has visited.                           *)
LEMMA CollectedStep ==
  ASSUME TypeOK, Kept, Collected, [Next]_vars
  PROVE  Collected'
<1>1. Stable' \subseteq Stable /\ Stable \subseteq Keys
  BY Published DEF Stable
<1> HIDE DEF Stable
<1>2. CASE ConfigRead
  BY <1>1, <1>2 DEF ConfigRead, Collected, Kept, watcher
<1>3. CASE Visit
  <2>1. PICK k \in toVisit :
          /\ files' = [files EXCEPT ![k] = cache[k]]
          /\ toVisit' = toVisit \ {k}
          /\ rpc' = IF toVisit' = {} THEN "done" ELSE "range"
    BY <1>3, Zenon DEF Visit
  <2>2. loaded' = loaded /\ rpc = "range"
    BY <1>3 DEF Visit, watcher
  <2>3. \A s \in Stable : cache[s] # 0 /\ (s \in toVisit \/ files[s] # 0)
    BY <2>2 DEF Collected, Kept
  <2> QED
    BY <1>1, <2>1, <2>2, <2>3 DEF Collected, TypeOK
<1>4. CASE UNCHANGED reader /\ (loaded => loaded')
  BY <1>1, <1>4 DEF Collected, reader
<1> QED
  BY <1>2, <1>3, <1>4
  DEF Next, Kubelet, Watcher, Swap, LinkNew, UnlinkOld, AddWatch, TakeEvent, ReadDir,
      ReadFile, ReadDone, Prune, Store, UpdateDone, vars, watcher

(* A response never lacks a key that every version had, nor holds one its  *)
(* version did not have, however Range and the reloads overlap.            *)
THEOREM SoundTheorem == Spec => []ResponsesAreSound
<1>1. Init => Sound
  <2> SUFFICES ASSUME Init
               PROVE  Sound
    OBVIOUS
  <2>1. Genuine(fileMap) /\ Genuine(cache) /\ Genuine(files)
    BY DEF Init, Genuine, Nothing
  <2>2. Stable \subseteq links
    BY ConfigAssumption DEF Init, Stable
  <2> QED
    BY <2>1, <2>2 DEF Init, Sound, Kept, Collected
<1>2. TypeOK /\ Sound /\ [Next]_vars => Sound'
  BY GenuineStep, KeptStep, CollectedStep DEF Sound
<1>3. Sound => ResponsesAreSound
  <2> SUFFICES ASSUME Sound, rpc = "done", NEW k \in Keys
               PROVE  /\ k \in Stable => files[k] # 0
                      /\ files[k] # 0 => k \in keysOf[files[k]]
    BY Zenon DEF ResponsesAreSound
  <2> QED
    BY DEF Sound, Collected, Genuine
<1> QED
  BY <1>1, <1>2, <1>3, TypeCorrect, PTL DEF Spec
=============================================================================
