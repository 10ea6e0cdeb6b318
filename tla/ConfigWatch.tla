----------------------------- MODULE ConfigWatch -----------------------------
(***************************************************************************)
(* pkg/fscache: the directory of a mounted ConfigMap kept in memory, while *)
(* the kubelet publishes new versions of it and GET /configs reads the     *)
(* cache (pkg/api/configs.go).                                             *)
(*                                                                         *)
(* A version of the ConfigMap is a set of keys; the content of a key is    *)
(* the number of the version it was read from, 0 for no content.  In the   *)
(* mounted directory each key is a link through the link ..data to the     *)
(* directory of the current version.  The kubelet replaces ..data first,   *)
(* then adds the links of new keys, then removes those of old ones.        *)
(***************************************************************************)
EXTENDS Naturals

CONSTANTS
  Keys,        \* the names a file may have
  Payloads,    \* the sets of keys a version may consist of
  MaxVersion   \* bound: versions the kubelet publishes

ASSUME ConfigAssumption == Payloads \subseteq SUBSET Keys /\ MaxVersion \in Nat \ {0}

VARIABLES
  version,   \* the version ..data points to
  keysOf,    \* the keys of each version
  links,     \* the keys that have a link in the directory
  watching,  \* the inotify watch on the directory exists
  events,    \* how many times Create of ..data waits in fswatcher.Events
  wpc,       \* the watcher: what NewWatch or updateCache does next
  todo,      \* the files updateCache has yet to read, or the keys to store
  fileMap,   \* the contents it has read
  cache,     \* the sync.Map
  loaded,    \* NewWatch returned: watcher is set and the server starts
  failed,    \* the last updateCache returned an error, which is only logged
  rpc,       \* a call of configReadHandler
  toVisit,   \* the keys its Range has yet to visit
  files      \* the contents it collected

volume  == <<version, keysOf, links>>
watcher == <<watching, wpc, todo, fileMap, cache, loaded, failed>>
reader  == <<rpc, toVisit, files>>
vars    == <<volume, events, watcher, reader>>

Nothing == [k \in Keys |-> 0]

Init ==
  /\ version = 1
  /\ links \in Payloads
  /\ keysOf = [v \in 1..MaxVersion |-> IF v = 1 THEN links ELSE {}]
  /\ watching = FALSE /\ events = 0
  /\ wpc = "add" /\ todo = {} /\ fileMap = Nothing /\ cache = Nothing
  /\ loaded = FALSE /\ failed = FALSE
  /\ rpc = "idle" /\ toVisit = {} /\ files = Nothing

-----------------------------------------------------------------------------
(* The kubelet.                                                            *)

Swap ==
  /\ version < MaxVersion /\ links = keysOf[version]
  /\ version' = version + 1
  /\ \E p \in Payloads : keysOf' = [keysOf EXCEPT ![version + 1] = p]
  /\ events' = IF watching THEN events + 1 ELSE events
  /\ UNCHANGED <<links, watcher, reader>>

LinkNew ==
  /\ \E k \in keysOf[version] \ links : links' = links \cup {k}
  /\ UNCHANGED <<version, keysOf, events, watcher, reader>>

UnlinkOld ==
  /\ keysOf[version] \subseteq links
  /\ \E k \in links \ keysOf[version] : links' = links \ {k}
  /\ UNCHANGED <<version, keysOf, events, watcher, reader>>

Kubelet == LinkNew \/ UnlinkOld

-----------------------------------------------------------------------------
(* The watcher: NewWatch adds the watch and reads the directory, the       *)
(* goroutine of Watch reads it again for each event.                       *)

(* Mutant: the watch is never added.                                       *)
AddWithoutWatch ==
  /\ wpc = "add"
  /\ wpc' = "list"
  /\ UNCHANGED <<volume, events, watching, todo, fileMap, cache, loaded, failed, reader>>

AddWatch ==
  /\ wpc = "add"
  /\ watching' = TRUE
  /\ wpc' = "list"
  /\ UNCHANGED <<volume, events, todo, fileMap, cache, loaded, failed, reader>>

(* Mutant: the event is put back for a retry.                              *)
RequeueEvent ==
  /\ wpc = "wait" /\ events > 0
  /\ events' = events + 1
  /\ wpc' = "list"
  /\ UNCHANGED <<volume, watching, todo, fileMap, cache, loaded, failed, reader>>

TakeEvent ==
  /\ wpc = "wait" /\ events > 0
  /\ events' = events - 1
  /\ wpc' = "list"
  /\ UNCHANGED <<volume, watching, todo, fileMap, cache, loaded, failed, reader>>

ReadDir ==
  /\ wpc = "list"
  /\ todo' = links
  /\ fileMap' = Nothing
  /\ wpc' = "read"
  /\ UNCHANGED <<volume, events, watching, cache, loaded, failed, reader>>

(* Reading through a link that is gone, or that leads to a file the        *)
(* current version does not have, is an error and ends updateCache: the    *)
(* watch goroutine logs it, NewWatch fails and the cache is never served.  *)
ReadFile ==
  /\ wpc = "read"
  /\ \E k \in todo :
       \/ /\ k \in links \cap keysOf[version]
          /\ fileMap' = [fileMap EXCEPT ![k] = version]
          /\ todo' = todo \ {k}
          /\ UNCHANGED <<wpc, failed>>
       \/ /\ k \notin links \cap keysOf[version]
          /\ failed' = TRUE
          /\ wpc' = IF loaded THEN "wait" ELSE "off"
          /\ UNCHANGED <<todo, fileMap>>
  /\ UNCHANGED <<volume, events, watching, cache, loaded, reader>>

ReadDone ==
  /\ wpc = "read" /\ todo = {}
  /\ wpc' = "prune"
  /\ UNCHANGED <<volume, events, watching, todo, fileMap, cache, loaded, failed, reader>>

Deleted == {k \in Keys : cache[k] # 0 /\ fileMap[k] = 0}

(* Mutant: the cache is emptied first.                                     *)
EmptyFirst ==
  /\ wpc = "prune"
  /\ cache' = Nothing
  /\ todo' = {k \in Keys : fileMap[k] # 0}
  /\ wpc' = "store"
  /\ UNCHANGED <<volume, events, watching, fileMap, loaded, failed, reader>>

(* Deleted files leave the cache one by one, then the others are stored.   *)
Prune ==
  /\ wpc = "prune"
  /\ \/ /\ \E k \in Deleted : cache' = [cache EXCEPT ![k] = 0]
        /\ UNCHANGED <<wpc, todo>>
     \/ /\ Deleted = {}
        /\ todo' = {k \in Keys : fileMap[k] # 0}
        /\ wpc' = "store"
        /\ UNCHANGED cache
  /\ UNCHANGED <<volume, events, watching, fileMap, loaded, failed, reader>>

(* Mutant: LoadOrStore for Store.                                          *)
LoadOrStore ==
  /\ wpc = "store"
  /\ \E k \in todo :
       /\ cache' = [cache EXCEPT ![k] = IF @ = 0 THEN fileMap[k] ELSE @]
       /\ todo' = todo \ {k}
  /\ UNCHANGED <<volume, events, watching, wpc, fileMap, loaded, failed, reader>>

Store ==
  /\ wpc = "store"
  /\ \E k \in todo :
       /\ cache' = [cache EXCEPT ![k] = fileMap[k]]
       /\ todo' = todo \ {k}
  /\ UNCHANGED <<volume, events, watching, wpc, fileMap, loaded, failed, reader>>

UpdateDone ==
  /\ wpc = "store" /\ todo = {}
  /\ wpc' = "wait"
  /\ loaded' = TRUE
  /\ failed' = FALSE
  /\ UNCHANGED <<volume, events, watching, todo, fileMap, cache, reader>>

Watcher ==
  AddWatch \/ TakeEvent \/ ReadDir \/ ReadFile \/ ReadDone \/ Prune \/ Store \/ UpdateDone

-----------------------------------------------------------------------------
(* GET /configs: Range visits the keys one by one, in any order, while the *)
(* watcher goes on.                                                        *)

ConfigRead ==
  /\ rpc # "range" /\ loaded
  /\ rpc' = "range"
  /\ toVisit' = Keys
  /\ files' = Nothing
  /\ UNCHANGED <<volume, events, watcher>>

Visit ==
  /\ rpc = "range"
  /\ \E k \in toVisit :
       /\ files' = [files EXCEPT ![k] = cache[k]]
       /\ toVisit' = toVisit \ {k}
       /\ rpc' = IF toVisit' = {} THEN "done" ELSE "range"
  /\ UNCHANGED <<volume, events, watcher>>

Next == Swap \/ Kubelet \/ Watcher \/ ConfigRead \/ Visit

(* The watch goroutine runs and the kubelet finishes what it began.        *)
Spec == Init /\ [][Next]_vars /\ WF_vars(Kubelet) /\ WF_vars(Watcher)

-----------------------------------------------------------------------------
(* Properties.                                                             *)

(* Every variable has its type; each swap is one event.                    *)
TypeOK ==
  /\ version \in 1..MaxVersion
  /\ keysOf \in [1..MaxVersion -> SUBSET Keys] /\ links \subseteq Keys
  /\ watching \in BOOLEAN /\ events \in 0..(version - 1)
  /\ wpc \in {"add", "list", "read", "prune", "store", "wait", "off"}
  /\ todo \subseteq Keys /\ fileMap \in [Keys -> 0..version] /\ cache \in [Keys -> 0..version]
  /\ loaded \in BOOLEAN /\ failed \in BOOLEAN
  /\ rpc \in {"idle", "range", "done"} /\ toVisit \subseteq Keys /\ files \in [Keys -> 0..version]

(* A watcher with nothing to do whose last reload succeeded holds one      *)
(* version, the current one: no swap slips between the watch, the events   *)
(* and the reads.                                                          *)
QuietMeansCurrent ==
  wpc = "wait" /\ events = 0 /\ ~failed => \A k \in Keys : cache[k] \in {0, version}

(* A response never lacks a key that every version had, nor holds one its  *)
(* version did not have, although Range overlaps with reloads.             *)
Stable == {k \in Keys : \A v \in 1..version : k \in keysOf[v]}

ResponsesAreSound ==
  rpc = "done" => \A k \in Keys :
    /\ k \in Stable => files[k] # 0
    /\ files[k] # 0 => k \in keysOf[files[k]]

(* A ConfigMap that keeps its set of keys is in the cache in the end as    *)
(* the kubelet published it last.                                          *)
FixedKeys == \A v \in 1..version : keysOf[v] = keysOf[version]

FixedKeysConverge ==
  <>[](FixedKeys => \A k \in Keys : cache[k] = IF k \in keysOf[version] THEN version ELSE 0)
=============================================================================
