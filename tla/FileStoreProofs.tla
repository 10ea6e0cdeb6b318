--------------------------- MODULE FileStoreProofs ---------------------------
(***************************************************************************)
(* What is proved of FileStore for any contents, calls and lengths: that   *)
(* overlapping uploads of a content converge on it, and that a download    *)
(* that overlaps none of them returns it.                                  *)
(***************************************************************************)
EXTENDS FileStore, SequenceTheorems, TLAPS

(* The block b belongs to the content that n names.                        *)
BlockOf(b, n) == b \in Contents /\ hash(b) = n

(* A block that is missing from a file lies ahead of an upload of it: who  *)
(* truncated the file has the whole of it to write.                        *)
Filled ==
  /\ \A u \in Uploads : up[u] = "new" => pos[u] = 0
  /\ \A n \in exists \ torn : \A i \in 1..Blocks :
       BlockOf(disk[n][i], n) \/ \E u \in Writing(n) : pos[u] < i

(* A file reaches as far as its blocks.                                    *)
Reaches == \A n \in Names : \A i \in 1..Blocks : disk[n][i] # "hole" => i <= size[n]

(* A download that is alone with its file has read the beginning of the    *)
(* content, and all of it when it is through.                              *)
PrefixOf(d) ==
  /\ down[d] = "new" => text[d] = <<>>
  /\ alone[d] /\ down[d] \in {"read", "done"} =>
       /\ Len(text[d]) <= Blocks
       /\ \A i \in 1..Len(text[d]) : BlockOf(text[d][i], want[d])
  /\ alone[d] /\ down[d] = "read" =>
       want[d] \in exists \ torn /\ Writing(want[d]) = {}
  /\ alone[d] /\ down[d] = "done" => Len(text[d]) = Blocks

Prefix == \A d \in Downloads : PrefixOf(d)

StoreInvariant == TypeOK /\ Filled /\ Reaches /\ Prefix

(* The digest of a content is the digest of no other.                      *)
LEMMA Injective == \A b, c : hash(b) = hash(c) => b = c
BY DEF hash

(* The digest of a content is a name.                                      *)
LEMMA HashNames == \A c \in Contents : hash(c) \in Names
BY DEF Names

(* Blocks that all belong to one content are that content.                 *)
LEMMA WholeBlocks ==
  ASSUME NEW n \in Names, NEW bs, bs = [i \in 1..Blocks |-> bs[i]],
         \A i \in 1..Blocks : BlockOf(bs[i], n)
  PROVE  IsWhole(bs, n)
<1>1. PICK c \in Contents : hash(c) = n
  BY DEF Names
<1>2. \A i \in 1..Blocks : bs[i] = c
  BY <1>1, Injective DEF BlockOf
<1>3. bs = [i \in 1..Blocks |-> c]
  BY <1>2
<1> QED
  BY <1>1, <1>3 DEF IsWhole

(* Every step keeps the types.                                             *)
LEMMA TypeStep ==
  ASSUME TypeOK, [Next]_vars
  PROVE  TypeOK'
<1> USE StoreAssumption, HashNames DEF TypeOK, files, uploads, downs
<1>1. ASSUME NEW u \in Uploads, OpenFails(u)
      PROVE  TypeOK'
  BY <1>1 DEF OpenFails
<1>2. ASSUME NEW u \in Uploads, Open(u)
      PROVE  TypeOK'
  BY <1>2 DEF Open
<1>3. ASSUME NEW u \in Uploads, Write(u)
      PROVE  TypeOK'
  BY <1>3 DEF Write
<1>4. ASSUME NEW u \in Uploads, WriteFails(u)
      PROVE  TypeOK'
  BY <1>4 DEF WriteFails
<1>5. ASSUME NEW u \in Uploads, Accepted(u)
      PROVE  TypeOK'
  BY <1>5 DEF Accepted
<1>6. ASSUME NEW d \in Downloads, NotFound(d)
      PROVE  TypeOK'
  BY <1>6 DEF NotFound
<1>7. ASSUME NEW d \in Downloads, OpenToRead(d)
      PROVE  TypeOK'
  BY <1>7 DEF OpenToRead
<1>8. ASSUME NEW d \in Downloads, Read(d)
      PROVE  TypeOK'
  BY <1>8 DEF Read
<1>9. ASSUME NEW d \in Downloads, EndOfFile(d)
      PROVE  TypeOK'
  BY <1>9 DEF EndOfFile
<1>10. CASE Crash
  BY <1>10 DEF Crash
<1>11. CASE UNCHANGED vars
  BY <1>11 DEF vars
<1> QED
  BY <1>1, <1>2, <1>3, <1>4, <1>5, <1>6, <1>7, <1>8, <1>9, <1>10, <1>11
     DEF Next, Upload, Download

(* Every step keeps the missing blocks ahead of an upload.                 *)
LEMMA FilledStep ==
  ASSUME TypeOK, Filled, [Next]_vars
  PROVE  Filled'
<1> USE StoreAssumption, HashNames DEF TypeOK, Filled, BlockOf, Writing, files, uploads, downs
<1>1. ASSUME NEW u \in Uploads, OpenFails(u)
      PROVE  Filled'
  BY <1>1 DEF OpenFails
<1>2. ASSUME NEW u \in Uploads, Open(u)
      PROVE  Filled'
  BY <1>2 DEF Open
<1>3. ASSUME NEW u \in Uploads, Write(u)
      PROVE  Filled'
  <2>1. \A v \in Uploads : up'[v] = "new" => pos'[v] = 0
    BY <1>3 DEF Write
  <2>2. ASSUME NEW n \in exists' \ torn', NEW i \in 1..Blocks
        PROVE  BlockOf(disk'[n][i], n) \/ \E v \in Writing(n)' : pos'[v] < i
    <3>1. CASE n = hash(body[u]) /\ i = pos[u] + 1
      BY <1>3, <3>1 DEF Write
    <3>2. CASE ~(n = hash(body[u]) /\ i = pos[u] + 1)
      <4>1. disk'[n][i] = disk[n][i] /\ n \in exists \ torn /\ Writing(n)' = Writing(n)
        BY <1>3, <3>2 DEF Write
      <4>2. \A v \in Writing(n) : pos[v] < i => pos'[v] < i
        BY <1>3, <3>2 DEF Write
      <4> QED
        BY <4>1, <4>2
    <3> QED
      BY <3>1, <3>2
  <2> QED
    BY <2>1, <2>2
<1>4. ASSUME NEW u \in Uploads, WriteFails(u)
      PROVE  Filled'
  BY <1>4 DEF WriteFails
<1>5. ASSUME NEW u \in Uploads, Accepted(u)
      PROVE  Filled'
  <2>1. \A v \in Uploads : up'[v] = "new" => pos'[v] = 0
    BY <1>5 DEF Accepted
  <2>2. ASSUME NEW n \in exists' \ torn', NEW i \in 1..Blocks
        PROVE  BlockOf(disk'[n][i], n) \/ \E v \in Writing(n)' : pos'[v] < i
    <3>1. disk' = disk /\ pos' = pos /\ n \in exists \ torn
      BY <1>5 DEF Accepted
    <3>2. \A v \in Writing(n) : pos[v] < i => v \in Writing(n)'
      BY <1>5 DEF Accepted
    <3> QED
      BY <3>1, <3>2
  <2> QED
    BY <2>1, <2>2
<1>6. ASSUME NEW d \in Downloads, NotFound(d)
      PROVE  Filled'
  BY <1>6 DEF NotFound
<1>7. ASSUME NEW d \in Downloads, OpenToRead(d)
      PROVE  Filled'
  BY <1>7 DEF OpenToRead
<1>8. ASSUME NEW d \in Downloads, Read(d)
      PROVE  Filled'
  BY <1>8 DEF Read
<1>9. ASSUME NEW d \in Downloads, EndOfFile(d)
      PROVE  Filled'
  BY <1>9 DEF EndOfFile
<1>10. CASE Crash
  BY <1>10 DEF Crash
<1>11. CASE UNCHANGED vars
  BY <1>11 DEF vars
<1> QED
  BY <1>1, <1>2, <1>3, <1>4, <1>5, <1>6, <1>7, <1>8, <1>9, <1>10, <1>11
     DEF Next, Upload, Download

(* Every step keeps a file as long as its blocks.                          *)
LEMMA ReachesStep ==
  ASSUME TypeOK, Reaches, [Next]_vars
  PROVE  Reaches'
<1> USE StoreAssumption, HashNames DEF TypeOK, Reaches, files, uploads, downs
<1>1. ASSUME NEW u \in Uploads, OpenFails(u)
      PROVE  Reaches'
  BY <1>1 DEF OpenFails
<1>2. ASSUME NEW u \in Uploads, Open(u)
      PROVE  Reaches'
  BY <1>2 DEF Open
<1>3. ASSUME NEW u \in Uploads, Write(u)
      PROVE  Reaches'
  BY <1>3 DEF Write
<1>4. ASSUME NEW u \in Uploads, WriteFails(u)
      PROVE  Reaches'
  BY <1>4 DEF WriteFails
<1>5. ASSUME NEW u \in Uploads, Accepted(u)
      PROVE  Reaches'
  BY <1>5 DEF Accepted
<1>6. ASSUME NEW d \in Downloads, NotFound(d)
      PROVE  Reaches'
  BY <1>6 DEF NotFound
<1>7. ASSUME NEW d \in Downloads, OpenToRead(d)
      PROVE  Reaches'
  BY <1>7 DEF OpenToRead
<1>8. ASSUME NEW d \in Downloads, Read(d)
      PROVE  Reaches'
  BY <1>8 DEF Read
<1>9. ASSUME NEW d \in Downloads, EndOfFile(d)
      PROVE  Reaches'
  BY <1>9 DEF EndOfFile
<1>10. CASE Crash
  BY <1>10 DEF Crash
<1>11. CASE UNCHANGED vars
  BY <1>11 DEF vars
<1> QED
  BY <1>1, <1>2, <1>3, <1>4, <1>5, <1>6, <1>7, <1>8, <1>9, <1>10, <1>11
     DEF Next, Upload, Download

(* Every step keeps what a download alone with its file has read.          *)
LEMMA PrefixStep ==
  ASSUME StoreInvariant, [Next]_vars
  PROVE  Prefix'
<1> USE StoreAssumption, HashNames DEF StoreInvariant, TypeOK, Filled, Reaches, Prefix, PrefixOf, BlockOf, Writing, files, uploads, downs
<1>1. ASSUME NEW u \in Uploads, OpenFails(u)
      PROVE  Prefix'
  BY <1>1 DEF OpenFails
<1>2. ASSUME NEW u \in Uploads, Open(u)
      PROVE  Prefix'
  <2> SUFFICES ASSUME NEW d \in Downloads
               PROVE  PrefixOf(d)'
    BY DEF Prefix
  <2>1. down' = down /\ text' = text /\ want' = want
    BY <1>2 DEF Open
  <2>2. alone'[d] => alone[d] /\ (down[d] = "read" => want[d] # hash(body[u]))
    BY <1>2 DEF Open
  <2>3. alone'[d] /\ down[d] = "read" =>
          want[d] \in exists' \ torn' /\ Writing(want[d])' = {}
    BY <1>2, <2>2 DEF Open
  <2> QED
    BY <2>1, <2>2, <2>3
<1>3. ASSUME NEW u \in Uploads, Write(u)
      PROVE  Prefix'
  BY <1>3 DEF Write
<1>4. ASSUME NEW u \in Uploads, WriteFails(u)
      PROVE  Prefix'
  BY <1>4 DEF WriteFails
<1>5. ASSUME NEW u \in Uploads, Accepted(u)
      PROVE  Prefix'
  BY <1>5 DEF Accepted
<1>6. ASSUME NEW d \in Downloads, NotFound(d)
      PROVE  Prefix'
  BY <1>6 DEF NotFound
<1>7. ASSUME NEW d \in Downloads, OpenToRead(d)
      PROVE  Prefix'
  <2> SUFFICES ASSUME NEW e \in Downloads
               PROVE  PrefixOf(e)'
    BY DEF Prefix
  <2>1. CASE e = d
    <3>1. text'[d] = <<>> /\ Len(text'[d]) = 0 /\ down'[d] = "read"
      BY <1>7 DEF OpenToRead
    <3>2. alone'[d] => want'[d] \in exists' \ torn' /\ Writing(want[d])' = {}
      <4>1. alone'[d] => Writing(want[d]) = {} /\ want[d] \notin torn
        <5> DEFINE calm == Writing(want[d]) = {} /\ want[d] \notin torn
        <5>1. alone'[d] = calm
          BY <1>7 DEF OpenToRead
        <5> HIDE DEF calm
        <5>2. alone'[d] => calm
          BY <5>1, Zenon
        <5> QED
          BY <5>2 DEF calm
      <4>2. want' = want /\ exists' = exists /\ torn' = torn /\ up' = up /\ body' = body
        BY <1>7 DEF OpenToRead
      <4>3. want[d] \in exists
        BY <1>7 DEF OpenToRead
      <4>4. Writing(want[d])' = Writing(want[d])
        BY <4>2
      <4> QED
        BY <4>1, <4>2, <4>3, <4>4
    <3>3. want' = want
      BY <1>7 DEF OpenToRead
    <3>4. 0 <= Blocks /\ 1..0 = {}
      OBVIOUS
    <3> QED
      BY <2>1, <3>1, <3>2, <3>3, <3>4
  <2>2. CASE e # d
    BY <1>7, <2>2 DEF OpenToRead
  <2> QED
    BY <2>1, <2>2
<1>8. ASSUME NEW d \in Downloads, Read(d)
      PROVE  Prefix'
  BY <1>8 DEF Read
<1>9. ASSUME NEW d \in Downloads, EndOfFile(d)
      PROVE  Prefix'
  <2> SUFFICES ASSUME NEW e \in Downloads
               PROVE  PrefixOf(e)'
    BY DEF Prefix
  <2>1. CASE e = d
    <3>1. ASSUME alone[d]
          PROVE  Len(text[d]) = Blocks
      <4>1. Len(text[d]) <= Blocks /\ Len(text[d]) >= size[want[d]]
        BY <1>9, <3>1 DEF EndOfFile
      <4>2. want[d] \in exists \ torn /\ Writing(want[d]) = {}
        BY <1>9, <3>1 DEF EndOfFile
      <4>3. disk[want[d]][Blocks] # "hole"
        BY <4>2
      <4>4. Blocks <= size[want[d]]
        BY <4>3
      <4> QED
        BY <4>1, <4>4
    <3> QED
      BY <1>9, <2>1, <3>1 DEF EndOfFile
  <2>2. CASE e # d
    BY <1>9, <2>2 DEF EndOfFile
  <2> QED
    BY <2>1, <2>2
<1>10. CASE Crash
  BY <1>10 DEF Crash
<1>11. CASE UNCHANGED vars
  BY <1>11 DEF vars
<1> QED
  BY <1>1, <1>2, <1>3, <1>4, <1>5, <1>6, <1>7, <1>8, <1>9, <1>10, <1>11
     DEF Next, Upload, Download

(* The types, the missing blocks and the downloads are right in every      *)
(* state.                                                                  *)
THEOREM StoreCorrect == Spec => []StoreInvariant
<1>1. Init => StoreInvariant
  BY StoreAssumption, HashNames
     DEF Init, StoreInvariant, TypeOK, Filled, Reaches, Prefix, PrefixOf, Writing
<1>2. StoreInvariant /\ [Next]_vars => StoreInvariant'
  BY TypeStep, FilledStep, ReachesStep, PrefixStep DEF StoreInvariant
<1> QED
  BY <1>1, <1>2, PTL DEF Spec

(* Every variable has its type.                                            *)
THEOREM TypeCorrect == Spec => []TypeOK
<1>1. StoreInvariant => TypeOK
  BY DEF StoreInvariant
<1> QED
  BY <1>1, StoreCorrect, PTL

(* When all uploads of a content are through and none failed in it, its    *)
(* file is whole.                                                          *)
THEOREM ConvergeTheorem == Spec => []UploadsConverge
<1>1. ASSUME StoreInvariant, NEW n \in exists, Writing(n) = {}, n \notin torn
      PROVE  IsWhole(disk[n], n)
  <2>1. n \in Names /\ disk[n] = [i \in 1..Blocks |-> disk[n][i]]
    BY <1>1 DEF StoreInvariant, TypeOK
  <2>2. \A i \in 1..Blocks : BlockOf(disk[n][i], n)
    BY <1>1 DEF StoreInvariant, Filled
  <2> QED
    BY <2>1, <2>2, WholeBlocks
<1>2. StoreInvariant => UploadsConverge
  BY <1>1 DEF UploadsConverge
<1> QED
  BY <1>2, StoreCorrect, PTL

(* A download that overlaps no upload of its file, and follows none that   *)
(* failed, returns the whole content.                                      *)
THEOREM ReadsTheorem == Spec => []ReadsAloneAreWhole
<1>1. ASSUME StoreInvariant, NEW d \in Downloads, down[d] = "done", alone[d]
      PROVE  IsWhole(text[d], want[d])
  <2>1. want[d] \in Names /\ text[d] \in Seq(Contents \cup {"hole"})
    BY <1>1 DEF StoreInvariant, TypeOK
  <2>2. Len(text[d]) = Blocks /\ \A i \in 1..Blocks : BlockOf(text[d][i], want[d])
    BY <1>1 DEF StoreInvariant, Prefix, PrefixOf
  <2>3. text[d] = [i \in 1..Blocks |-> text[d][i]]
    BY <2>1, <2>2
  <2> QED
    BY <2>1, <2>2, <2>3, WholeBlocks
<1>2. StoreInvariant => ReadsAloneAreWhole
  BY <1>1 DEF ReadsAloneAreWhole
<1> QED
  BY <1>2, StoreCorrect, PTL
=============================================================================
