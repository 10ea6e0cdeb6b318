------------------------------ MODULE FileStore ------------------------------
(***************************************************************************)
(* POST /store and GET /store/{hash} (pkg/api/store.go): each upload       *)
(* truncates the file named after the hash of its content and writes the   *)
(* content into it, each download reads a file to its end, and nothing     *)
(* keeps them apart.  The process may crash; the files stay.               *)
(*                                                                         *)
(* A content is Blocks blocks long and a block is what one write or one    *)
(* read moves.  A block of a file is the content it is of, or "hole" where *)
(* the file is shorter or was never written.                               *)
(***************************************************************************)
EXTENDS Naturals, Sequences

CONSTANTS
  Contents,    \* what clients upload
  Uploads,     \* the calls of storeWriteHandler
  Downloads,   \* the calls of storeReadHandler
  Blocks,      \* length of a content
  MaxCrashes   \* bound: how often the process crashes

ASSUME StoreAssumption ==
  Blocks \in Nat \ {0} /\ MaxCrashes \in Nat /\ "hole" \notin Contents

VARIABLES
  disk,      \* the blocks of each file, by its name
  size,      \* its length in blocks
  exists,    \* the files that exist
  up,        \* where each upload is
  body,      \* its content
  pos,       \* how many blocks it has written
  down,      \* where each download is
  want,      \* the name it asks for
  text,      \* the blocks it has read
  alone,     \* no upload wrote to its file while it read, or left it torn
  torn,      \* the files an upload left behind half written
  crashes

files   == <<disk, size, exists>>
uploads == <<up, body, pos>>
downs   == <<down, want, text, alone>>
vars    == <<files, uploads, downs, torn, crashes>>

(* SHA1 tells the contents apart; the file is named after it.  Mutant: a   *)
(* hash that does not.                                                     *)
HashCollides(content) == [sha1 |-> CHOOSE c \in Contents : TRUE]
hash(content) == [sha1 |-> content]

Names == {hash(c) : c \in Contents}

Writing(n) == {u \in Uploads : up[u] = "write" /\ hash(body[u]) = n}

Init ==
  /\ disk = [n \in Names |-> [i \in 1..Blocks |-> "hole"]]
  /\ size = [n \in Names |-> 0] /\ exists = {}
  /\ up = [u \in Uploads |-> "new"] /\ body \in [Uploads -> Contents]
  /\ pos = [u \in Uploads |-> 0]
  /\ down = [d \in Downloads |-> "new"] /\ want \in [Downloads -> Names]
  /\ text = [d \in Downloads |-> <<>>] /\ alone = [d \in Downloads |-> FALSE]
  /\ torn = {} /\ crashes = 0

-----------------------------------------------------------------------------
(* storeWriteHandler: os.WriteFile opens with O_TRUNC, writes and closes.  *)

OpenFails(u) ==
  /\ up[u] = "new"
  /\ up' = [up EXCEPT ![u] = "failed"]
  /\ UNCHANGED <<files, body, pos, downs, torn, crashes>>

Open(u) ==
  LET h == hash(body[u]) IN
  /\ up[u] = "new"
  /\ up' = [up EXCEPT ![u] = "write"]
  /\ disk' = [disk EXCEPT ![h] = [i \in 1..Blocks |-> "hole"]]
  /\ size' = [size EXCEPT ![h] = 0]
  /\ exists' = exists \cup {h}
  /\ torn' = torn \ {h}
  /\ alone' = [d \in Downloads |-> alone[d] /\ (down[d] = "read" => want[d] # h)]
  /\ UNCHANGED <<body, pos, down, want, text, crashes>>

(* Mutant: the loop writes one block too many.                             *)
WriteOneTooMany(u) ==
  LET h == hash(body[u]) IN
  /\ up[u] = "write" /\ pos[u] <= Blocks
  /\ pos' = [pos EXCEPT ![u] = @ + 1]
  /\ disk' = [disk EXCEPT ![h] = [i \in 1..Blocks |-> IF i = pos'[u] THEN body[u] ELSE @[i]]]
  /\ size' = [size EXCEPT ![h] = IF @ < pos'[u] THEN pos'[u] ELSE @]
  /\ UNCHANGED <<exists, up, body, downs, torn, crashes>>

(* A write lands at the upload's own offset, wherever the file ends now.   *)
Write(u) ==
  LET h == hash(body[u]) IN
  /\ up[u] = "write" /\ pos[u] < Blocks
  /\ pos' = [pos EXCEPT ![u] = @ + 1]
  /\ disk' = [disk EXCEPT ![h][pos[u] + 1] = body[u]]
  /\ size' = [size EXCEPT ![h] = IF @ < pos[u] + 1 THEN pos[u] + 1 ELSE @]
  /\ UNCHANGED <<exists, up, body, downs, torn, crashes>>

(* A write fails, the file stays as it is and the client gets an error.    *)
WriteFails(u) ==
  /\ up[u] = "write" /\ pos[u] < Blocks
  /\ up' = [up EXCEPT ![u] = "failed"]
  /\ torn' = torn \cup {hash(body[u])}
  /\ UNCHANGED <<files, body, pos, downs, crashes>>

Accepted(u) ==
  /\ up[u] = "write" /\ pos[u] = Blocks
  /\ up' = [up EXCEPT ![u] = "accepted"]
  /\ UNCHANGED <<files, body, pos, downs, torn, crashes>>

-----------------------------------------------------------------------------
(* storeReadHandler: os.ReadFile opens the file and reads to its end.      *)

NotFound(d) ==
  /\ down[d] = "new" /\ want[d] \notin exists
  /\ down' = [down EXCEPT ![d] = "failed"]
  /\ UNCHANGED <<files, uploads, want, text, alone, torn, crashes>>

OpenToRead(d) ==
  /\ down[d] = "new" /\ want[d] \in exists
  /\ down' = [down EXCEPT ![d] = "read"]
  /\ alone' = [alone EXCEPT ![d] = (Writing(want[d]) = {} /\ want[d] \notin torn)]
  /\ UNCHANGED <<files, uploads, want, text, torn, crashes>>

Read(d) ==
  /\ down[d] = "read" /\ Len(text[d]) < size[want[d]]
  /\ text' = [text EXCEPT ![d] = Append(@, disk[want[d]][Len(@) + 1])]
  /\ UNCHANGED <<files, uploads, down, want, alone, torn, crashes>>

(* Mutant: one read is taken for the whole file.                           *)
ReadOnce(d) ==
  /\ down[d] = "read" /\ (Len(text[d]) > 0 \/ size[want[d]] = 0)
  /\ down' = [down EXCEPT ![d] = "done"]
  /\ UNCHANGED <<files, uploads, want, text, alone, torn, crashes>>

EndOfFile(d) ==
  /\ down[d] = "read" /\ Len(text[d]) >= size[want[d]]
  /\ down' = [down EXCEPT ![d] = "done"]
  /\ UNCHANGED <<files, uploads, want, text, alone, torn, crashes>>

-----------------------------------------------------------------------------
(* The process ends in the middle of whatever it does and starts again.    *)
Crash ==
  /\ crashes < MaxCrashes
  /\ crashes' = crashes + 1
  /\ torn' = torn \cup {hash(body[u]) : u \in {v \in Uploads : up[v] = "write"}}
  /\ up' = [u \in Uploads |-> IF up[u] = "write" THEN "failed" ELSE up[u]]
  /\ down' = [d \in Downloads |-> IF down[d] = "read" THEN "failed" ELSE down[d]]
  /\ UNCHANGED <<files, body, pos, want, text, alone>>

Upload(u) == OpenFails(u) \/ Open(u) \/ Write(u) \/ WriteFails(u) \/ Accepted(u)

Download(d) == NotFound(d) \/ OpenToRead(d) \/ Read(d) \/ EndOfFile(d)

Next == (\E u \in Uploads : Upload(u)) \/ (\E d \in Downloads : Download(d)) \/ Crash

Spec == Init /\ [][Next]_vars

-----------------------------------------------------------------------------
(* Properties.                                                             *)

(* Every variable has its type; no file grows longer than its content.     *)
TypeOK ==
  /\ disk \in [Names -> [1..Blocks -> Contents \cup {"hole"}]]
  /\ size \in [Names -> 0..Blocks] /\ exists \subseteq Names
  /\ up \in [Uploads -> {"new", "write", "accepted", "failed"}]
  /\ body \in [Uploads -> Contents] /\ pos \in [Uploads -> 0..Blocks]
  /\ down \in [Downloads -> {"new", "read", "done", "failed"}]
  /\ want \in [Downloads -> Names]
  /\ text \in [Downloads -> Seq(Contents \cup {"hole"})]
  /\ alone \in [Downloads -> BOOLEAN]
  /\ torn \subseteq Names /\ crashes \in 0..MaxCrashes

(* The blocks bs are the whole content that the name n is the hash of.     *)
IsWhole(bs, n) == \E c \in Contents : hash(c) = n /\ bs = [i \in 1..Blocks |-> c]

(* However uploads of the same content overlap, truncating each other's    *)
(* file, the file is whole when all are through, if none failed in it.     *)
UploadsConverge ==
  \A n \in exists : Writing(n) = {} /\ n \notin torn => IsWhole(disk[n], n)

(* A download that overlaps no upload of its file, and follows none that   *)
(* failed in it, returns the content its hash names.                       *)
ReadsAloneAreWhole ==
  \A d \in Downloads : down[d] = "done" /\ alone[d] => IsWhole(text[d], want[d])
=============================================================================
