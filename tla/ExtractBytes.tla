---------------------------- MODULE ExtractBytes ----------------------------
(***************************************************************************)
(* r2_extract_bytes writing what it read to a file of the client's choice  *)
(* (crates/rbm-server/src/server.rs, support.rs), with several requests at *)
(* once, some for the same path.                                           *)
(*                                                                         *)
(* The steps of write_extracted_bytes are those of the file system: test   *)
(* for existence, make the parent, open with truncation, write.            *)
(***************************************************************************)
EXTENDS Integers, Sequences

CONSTANTS
  Requests,
  Paths,     \* the output paths, each in a directory of its own
  Data,      \* what a request may have read: sequences of bytes
  Nothing

ASSUME ExtractAssumption ==
  /\ Data \subseteq Seq(Nat)
  /\ Nothing \notin Paths
  /\ Nothing \notin Seq(Nat)

VARIABLES
  file,     \* file[p]: the bytes of the file at p, or Nothing
  parent,   \* parent[p]: the directory of p is "missing", "there" or "blocked"
  exPc,       \* where request r is, or how it ended
  path,     \* path[r]: its out_path, Nothing if it has none
  clobber,  \* clobber[r]: its overwrite flag
  bytes,    \* bytes[r]: what it read
  existed   \* existed[r]: the file was there when it looked

(* History: the paths on which two requests were ever writing at once or a
   write has failed, and the requests that truncated a file. *)
VARIABLES crossed, replaced

request == <<path, clobber, bytes>>
exVars    == <<file, parent, exPc, request, existed, crossed, replaced>>

GoesTo(r, label) == exPc' = [exPc EXCEPT ![r] = label]

Busy(p) == {r \in Requests : exPc[r] \in {"test", "parent", "open", "write"} /\ path[r] = p}

-----------------------------------------------------------------------------

(* Mutant of Extract: an empty out_path is taken for a path. *)
ExtractTestsAnyPath(r, p, flag, data) ==
  /\ exPc[r] = "idle"
  /\ path' = [path EXCEPT ![r] = p]
  /\ clobber' = [clobber EXCEPT ![r] = flag]
  /\ bytes' = [bytes EXCEPT ![r] = data]
  /\ GoesTo(r, "test")
  /\ crossed' = IF p # Nothing /\ Busy(p) # {} THEN crossed \cup {p} ELSE crossed
  /\ UNCHANGED <<file, parent, existed, replaced>>

(* The request has its bytes: r2's answers are decoded, and without an
   out_path that is all; overwrite defaults to true. *)
Extract(r, p, flag, data) ==
  /\ exPc[r] = "idle"
  /\ path' = [path EXCEPT ![r] = p]
  /\ clobber' = [clobber EXCEPT ![r] = flag]
  /\ bytes' = [bytes EXCEPT ![r] = data]
  /\ GoesTo(r, IF p = Nothing THEN "extracted" ELSE "test")
  /\ crossed' = IF p # Nothing /\ Busy(p) # {} THEN crossed \cup {p} ELSE crossed
  /\ UNCHANGED <<file, parent, existed, replaced>>

(* A count out of range, an error of r2, or an answer that is not an even
   number of hex digits. *)
ExtractFails(r) ==
  /\ exPc[r] = "idle"
  /\ GoesTo(r, "error")
  /\ UNCHANGED <<file, parent, request, existed, crossed, replaced>>

(* Mutant of TestExists: overwrite is not looked at. *)
TestExistsOnly(r) ==
  /\ exPc[r] = "test"
  /\ existed' = [existed EXCEPT ![r] = file[path[r]] # Nothing]
  /\ GoesTo(r, "parent")
  /\ UNCHANGED <<file, parent, request, crossed, replaced>>

TestExists(r) ==
  /\ exPc[r] = "test"
  /\ existed' = [existed EXCEPT ![r] = file[path[r]] # Nothing]
  /\ GoesTo(r, IF existed'[r] /\ ~clobber[r] THEN "refused" ELSE "parent")
  /\ UNCHANGED <<file, parent, request, crossed, replaced>>

(* create_dir_all *)
MakeParent(r) ==
  /\ exPc[r] = "parent"
  /\ IF parent[path[r]] = "blocked"
     THEN GoesTo(r, "error") /\ UNCHANGED parent
     ELSE GoesTo(r, "open") /\ parent' = [parent EXCEPT ![path[r]] = "there"]
  /\ UNCHANGED <<file, request, existed, crossed, replaced>>

(* Mutant of Truncate: the file is opened without being emptied. *)
OpenOnly(r) ==
  /\ exPc[r] = "open"
  /\ replaced' = IF file[path[r]] = Nothing THEN replaced ELSE replaced \cup {r}
  /\ file' = [file EXCEPT ![path[r]] = IF @ = Nothing THEN <<>> ELSE @]
  /\ GoesTo(r, "write")
  /\ UNCHANGED <<parent, request, existed, crossed>>

(* fs::write opens the file, which makes or empties it. *)
Truncate(r) ==
  /\ exPc[r] = "open"
  /\ replaced' = IF file[path[r]] = Nothing THEN replaced ELSE replaced \cup {r}
  /\ file' = [file EXCEPT ![path[r]] = <<>>]
  /\ GoesTo(r, "write")
  /\ UNCHANGED <<parent, request, existed, crossed>>

(* The file cannot be opened. *)
OpenFails(r) ==
  /\ exPc[r] = "open"
  /\ GoesTo(r, "error")
  /\ UNCHANGED <<file, parent, request, existed, crossed, replaced>>

(* A write from the beginning of a file over what is in it. *)
Over(new, old) == new \o SubSeq(old, Len(new) + 1, Len(old))

(* All the bytes are written. *)
WriteBytes(r) ==
  /\ exPc[r] = "write"
  /\ file' = [file EXCEPT ![path[r]] = Over(bytes[r], @)]
  /\ GoesTo(r, "written")
  /\ UNCHANGED <<parent, request, existed, crossed, replaced>>

(* The disk is full after some of them. *)
WriteBytesFails(r) ==
  /\ exPc[r] = "write"
  /\ \E n \in 0 .. Len(bytes[r]) :
       file' = [file EXCEPT ![path[r]] = Over(SubSeq(bytes[r], 1, n), @)]
  /\ GoesTo(r, "error")
  /\ crossed' = crossed \cup {path[r]}
  /\ UNCHANGED <<parent, request, existed, replaced>>

-----------------------------------------------------------------------------

ExtractInit ==
  /\ file \in [Paths -> Data \cup {Nothing}]
  /\ parent \in [Paths -> {"missing", "there", "blocked"}]
  /\ \A p \in Paths : file[p] # Nothing => parent[p] = "there"
  /\ exPc = [r \in Requests |-> "idle"]
  /\ path = [r \in Requests |-> Nothing]
  /\ clobber = [r \in Requests |-> TRUE]
  /\ bytes = [r \in Requests |-> <<>>]
  /\ existed = [r \in Requests |-> FALSE]
  /\ crossed = {}
  /\ replaced = {}

ExtractNext ==
  \E r \in Requests :
    \/ \E p \in Paths \cup {Nothing}, flag \in BOOLEAN, data \in Data :
         Extract(r, p, flag, data)
    \/ ExtractFails(r)
    \/ TestExists(r)
    \/ MakeParent(r)
    \/ Truncate(r)
    \/ OpenFails(r)
    \/ WriteBytes(r)
    \/ WriteBytesFails(r)

ExtractSpec == ExtractInit /\ [][ExtractNext]_exVars

-----------------------------------------------------------------------------
(* Properties                                                              *)

(* Every variable has its type. *)
ExtractTypeOK ==
  /\ file \in [Paths -> Seq(Nat) \cup {Nothing}]
  /\ parent \in [Paths -> {"missing", "there", "blocked"}]
  /\ exPc \in [Requests -> {"idle", "test", "parent", "open", "write",
                          "extracted", "written", "refused", "error"}]
  /\ path \in [Requests -> Paths \cup {Nothing}]
  /\ \A r \in Requests :
       exPc[r] \in {"test", "parent", "open", "write", "written", "refused"} =>
         path[r] \in Paths
  /\ clobber \in [Requests -> BOOLEAN]
  /\ bytes \in [Requests -> Data \cup {<<>>}]
  /\ existed \in [Requests -> BOOLEAN]
  /\ crossed \subseteq Paths
  /\ replaced \subseteq Requests

(* As long as requests for one path take turns and no write fails, what the
   file there holds is what some request reported as written, or what it held
   to begin with: the digest a client is given is that of the file, until
   another request for the path. *)
TurnsHoldWhatTheyReport ==
  \A p \in Paths \ crossed :
    (Busy(p) = {} /\ \E r \in Requests : exPc[r] = "written" /\ path[r] = p) =>
      \E r \in Requests :
        exPc[r] = "written" /\ path[r] = p /\ file[p] = bytes[r]

(* Under the same condition what is reported as overwrote is right, and a
   request with overwrite=false replaces no file. *)
TurnsTellOverwrites ==
  \A r \in Requests :
    (exPc[r] = "written" /\ path[r] \notin crossed) =>
      /\ existed[r] <=> r \in replaced
      /\ r \in replaced => clobber[r]

(* Requests that take turns on a path leave the file they report, and say so
   when they wrote over one (write_extracted_bytes). *)
TurnsReportTruly == TurnsHoldWhatTheyReport /\ TurnsTellOverwrites

(* The refusal "out_path exists and overwrite=false" says that overwrite=false
   does not write over what exists: whoever else writes, no request with
   overwrite=false replaces a file. *)
NeverClobbers == \A r \in replaced : clobber[r]
=============================================================================
