---------------------------- MODULE OutputGuard ----------------------------
(***************************************************************************)
(* Large tool outputs (crates/rbm-core/src/output_guard.rs): handlers on   *)
(* several threads write texts too long to inline to files of one overflow *)
(* directory, and each of them then removes the files that have expired.   *)
(*                                                                         *)
(* The file a call makes has a name of its own, here the call itself.      *)
(***************************************************************************)
EXTENDS Integers, SequencesExt

CONSTANTS
  Guards,     \* calls of guard_str
  Texts,      \* texts, as sequences of the widths of their characters in UTF-8
  MaxInline,  \* max_inline_chars, a number of bytes
  Preview,    \* OVERFLOW_PREVIEW_CHARS, a number of bytes
  TTL,        \* the age above which a file has expired
  MaxCall,    \* how long a call takes at most
  MaxTime,    \* bound of the clock
  Faults,     \* the system calls that may fail, of AllFaults
  None

AllFaults == {"create", "write", "keep", "list", "stat", "remove"}

(***************************************************************************)
(* A call that took longer than TTL could have its file removed while it   *)
(* writes it; TTL is an hour.                                              *)
(***************************************************************************)
ASSUME GuardAssumption ==
  /\ Texts \subseteq Seq(1 .. 4)
  /\ MaxInline \in Nat /\ Preview \in Nat /\ TTL \in Nat /\ MaxTime \in Nat
  /\ MaxCall \in 0 .. TTL
  /\ Faults \subseteq AllFaults
  /\ None \notin Nat
  /\ None \notin Guards

VARIABLES
  clock,   \* the time, which the file system shares
  files,   \* files[g]: when the file of g was last written, None if no file
  pc,      \* where call g is
  text,    \* text[g]: the text call g guards
  began,   \* began[g]: when g was called
  now,     \* now[g]: the time cleanup_expired of g started
  listed,  \* listed[g]: the directory entries g has still to look at
  doomed,  \* doomed[g]: the entry g has found expired and is removing
  swept    \* history: swept[g], the entries g listed, read and did not fail to remove

vars == <<clock, files, pc, text, began, now, listed, doomed, swept>>

Goto(g, label) == pc' = [pc EXCEPT ![g] = label]

Bytes(t) == FoldLeft(LAMBDA n, width : n + width, 0, t)

(* The byte positions at which a text can be cut. *)
Boundaries(t) == {Bytes(SubSeq(t, 1, i)) : i \in 0 .. Len(t)}

Present == {f \in Guards : files[f] # None}

-----------------------------------------------------------------------------

Tick ==
  /\ clock < MaxTime
  /\ \A g \in Guards :
       pc[g] \in {"create", "write", "keep", "list", "sweep", "report"} =>
         clock - began[g] < MaxCall
  /\ clock' = clock + 1
  /\ UNCHANGED <<files, pc, text, began, now, listed, doomed, swept>>

Call(g, t) ==
  /\ pc[g] = "idle"
  /\ text' = [text EXCEPT ![g] = t]
  /\ began' = [began EXCEPT ![g] = clock]
  /\ Goto(g, IF Bytes(t) <= MaxInline THEN "inline" ELSE "create")
  /\ UNCHANGED <<clock, files, now, listed, doomed, swept>>

(* tempfile_in *)
Create(g) ==
  /\ pc[g] = "create"
  /\ files' = [files EXCEPT ![g] = clock]
  /\ Goto(g, "write")
  /\ UNCHANGED <<clock, text, began, now, listed, doomed, swept>>

(* write_all: the file may have been unlinked. *)
Write(g) ==
  /\ pc[g] = "write"
  /\ files' = [files EXCEPT ![g] = IF @ = None THEN None ELSE clock]
  /\ Goto(g, "keep")
  /\ UNCHANGED <<clock, text, began, now, listed, doomed, swept>>

(* keep: from here on the file is not removed with its handle. *)
Keep(g) ==
  /\ pc[g] = "keep"
  /\ Goto(g, "list")
  /\ UNCHANGED <<clock, files, text, began, now, listed, doomed, swept>>

(* The error is returned and the handle, if there is one, removes its file. *)
Fault(g) ==
  /\ pc[g] \in {"create", "write", "keep"} \cap Faults
  /\ files' = [files EXCEPT ![g] = None]
  /\ Goto(g, "error")
  /\ UNCHANGED <<clock, text, began, now, listed, doomed, swept>>

(* Mutant of List: the time files expire at is computed here, and underflows. *)
ListCutoff(g) ==
  /\ pc[g] = "list"
  /\ now' = [now EXCEPT ![g] = clock - TTL]
  /\ listed' = [listed EXCEPT ![g] = Present]
  /\ swept' = [swept EXCEPT ![g] = Present]
  /\ Goto(g, "sweep")
  /\ UNCHANGED <<clock, files, text, began, doomed>>

(* cleanup_expired reads the time and opens the directory; an error there, or
   in reading one of its entries, or in a removal, is ignored. *)
List(g) ==
  /\ pc[g] = "list"
  /\ now' = [now EXCEPT ![g] = clock]
  /\ \/ /\ listed' = [listed EXCEPT ![g] = Present]
        /\ swept' = [swept EXCEPT ![g] = Present]
     \/ /\ "list" \in Faults
        /\ UNCHANGED <<listed, swept>>
  /\ Goto(g, "sweep")
  /\ UNCHANGED <<clock, files, text, began, doomed>>

(* Mutant of Expired: a file expires at TTL, not above it. *)
ExpiredAtTTL(f, time) == files[f] # None /\ time - files[f] >= TTL

Expired(f, time) == files[f] # None /\ time - files[f] > TTL

(* An entry's metadata and its time of modification are read; another call
   may have removed it. An entry that cannot be read is passed over. *)
Examine(g, f) ==
  /\ pc[g] = "sweep"
  /\ doomed[g] = None
  /\ f \in listed[g]
  /\ listed' = [listed EXCEPT ![g] = @ \ {f}]
  /\ \/ /\ doomed' = [doomed EXCEPT ![g] = IF Expired(f, now[g]) THEN f ELSE None]
        /\ UNCHANGED swept
     \/ /\ "stat" \in Faults
        /\ swept' = [swept EXCEPT ![g] = @ \ {f}]
        /\ UNCHANGED doomed
  /\ UNCHANGED <<clock, files, pc, text, began, now>>

RemoveFile(g) ==
  LET f == doomed[g] IN
  /\ f # None
  /\ \/ /\ files' = [files EXCEPT ![f] = None]
        /\ UNCHANGED swept
     \/ /\ "remove" \in Faults
        /\ swept' = [swept EXCEPT ![g] = @ \ {f}]
        /\ UNCHANGED files
  /\ doomed' = [doomed EXCEPT ![g] = None]
  /\ UNCHANGED <<clock, pc, text, began, now, listed>>

(* Mutant of Swept: the clean-up ends after any entry. *)
SweptEarly(g) ==
  /\ pc[g] = "sweep"
  /\ doomed[g] = None
  /\ listed' = [listed EXCEPT ![g] = {}]
  /\ Goto(g, "report")
  /\ UNCHANGED <<clock, files, text, began, now, doomed, swept>>

Swept(g) ==
  /\ pc[g] = "sweep"
  /\ listed[g] = {}
  /\ doomed[g] = None
  /\ Goto(g, "report")
  /\ UNCHANGED <<clock, files, text, began, now, listed, doomed, swept>>

(* The preview is a slice of the text by bytes, which panics if it would cut
   a character. *)
Report(g) ==
  LET n == Min({Bytes(text[g]), Preview}) IN
  /\ pc[g] = "report"
  /\ Goto(g, IF n \in Boundaries(text[g]) THEN "reported" ELSE "panicked")
  /\ text' = [text EXCEPT ![g] = <<>>]
  /\ now' = [now EXCEPT ![g] = 0]
  /\ swept' = [swept EXCEPT ![g] = {}]
  /\ UNCHANGED <<clock, files, began, listed, doomed>>

-----------------------------------------------------------------------------

Init ==
  /\ clock = 0
  /\ files = [g \in Guards |-> None]
  /\ pc = [g \in Guards |-> "idle"]
  /\ text = [g \in Guards |-> <<>>]
  /\ began = [g \in Guards |-> 0]
  /\ now = [g \in Guards |-> 0]
  /\ listed = [g \in Guards |-> {}]
  /\ doomed = [g \in Guards |-> None]
  /\ swept = [g \in Guards |-> {}]

Next ==
  \/ Tick
  \/ \E g \in Guards :
       \/ \E t \in Texts : Call(g, t)
       \/ Create(g) \/ Write(g) \/ Keep(g) \/ Fault(g)
       \/ List(g)
       \/ \E f \in Guards : Examine(g, f)
       \/ RemoveFile(g) \/ Swept(g) \/ Report(g)

Spec == Init /\ [][Next]_vars

-----------------------------------------------------------------------------
(* Properties                                                              *)

Labels ==
  {"idle", "inline", "create", "write", "keep", "list", "sweep", "report",
   "reported", "panicked", "error"}

(* Every variable has its type. *)
TypeOK ==
  /\ clock \in 0 .. MaxTime
  /\ files \in [Guards -> Nat \cup {None}]
  /\ pc \in [Guards -> Labels]
  /\ text \in [Guards -> Texts \cup {<<>>}]
  /\ began \in [Guards -> 0 .. MaxTime]
  /\ now \in [Guards -> 0 .. MaxTime]
  /\ listed \in [Guards -> SUBSET Guards]
  /\ doomed \in [Guards -> Guards \cup {None}]
  /\ swept \in [Guards -> SUBSET Guards]

(* A file whose path a client has been given is there for TTL after the call
   that wrote it, whatever other calls clean up meanwhile. *)
ReportedStays ==
  \A g \in Guards :
    (pc[g] = "reported" /\ clock - began[g] <= TTL) => files[g] # None

(* When a call returns, whatever had expired when its clean-up began is gone,
   except for entries it could not list, whose age it could not read, or which
   it could not remove: one entry that fails keeps no other from being removed
   (cleanup_expired). *)
SweepIsThorough ==
  \A g \in Guards : pc[g] = "report" =>
    \A f \in swept[g] : ~Expired(f, now[g])

(* guard_str's comment: it returns either inline content or an overflow
   summary, and an error only if the overflow file cannot be written. *)
GuardReturns == \A g \in Guards : pc[g] # "panicked"
=============================================================================
