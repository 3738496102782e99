----------------------------- MODULE PathDigest -----------------------------
(***************************************************************************)
(* path_digest (crates/rbm-r2/src/path_digest.rs): reads a window of       *)
(* decoded instructions once, in order, and keeps the events that matter   *)
(* to a path, the constants, and what immediate writes leave in buffers.   *)
(*                                                                         *)
(* An instruction is a record [addr, mn, type, indirect, consts, state,    *)
(* write]: consts the constants of its text in their order, state whether  *)
(* it writes through the state register, write the immediate write its     *)
(* text is, [base, offset, size, value], or NoWrite.  Its type is what the *)
(* code makes of radare2's type and of the text of the opcode together.    *)
(***************************************************************************)
EXTENDS ImmediateBuffers, Selection

CONSTANTS
  Listing,       \* the instructions pdj may answer with
  Window,        \* the number of entries pdj answers with
  RangeEnds,     \* values of range_end: an address, NotAnAddress or NoEnd
  StopSets,      \* values of stop_addresses, sets of addresses
  Markers,       \* the marker constants
  DigestEvents,  \* max_events, clamped
  SetupCap,      \* 8
  CallPreview,   \* 6
  MarkerPreview, \* 4
  SightCap,      \* 16, addresses kept for a constant
  NoStop,
  NotAnAddress,  \* a text that validate_value lets pass and no address
  NoEnd          \* no end asked for, or none that was read

ASSUME PathDigestAssumption ==
  /\ Window \in Nat /\ DigestEvents \in Nat \ {0}
  /\ SetupCap \in Nat /\ CallPreview \in 1 .. SetupCap
  /\ MarkerPreview \in 1 .. SetupCap /\ SightCap \in Nat \ {0}
  /\ RangeEnds \subseteq Nat \cup {NotAnAddress, NoEnd}
  /\ NoStop \notin Nat /\ NotAnAddress \notin Nat /\ NoEnd \notin Nat
  /\ \A ins \in Listing : ins.consts \in Seq({ins.consts[i] : i \in DOMAIN ins.consts})

VARIABLES
  pdPc,       \* "idle", "scan" or "done"
  rangeEnd, stops,
  fetched,    \* entries of the window looked at; the next one's address
  counted,    \* instruction_count
  digest,     \* the events: [at, kind, setup]
  digestCut,  \* event_truncated
  sights,     \* sights[c]: addresses kept for constant c
  markerHits, \* marker_hits
  buffers,    \* local_writes: buffers[base], bytes by offset
  setups,     \* the last setup instructions
  stopHit,    \* stop_hit
  listing     \* history: the instructions scanned, [at, ins]

pdVars == <<pdPc, rangeEnd, stops, fetched, counted, digest, digestCut, sights,
            markerHits, buffers, setups, stopHit, listing>>

-----------------------------------------------------------------------------

LastOf(s, n) == SubSeq(s, 1 + Max({0, Len(s) - n}), Len(s))

SetsUp(ins) == ins.mn \in {"push", "lea", "mov", "xor", "add", "sub"}

(* The kind of a control event; an instruction of another kind has none. *)
Control(ins) ==
  CASE ins.type = "call" \/ ins.mn = "call" -> "call"
    [] ~(ins.type = "call" \/ ins.mn = "call") /\ ins.type \in {"jmp", "cjmp", "ujmp"} ->
         IF ins.mn = "jmp" /\ ins.indirect THEN "indirect_jump" ELSE "jump"
    [] ins.type = "ret" -> "return"
    [] OTHER -> "none"

DigestRow(at, kind, setup) == [at |-> at, kind |-> kind, setup |-> setup]

(***************************************************************************)
(* The rows of one instruction, in the order the code pushes them: a       *)
(* marker for each marker constant, its control event, its state write.    *)
(***************************************************************************)
Rows(at, ins) ==
  LET marks == Kept(ins.consts, Markers)
      mark  == DigestRow(at, "marker", LastOf(setups, MarkerPreview))
      ctl   == DigestRow(at, Control(ins),
                         IF Control(ins) = "call" THEN LastOf(setups, CallPreview)
                         ELSE <<>>)
  IN  [i \in DOMAIN marks |-> mark]
      \o (IF Control(ins) = "none" THEN <<>> ELSE <<ctl>>)
      \o (IF ins.state THEN <<DigestRow(at, "state_write", <<>>)>> ELSE <<>>)

PushRows(rows) ==
  LET room == DigestEvents - Len(digest)
  IN  /\ digest' = digest \o SubSeq(rows, 1, Min({room, Len(rows)}))
      /\ digestCut' = (digestCut \/ Len(rows) > room)

RecordConstants(at, ins) ==
  /\ sights' = [c \in DOMAIN sights \cup ToSet(ins.consts) |->
                  LET had == IF c \in DOMAIN sights THEN sights[c] ELSE <<>>
                  IN  IF c \in ToSet(ins.consts) /\ Len(had) < SightCap
                      THEN Append(had, at) ELSE had]
  /\ markerHits' = markerHits
       \o LET marks == Kept(ins.consts, Markers)
          IN  [i \in DOMAIN marks |-> [at |-> at, constant |-> marks[i]]]

RecordWrite(w) == buffers' = AddWrite(buffers, w)

(* Mutant of UpdateSetups: a full window keeps its oldest rows. *)
KeepSetups(at, ins) ==
  setups' = IF SetsUp(ins) /\ Len(setups) < SetupCap THEN Append(setups, at)
            ELSE setups

UpdateSetups(at, ins) ==
  setups' = IF ~SetsUp(ins) THEN setups
            ELSE LastOf(Append(setups, at), SetupCap)

-----------------------------------------------------------------------------

DigestStart ==
  /\ pdPc = "idle"
  /\ pdPc' = "scan"
  /\ rangeEnd' \in RangeEnds
  /\ stops' \in StopSets
  /\ UNCHANGED <<fetched, counted, digest, digestCut, sights, markerHits,
                 buffers, setups, stopHit, listing>>

(* and_then(parse_addr_u64): an end that is no address is dropped, without *)
(* an error, as if none had been asked for.                                *)
EndRead == IF rangeEnd = NotAnAddress THEN NoEnd ELSE rangeEnd

PastRange(at) == EndRead # NoEnd /\ at >= EndRead

InRange == pdPc = "scan" /\ fetched < Window /\ ~PastRange(fetched)

(* An entry without an address is skipped. *)
DigestSkips ==
  /\ InRange
  /\ \E ins \in Listing : ~ins.addr
  /\ fetched' = fetched + 1
  /\ UNCHANGED <<pdPc, rangeEnd, stops, counted, digest, digestCut, sights,
                 markerHits, buffers, setups, stopHit, listing>>

(* The instruction at a stop address is the last one, and is still read. *)
DigestOp ==
  /\ InRange
  /\ fetched' = fetched + 1
  /\ counted' = counted + 1
  /\ \E ins \in Listing :
       /\ ins.addr
       /\ PushRows(Rows(fetched, ins))
       /\ RecordConstants(fetched, ins)
       /\ RecordWrite(ins.write)
       /\ UpdateSetups(fetched, ins)
       /\ listing' = Append(listing, [at |-> fetched, ins |-> ins])
  /\ IF fetched \in stops
     THEN stopHit' = fetched /\ pdPc' = "done"
     ELSE UNCHANGED <<stopHit, pdPc>>
  /\ UNCHANGED <<rangeEnd, stops>>

DigestEnds ==
  /\ pdPc = "scan"
  /\ ~InRange
  /\ pdPc' = "done"
  /\ UNCHANGED <<rangeEnd, stops, fetched, counted, digest, digestCut, sights,
                 markerHits, buffers, setups, stopHit, listing>>

DigestInit ==
  /\ pdPc = "idle"
  /\ rangeEnd = NoEnd /\ stops = {}
  /\ fetched = 0 /\ counted = 0
  /\ digest = <<>> /\ digestCut = FALSE
  /\ sights = <<>> /\ markerHits = <<>>
  /\ buffers = <<>> /\ setups = <<>>
  /\ stopHit = NoStop
  /\ listing = <<>>

DigestNext == DigestStart \/ DigestSkips \/ DigestOp \/ DigestEnds

DigestSpec == DigestInit /\ [][DigestNext]_pdVars

-----------------------------------------------------------------------------

DigestTypeOK ==
  /\ pdPc \in {"idle", "scan", "done"}
  /\ fetched \in 0 .. Window /\ counted \in 0 .. fetched
  /\ Len(digest) <= DigestEvents /\ Len(setups) <= SetupCap
  /\ \A c \in DOMAIN sights : Len(sights[c]) \in 1 .. SightCap

(***************************************************************************)
(* A digest covers exactly the instructions up to the first one at a stop  *)
(* address, that one included, or the end of the range when an address was *)
(* given for it, and stop_hit tells which: what lies behind a stop address *)
(* leaves no trace in the result.  An end that is no address bounds        *)
(* nothing: then a digest reads on to the end of the window.               *)
(***************************************************************************)
StopsWhereAsked ==
  /\ \A i \in DOMAIN listing :
       /\ rangeEnd \in RangeEnds \ {NotAnAddress, NoEnd} => listing[i].at < rangeEnd
       /\ listing[i].at \in stops <=> listing[i].at = stopHit
  /\ stopHit # NoStop => listing # <<>> /\ Last(listing).at = stopHit
  /\ pdPc = "done" /\ stopHit = NoStop =>
       fetched = IF rangeEnd \in {NotAnAddress, NoEnd} THEN Window
                 ELSE Min({Window, rangeEnd})

(***************************************************************************)
(* Events are in the order of the instructions, and the flag says whether  *)
(* any is missing: unless it is set, every call, jump, return, marker and  *)
(* state write that was read is among them, in that number.                *)
(***************************************************************************)
CountOf(at, kind) ==
  Cardinality({i \in DOMAIN digest : digest[i].at = at /\ digest[i].kind = kind})

EventsAreWhole ==
  /\ \A i, j \in DOMAIN digest : i < j => digest[i].at <= digest[j].at
  /\ ~digestCut =>
       \A k \in DOMAIN listing :
         LET ins == listing[k].ins
         IN  /\ CountOf(listing[k].at, "marker")
                  = Cardinality({c \in DOMAIN ins.consts : ins.consts[c] \in Markers})
             /\ Control(ins) # "none" => CountOf(listing[k].at, Control(ins)) = 1
             /\ ins.state => CountOf(listing[k].at, "state_write") = 1
  /\ digestCut => Len(digest) = DigestEvents

(***************************************************************************)
(* The setup shown with a call is the setup that was read before it: the   *)
(* nearest instructions that set something up, in their order.             *)
(***************************************************************************)
SetupsUpTo(at) ==
  {[at |-> a, ins |-> ins] : a \in 0 .. at - 1, ins \in {x \in Listing : SetsUp(x)}}

CallsShowNearestSetup ==
  \A i \in DOMAIN digest :
    digest[i].kind = "call" =>
      LET before == Kept(listing, SetupsUpTo(digest[i].at))
          near   == LastOf(before, CallPreview)
      IN  digest[i].setup = [k \in DOMAIN near |-> near[k].at]

(***************************************************************************)
(* A buffer the digest shows holds, at every offset, the byte of the last  *)
(* instruction that wrote there, and zero where none did; a base written   *)
(* through is left out only if all its bytes are zero, or it has one byte, *)
(* or its offsets are too far apart.                                       *)
(***************************************************************************)
Writes(w, b, o) == w # NoWrite /\ w.base = b /\ o \in Covered(w)

LastByte(b, o) ==
  LET writers == {k \in DOMAIN listing : Writes(listing[k].ins.write, b, o)}
  IN  IF writers = {} THEN 0
      ELSE LET w == listing[Max(writers)].ins.write
           IN  WrittenByte(w, o)

BuffersHoldLastWrites ==
  \A b \in DOMAIN buffers :
    IsShown(buffers[b]) =>
      \A i \in DOMAIN Contiguous(buffers[b]) :
        Contiguous(buffers[b])[i] = LastByte(b, Min(DOMAIN buffers[b]) + i - 1)

=============================================================================
