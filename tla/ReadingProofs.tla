---------------------------- MODULE ReadingProofs ----------------------------
(***************************************************************************)
(* Proofs about the tools that read bytes back, for any listing, any caps  *)
(* and any answers of radare2: PathDigest, JumpTable and ArtifactEmulator. *)
(***************************************************************************)
EXTENDS PathDigest, JumpTable, ArtifactEmulator, SelectionProofs

-----------------------------------------------------------------------------
(***************************************************************************)
(* PathDigest: what a path does.                                           *)
(***************************************************************************)

-----------------------------------------------------------------------------
(* The end of a sequence *)

(* How many of len rows are left out to show the last n. *)
Drop(len, n) == IF len > n THEN len - n ELSE 0

LEMMA LastOfIs ==
  ASSUME NEW s, IsSeq(s), NEW n \in Nat
  PROVE  /\ IsSeq(LastOf(s, n)) /\ Drop(Len(s), n) \in 0 .. Len(s)
         /\ Len(LastOf(s, n)) = Len(s) - Drop(Len(s), n) /\ Len(LastOf(s, n)) <= n
         /\ \A k \in 1 .. Len(LastOf(s, n)) : LastOf(s, n)[k] = s[Drop(Len(s), n) + k]
<1> DEFINE T == {0, Len(s) - n}
<1>1. PICK len \in Nat : len = Len(s)
  BY SeqIs
<1>2. PICK d \in 0 .. len : d = Drop(len, n) /\ len - d <= n
  <2>1. Drop(len, n) \in 0 .. len /\ len - Drop(len, n) <= n
    BY <1>1 DEF Drop
  <2> QED
    BY <2>1
<1>3. Max({0, len - n}) = d
  <2> DEFINE x == CHOOSE x \in {0, len - n} : \A y \in {0, len - n} : x >= y
  <2>1. d \in {0, len - n} /\ \A y \in {0, len - n} : d >= y
    BY <1>1, <1>2 DEF Drop
  <2>2. x \in {0, len - n} /\ \A y \in {0, len - n} : x >= y
    BY <2>1
  <2> HIDE DEF x
  <2>3. x = d
    BY <1>1, <1>2, <2>1, <2>2
  <2> QED
    BY <2>3 DEF Max, x
<1>4. LastOf(s, n) = SubSeq(s, 1 + d, len)
  BY <1>1, <1>3 DEF LastOf
<1>5. PICK S : s \in Seq(S)
  BY DEF IsSeq
<1>6. \A i \in 1 + d .. len : s[i] \in S
  BY <1>1, <1>2, <1>5, ElementOfSeq
<1>7. 1 + d \in Int /\ len \in Int
  BY <1>1, <1>2
<1>8. /\ SubSeq(s, 1 + d, len) \in Seq(S)
      /\ Len(SubSeq(s, 1 + d, len)) = IF 1 + d <= len THEN len - (1 + d) + 1 ELSE 0
      /\ \A i \in 1 .. len - (1 + d) + 1 : SubSeq(s, 1 + d, len)[i] = s[1 + d + i - 1]
  BY <1>6, <1>7, SubSeqProperties
<1>9. IsSeq(LastOf(s, n))
  BY <1>4, <1>8 DEF IsSeq
<1>10. Len(LastOf(s, n)) = len - d
  BY <1>1, <1>2, <1>4, <1>8
<1>11. \A k \in 1 .. len - d : LastOf(s, n)[k] = s[d + k]
  <2> TAKE k \in 1 .. len - d
  <2>1. k \in 1 .. len - (1 + d) + 1 /\ 1 + d + k - 1 = d + k
    BY <1>1, <1>2
  <2> QED
    BY <1>4, <1>8, <2>1
<1> QED
  BY <1>1, <1>2, <1>9, <1>10, <1>11

-----------------------------------------------------------------------------
(* What has been read *)

ListingRow == [at : 0 .. Window - 1, ins : {ins \in Listing : ins.addr}]

(* The instructions read are those in range so far that have an address. *)
ReadInv ==
  /\ listing \in Seq(ListingRow)
  /\ rangeEnd \in Nat \cup {NotAnAddress, NoEnd}
  /\ fetched \in 0 .. Window /\ (EndRead # NoEnd => fetched <= EndRead)
  /\ counted = Len(listing) /\ counted <= fetched
  /\ \A i \in 1 .. Len(listing) : listing[i].at < fetched
  /\ pdPc = "idle" => fetched = 0 /\ counted = 0

(* The digest ends at the first stop it reads, or at its end. *)
StopInv ==
  /\ \A i \in 1 .. Len(listing) : listing[i].at \in stops <=> listing[i].at = stopHit
  /\ stopHit # NoStop =>
       /\ pdPc = "done" /\ Len(listing) # 0 /\ listing[Len(listing)].at = stopHit
  /\ pdPc = "done" /\ stopHit = NoStop => ~ (fetched < Window /\ ~PastRange(fetched))

(* The end that bounds a digest, if there is one, is an address.           *)
LEMMA EndIsAnAddress ==
  ASSUME rangeEnd \in Nat \cup {NotAnAddress, NoEnd}, fetched \in Nat
  PROVE  /\ EndRead # NoEnd <=> rangeEnd \notin {NotAnAddress, NoEnd}
         /\ EndRead # NoEnd => EndRead = rangeEnd /\ rangeEnd \in Nat
         /\ PastRange(fetched) <=> EndRead # NoEnd /\ ~(fetched < EndRead)
<1>1. EndRead # NoEnd => EndRead = rangeEnd /\ rangeEnd \in Nat
  BY DEF EndRead
<1>2. PastRange(fetched) <=> EndRead # NoEnd /\ ~(fetched < EndRead)
  <2>1. CASE EndRead = NoEnd
    BY <2>1 DEF PastRange
  <2>2. CASE EndRead # NoEnd
    <3>1. PICK e \in Nat : e = EndRead
      BY <1>1, <2>2
    <3>2. fetched >= e <=> ~(fetched < e)
      OBVIOUS
    <3> QED
      BY <2>2, <3>1, <3>2 DEF PastRange
  <2> QED
    BY <2>1, <2>2
<1> QED
  BY <1>1, <1>2 DEF EndRead

LEMMA RowsOfListing ==
  ASSUME NEW ins \in Listing, ins.addr, fetched \in 0 .. Window, InRange,
         NEW e, e = [at |-> fetched, ins |-> ins]
  PROVE  e \in ListingRow /\ e.at = fetched /\ e.ins = ins
BY PathDigestAssumption DEF ListingRow, InRange

LEMMA ReadStep ==
  ASSUME ReadInv, StopInv, DigestOp
  PROVE  ReadInv' /\ StopInv'
<1>1. PICK ins, e :
        ins \in Listing /\ ins.addr /\ e = [at |-> fetched, ins |-> ins] /\ listing' = Append(listing, e)
  BY DEF DigestOp
<1>2. /\ InRange /\ fetched' = fetched + 1 /\ counted' = counted + 1
      /\ rangeEnd' = rangeEnd /\ stops' = stops
      /\ IF fetched \in stops THEN stopHit' = fetched /\ pdPc' = "done"
         ELSE stopHit' = stopHit /\ pdPc' = pdPc
  BY DEF DigestOp
<1>3. /\ listing \in Seq(ListingRow) /\ rangeEnd \in Nat \cup {NotAnAddress, NoEnd}
      /\ fetched \in 0 .. Window /\ fetched \in Nat
      /\ counted = Len(listing) /\ counted <= fetched
      /\ \A i \in 1 .. Len(listing) : listing[i].at < fetched
  BY PathDigestAssumption DEF ReadInv
<1>4. e \in ListingRow /\ e.at = fetched
  BY <1>1, <1>2, <1>3, RowsOfListing
<1>5. PICK n \in Nat : n = Len(listing)
  BY <1>3, LenProperties
<1>6. /\ listing' \in Seq(ListingRow) /\ Len(listing') = n + 1 /\ listing'[n + 1] = e
      /\ \A i \in 1 .. n : listing'[i] = listing[i]
  BY <1>1, <1>3, <1>4, <1>5, AppendProperties
<1>7. \A i \in 1 .. n + 1 : i = n + 1 \/ i \in 1 .. n
  BY <1>5
<1>8. /\ fetched < Window /\ pdPc = "scan" /\ pdPc' \in {"scan", "done"}
      /\ EndRead # NoEnd => fetched < EndRead /\ EndRead \in Nat
  BY <1>2, <1>3, EndIsAnAddress DEF InRange
<1>9. ReadInv'
  <2>1. \A i \in 1 .. n : listing[i].at \in Nat
    <3>1. \A i \in 1 .. n : listing[i] \in ListingRow
      BY <1>3, <1>5, ElementOfSeq
    <3> QED
      BY <3>1 DEF ListingRow
  <2>2. \A i \in 1 .. n + 1 : listing'[i].at < fetched + 1
    BY <1>3, <1>4, <1>5, <1>6, <1>7, <2>1
  <2>3. fetched + 1 \in 0 .. Window /\ (EndRead # NoEnd => fetched + 1 <= EndRead)
    BY <1>3, <1>8, PathDigestAssumption
  <2>5. EndRead' = EndRead
    BY <1>2 DEF EndRead
  <2>4. counted' = Len(listing') /\ counted' <= fetched'
    BY <1>2, <1>3, <1>5, <1>6
  <2> QED
    BY <1>2, <1>3, <1>6, <1>8, <2>2, <2>3, <2>4, <2>5 DEF ReadInv
<1>10. StopInv'
  <2>1. stopHit = NoStop
    BY <1>8 DEF StopInv
  <2>2. \A i \in 1 .. n : listing[i].at \notin stops
    <3>1. \A i \in 1 .. n : listing[i].at \in Nat
      <4>1. \A i \in 1 .. n : listing[i] \in ListingRow
        BY <1>3, <1>5, ElementOfSeq
      <4> QED
        BY <4>1 DEF ListingRow
    <3> QED
      BY <1>5, <2>1, <3>1, PathDigestAssumption DEF StopInv
  <2>3. \A i \in 1 .. n : listing[i].at # fetched /\ listing[i].at # NoStop
    <3>1. \A i \in 1 .. n : listing[i].at \in Nat
      <4>1. \A i \in 1 .. n : listing[i] \in ListingRow
        BY <1>3, <1>5, ElementOfSeq
      <4> QED
        BY <4>1 DEF ListingRow
    <3> QED
      BY <1>3, <1>5, <3>1, PathDigestAssumption
  <2>4. fetched # NoStop
    BY <1>3, PathDigestAssumption
  <2>5. CASE fetched \in stops
    <3>1. stopHit' = fetched /\ pdPc' = "done"
      BY <1>2, <2>5
    <3>2. \A i \in 1 .. n + 1 : listing'[i].at \in stops <=> listing'[i].at = fetched
      BY <1>4, <1>6, <1>7, <2>2, <2>3, <2>5
    <3>3. Len(listing') # 0 /\ listing'[Len(listing')].at = fetched
      BY <1>4, <1>5, <1>6
    <3> QED
      BY <1>2, <1>6, <2>4, <3>1, <3>2, <3>3 DEF StopInv
  <2>6. CASE fetched \notin stops
    <3>1. stopHit' = NoStop /\ pdPc' = "scan"
      BY <1>2, <1>8, <2>1, <2>6
    <3>2. \A i \in 1 .. n + 1 : listing'[i].at \notin stops /\ listing'[i].at # NoStop
      BY <1>4, <1>6, <1>7, <2>2, <2>3, <2>4, <2>6
    <3> QED
      BY <1>2, <1>6, <3>1, <3>2 DEF StopInv
  <2> QED
    BY <2>5, <2>6
<1> QED
  BY <1>9, <1>10

-----------------------------------------------------------------------------
(* The rows of an instruction *)

(* How many marker rows an instruction adds. *)
Marks(ins) == Len(Kept(ins.consts, Markers))

LEMMA MarksAre ==
  ASSUME NEW ins \in Listing
  PROVE  /\ Marks(ins) \in Nat /\ IsSeq(Kept(ins.consts, Markers))
         /\ Marks(ins) = Cardinality({c \in DOMAIN ins.consts : ins.consts[c] \in Markers})
<1>1. PICK S, s : s = ins.consts /\ s \in Seq(S)
  BY PathDigestAssumption
<1>2. Len(s) \in Nat /\ DOMAIN s = 1 .. Len(s)
  BY <1>1, LenProperties
<1>3. Len(Kept(s, Markers)) = Cardinality(PlacesIn(s, Markers, Len(s)))
  BY <1>1, KeptIsRight DEF KeptRight, Kept
<1>4. PlacesIn(s, Markers, Len(s)) = {c \in DOMAIN s : s[c] \in Markers}
  BY <1>2 DEF PlacesIn
<1>5. Kept(s, Markers) \in Seq(S)
  BY <1>1, KeptIsSeq
<1> QED
  BY <1>1, <1>3, <1>4, <1>5, LenProperties DEF Marks, IsSeq

LEMMA KindsAre ==
  ASSUME NEW ins
  PROVE  Control(ins) \in {"call", "indirect_jump", "jump", "return", "none"}
BY DEF Control

(* The rows of an instruction: its markers, then its transfer, then the *)
(* rest.                                                                *)
RowsRight(rows, at, ins) ==
  /\ IsSeq(rows)
  /\ \A j \in 1 .. Len(rows) :
       /\ rows[j].at = at
       /\ rows[j].kind = "marker" <=> j \in 1 .. Marks(ins)
       /\ Control(ins) # "none" => (rows[j].kind = Control(ins) <=> j = Marks(ins) + 1)
       /\ ins.state => (rows[j].kind = "state_write" <=> j = Len(rows))
       /\ rows[j].kind = "call" => rows[j].setup = LastOf(setups, CallPreview)
  /\ Marks(ins) <= Len(rows)
  /\ Control(ins) # "none" => Marks(ins) + 1 <= Len(rows)
  /\ ins.state => Len(rows) # 0

LEMMA RowsAre ==
  ASSUME NEW ins \in Listing, NEW at
  PROVE  RowsRight(Rows(at, ins), at, ins)
<1> DEFINE marks == Kept(ins.consts, Markers)
           mark == DigestRow(at, "marker", LastOf(setups, MarkerPreview))
           ctl == DigestRow(at, Control(ins),
                            IF Control(ins) = "call" THEN LastOf(setups, CallPreview)
                            ELSE <<>>)
           write == DigestRow(at, "state_write", <<>>)
           a == [i \in DOMAIN marks |-> mark]
           b == IF Control(ins) = "none" THEN <<>> ELSE <<ctl>>
           c == IF ins.state THEN <<write>> ELSE <<>>
           m == Marks(ins)
<1>1. Rows(at, ins) = (a \o b) \o c
  BY DEF Rows
<1>2. /\ mark.at = at /\ mark.kind = "marker"
      /\ ctl.at = at /\ ctl.kind = Control(ins) /\ write.at = at /\ write.kind = "state_write"
      /\ Control(ins) = "call" => ctl.setup = LastOf(setups, CallPreview)
  BY DEF DigestRow
<1>3. m \in Nat /\ DOMAIN marks = 1 .. m
  BY MarksAre, SeqIs DEF Marks
<1> HIDE DEF mark, ctl, write, m, marks
<1>4. /\ DOMAIN a = 1 .. m /\ a = [i \in 1 .. m |-> a[i]] /\ \A i \in 1 .. m : a[i] = mark
  BY <1>3
<1>5. IsSeq(<<>>) /\ Len(<<>>) = 0
  BY EmptySeq DEF IsSeq
<1>6. IsSeq(<<ctl>>) /\ Len(<<ctl>>) = 1 /\ <<ctl>>[1] = ctl
  <2>1. <<ctl>> \in Seq({ctl})
    OBVIOUS
  <2> QED
    BY <2>1 DEF IsSeq
<1>7. IsSeq(<<write>>) /\ Len(<<write>>) = 1 /\ <<write>>[1] = write
  <2>1. <<write>> \in Seq({write})
    OBVIOUS
  <2> QED
    BY <2>1 DEF IsSeq
<1>8. IsSeq(b) /\ IF Control(ins) = "none" THEN Len(b) = 0 ELSE Len(b) = 1 /\ b[1] = ctl
  BY <1>5, <1>6
<1>9. /\ IsSeq(c) /\ (Len(c) = 0 \/ (Len(c) = 1 /\ c[1] = write))
      /\ ins.state => Len(c) = 1
  BY <1>5, <1>7
<1> HIDE DEF a, b, c
<1>10. IsSeq(a) /\ Len(a) = m
  BY <1>3, <1>4, MapIsSeq
<1>11. /\ IsSeq(a \o b) /\ Len(a \o b) = Len(a) + Len(b)
       /\ \A i \in 1 .. Len(a) : (a \o b)[i] = a[i]
       /\ \A i \in 1 .. Len(b) : (a \o b)[Len(a) + i] = b[i]
  <2>1. IsSeq(a) /\ IsSeq(b)
    BY <1>8, <1>10
  <2>2. IsSeq(a \o b) /\ Len(a \o b) = Len(a) + Len(b)
    BY <2>1, IsSeqConcat
  <2>3. \A i \in 1 .. Len(a) : (a \o b)[i] = a[i]
    BY <2>1, IsSeqConcat
  <2>4. \A i \in 1 .. Len(b) : (a \o b)[Len(a) + i] = b[i]
    BY <2>1, IsSeqConcat
  <2> QED
    BY <2>2, <2>3, <2>4
<1> DEFINE ab == a \o b
           n == Len(b)
<1>12. IsSeq(ab) /\ Len(ab) = m + n /\ n \in {0, 1}
       /\ (\A i \in 1 .. m : ab[i] = mark)
       /\ (n = 1 => ab[m + 1] = ctl)
       /\ (n = 1 <=> Control(ins) # "none")
  <2>1. n \in {0, 1} /\ (n = 1 => b[1] = ctl) /\ (n = 1 <=> Control(ins) # "none")
    <3>1. CASE Control(ins) = "none"
      BY <1>8, <3>1
    <3>2. CASE Control(ins) # "none"
      BY <1>8, <3>2
    <3> QED
      BY <3>1, <3>2
  <2>2. n = 1 => 1 \in 1 .. Len(b)
    OBVIOUS
  <2>3. n = 1 => (a \o b)[Len(a) + 1] = b[1]
    BY <1>11, <2>2
  <2>4. \A i \in 1 .. m : (a \o b)[i] = mark
    BY <1>4, <1>10, <1>11
  <2> QED
    BY <1>10, <1>11, <2>1, <2>3, <2>4
<1> HIDE DEF ab, n
<1> DEFINE rows == ab \o c
<1>13. /\ IsSeq(ab \o c) /\ Len(ab \o c) = Len(ab) + Len(c)
       /\ \A i \in 1 .. Len(ab) : (ab \o c)[i] = ab[i]
       /\ \A i \in 1 .. Len(c) : (ab \o c)[Len(ab) + i] = c[i]
  <2>1. IsSeq(ab) /\ IsSeq(c)
    BY <1>9, <1>12
  <2>2. /\ IsSeq(ab \o c) /\ Len(ab) \in Nat /\ Len(c) \in Nat
        /\ Len(ab \o c) = Len(ab) + Len(c)
        /\ DOMAIN (ab \o c) = 1 .. Len(ab) + Len(c)
        /\ \A i \in 1 .. Len(ab) : (ab \o c)[i] = ab[i]
        /\ \A i \in 1 .. Len(c) : (ab \o c)[Len(ab) + i] = c[i]
    BY <2>1, IsSeqConcat
  <2> QED
    BY <2>2
<1>14. PICK l \in {0, 1} : l = Len(c)
  BY <1>9
<1>15. /\ IsSeq(rows) /\ Len(rows) = m + n + l
       /\ \A i \in 1 .. m : rows[i] = mark
       /\ n = 1 => rows[m + 1] = ctl
       /\ l = 1 => rows[m + n + 1] = write
  <2>1. \A i \in 1 .. m : i \in 1 .. m + n
    BY <1>3, <1>12
  <2>2. n = 1 => m + 1 \in 1 .. m + n
    BY <1>3
  <2>3. l = 1 => c[1] = write /\ 1 \in 1 .. l
    BY <1>9, <1>14
  <2> QED
    BY <1>12, <1>13, <1>14, <2>1, <2>2, <2>3
<1> HIDE DEF rows
<1>16. \A j \in 1 .. Len(rows) :
         \/ j \in 1 .. m /\ rows[j] = mark
         \/ n = 1 /\ j = m + 1 /\ rows[j] = ctl
         \/ l = 1 /\ j = m + n + 1 /\ rows[j] = write
  BY <1>3, <1>12, <1>14, <1>15
<1>17. Control(ins) # "marker" /\ Control(ins) # "state_write"
  BY KindsAre
<1>18. ASSUME NEW j \in 1 .. Len(rows)
       PROVE  /\ rows[j].at = at
              /\ rows[j].kind = "marker" <=> j \in 1 .. m
              /\ Control(ins) # "none" => (rows[j].kind = Control(ins) <=> j = m + 1)
              /\ ins.state => (rows[j].kind = "state_write" <=> j = Len(rows))
              /\ rows[j].kind = "call" => rows[j].setup = LastOf(setups, CallPreview)
  <2>4. (ins.state => l = 1) /\ Len(rows) = m + n + l /\ n \in {0, 1}
    BY <1>9, <1>12, <1>14, <1>15
  <2>1. CASE j \in 1 .. m /\ rows[j] = mark
    BY <1>2, <1>3, <1>17, <2>1, <2>4
  <2>2. CASE n = 1 /\ j = m + 1 /\ rows[j] = ctl
    BY <1>2, <1>3, <1>17, <2>2, <2>4
  <2>3. CASE l = 1 /\ j = m + n + 1 /\ rows[j] = write
    BY <1>2, <1>3, <1>12, <1>17, <2>3, <2>4
  <2> QED
    BY <1>16, <2>1, <2>2, <2>3
<1>19. /\ m <= Len(rows) /\ (Control(ins) # "none" => m + 1 <= Len(rows))
       /\ ins.state => Len(rows) # 0
  BY <1>3, <1>9, <1>12, <1>14, <1>15
<1>20. rows = Rows(at, ins)
  BY <1>1 DEF rows, ab
<1>21. RowsRight(rows, at, ins)
  BY <1>15, <1>18, <1>19 DEF RowsRight, m
<1> QED
  BY <1>20, <1>21

-----------------------------------------------------------------------------
(* The events *)

(* The digest holds each marker, the transfer and the state write of a row *)
(* of the listing.                                                         *)
Told(e) ==
  /\ CountOf(e.at, "marker") = Marks(e.ins)
  /\ Control(e.ins) # "none" => CountOf(e.at, Control(e.ins)) = 1
  /\ e.ins.state => CountOf(e.at, "state_write") = 1

(* The events are in order, and whole as long as no cap cut them. *)
EventsInv ==
  /\ IsSeq(digest) /\ Len(digest) <= DigestEvents /\ digestCut \in BOOLEAN
  /\ \A i \in 1 .. Len(digest) : digest[i].at \in Nat /\ digest[i].at < fetched
  /\ \A i, j \in 1 .. Len(digest) : i < j => digest[i].at <= digest[j].at
  /\ digestCut => Len(digest) = DigestEvents
  /\ ~digestCut => \A k \in 1 .. Len(listing) : Told(listing[k])

(* The rows that fit are appended; without a cut, that is all of them. *)
LEMMA PushIs ==
  ASSUME NEW rows, IsSeq(rows), IsSeq(digest), Len(digest) <= DigestEvents,
         PushRows(rows)
  PROVE  \E room \in Nat :
           /\ room = DigestEvents - Len(digest)
           /\ digestCut' = (digestCut \/ Len(rows) > room)
           /\ \E n \in Nat :
                /\ n = IF Len(rows) > room THEN room ELSE Len(rows)
                /\ IsSeq(digest') /\ Len(digest') = Len(digest) + n
                /\ \A i \in 1 .. Len(digest) : digest'[i] = digest[i]
                /\ \A i \in 1 .. n : digest'[Len(digest) + i] = rows[i]
<1>1. PICK len \in Nat, m \in Nat : len = Len(rows) /\ m = Len(digest)
  BY SeqIs
<1>2. PICK room \in Nat : room = DigestEvents - m
  BY <1>1, PathDigestAssumption
<1>3. /\ digest' = digest \o SubSeq(rows, 1, Min({room, len}))
      /\ digestCut' = (digestCut \/ len > room)
  BY <1>1, <1>2 DEF PushRows
<1>4. Min({room, len}) = IF len > room THEN room ELSE len
  <2> DEFINE T == {room, len}
  <2>1. T \subseteq Nat /\ room \in T /\ len \in T
    OBVIOUS
  <2>2. \A x \in T : x = room \/ x = len
    OBVIOUS
  <2> HIDE DEF T
  <2>3. Min(T) \in T /\ \A k \in T : Min(T) <= k
    BY <2>1, MinIsLeast
  <2>4. PICK least \in Nat : /\ least = Min(T) /\ least <= room /\ least <= len
                             /\ (least = room \/ least = len)
    BY <2>1, <2>2, <2>3
  <2>5. least = IF len > room THEN room ELSE len
    BY <2>4
  <2> QED
    BY <2>4, <2>5 DEF T
<1>5. PICK n \in Nat : n = Min({room, len}) /\ n <= len /\ n = IF len > room THEN room ELSE len
  BY <1>4
<1>6. /\ IsSeq(SubSeq(rows, 1, n)) /\ Len(SubSeq(rows, 1, n)) = n
      /\ \A i \in 1 .. n : SubSeq(rows, 1, n)[i] = rows[i]
  BY <1>1, <1>5, IsSeqPart
<1> DEFINE part == SubSeq(rows, 1, n)
<1>7. IsSeq(part) /\ Len(part) = n /\ \A i \in 1 .. n : part[i] = rows[i]
  BY <1>6
<1>8. digest' = digest \o part
  BY <1>3, <1>5
<1> HIDE DEF part
<1>9. /\ IsSeq(digest \o part) /\ Len(digest \o part) = Len(digest) + Len(part)
      /\ \A i \in 1 .. Len(digest) : (digest \o part)[i] = digest[i]
      /\ \A i \in 1 .. Len(part) : (digest \o part)[Len(digest) + i] = part[i]
  <2>1. IsSeq(part) /\ IsSeq(digest)
    BY <1>7
  <2>2. /\ IsSeq(digest \o part) /\ Len(digest) \in Nat /\ Len(part) \in Nat
        /\ Len(digest \o part) = Len(digest) + Len(part)
        /\ DOMAIN (digest \o part) = 1 .. Len(digest) + Len(part)
        /\ \A i \in 1 .. Len(digest) : (digest \o part)[i] = digest[i]
        /\ \A i \in 1 .. Len(part) : (digest \o part)[Len(digest) + i] = part[i]
    BY <2>1, IsSeqConcat
  <2> QED
    BY <2>2
<1>10. /\ IsSeq(digest') /\ Len(digest') = m + n
       /\ \A i \in 1 .. m : digest'[i] = digest[i]
       /\ \A i \in 1 .. n : digest'[m + i] = rows[i]
  BY <1>1, <1>7, <1>8, <1>9
<1> QED
  BY <1>1, <1>2, <1>3, <1>5, <1>10

LEMMA EventsStep ==
  ASSUME ReadInv, EventsInv, DigestOp
  PROVE  EventsInv'
<1>1. PICK ins, e, rows :
        /\ ins \in Listing /\ ins.addr /\ e = [at |-> fetched, ins |-> ins] /\ listing' = Append(listing, e)
        /\ rows = Rows(fetched, ins) /\ PushRows(rows)
  BY DEF DigestOp
<1>2. InRange /\ fetched' = fetched + 1
  BY DEF DigestOp
<1>3. /\ listing \in Seq(ListingRow) /\ fetched \in 0 .. Window /\ fetched \in Nat
      /\ \A i \in 1 .. Len(listing) : listing[i].at < fetched
  BY PathDigestAssumption DEF ReadInv
<1>4. e \in ListingRow /\ e.at = fetched /\ e.ins = ins
  BY <1>1, <1>2, <1>3, RowsOfListing
<1>5. PICK l \in Nat : l = Len(listing)
  BY <1>3, LenProperties
<1>6. /\ Len(listing') = l + 1 /\ listing'[l + 1] = e
      /\ \A i \in 1 .. l : listing'[i] = listing[i]
  BY <1>1, <1>3, <1>4, <1>5, AppendProperties
<1>7. /\ IsSeq(digest) /\ Len(digest) <= DigestEvents /\ digestCut \in BOOLEAN
      /\ \A i \in 1 .. Len(digest) : digest[i].at \in Nat /\ digest[i].at < fetched
      /\ \A i, j \in 1 .. Len(digest) : i < j => digest[i].at <= digest[j].at
      /\ digestCut => Len(digest) = DigestEvents
      /\ ~digestCut => \A k \in 1 .. l : Told(listing[k])
  BY <1>5 DEF EventsInv
<1>8. RowsRight(rows, fetched, ins)
  BY <1>1, RowsAre
<1>9. IsSeq(rows)
  BY <1>8 DEF RowsRight
<1>10. PICK d \in Nat, len \in Nat : d = Len(digest) /\ len = Len(rows)
  BY <1>7, <1>9, SeqIs
<1>11. PICK room \in Nat, n \in Nat :
         /\ room = DigestEvents - d /\ digestCut' = (digestCut \/ len > room)
         /\ n = IF len > room THEN room ELSE len
         /\ IsSeq(digest') /\ Len(digest') = d + n
         /\ \A i \in 1 .. d : digest'[i] = digest[i]
         /\ \A i \in 1 .. n : digest'[d + i] = rows[i]
  <2>1. \E room \in Nat :
           /\ room = DigestEvents - Len(digest)
           /\ digestCut' = (digestCut \/ Len(rows) > room)
           /\ \E n \in Nat :
                /\ n = IF Len(rows) > room THEN room ELSE Len(rows)
                /\ IsSeq(digest') /\ Len(digest') = Len(digest) + n
                /\ \A i \in 1 .. Len(digest) : digest'[i] = digest[i]
                /\ \A i \in 1 .. n : digest'[Len(digest) + i] = rows[i]
    BY <1>1, <1>7, <1>9, PushIs
  <2> QED
    BY <1>10, <2>1
<1>12. \A i \in 1 .. d + n : i \in 1 .. d \/ (i - d \in 1 .. n /\ digest'[i] = rows[i - d])
  <2> TAKE i \in 1 .. d + n
  <2>1. CASE i <= d
    BY <2>1
  <2>2. CASE i > d
    <3>1. i - d \in 1 .. n /\ d + (i - d) = i
      BY <2>2
    <3> QED
      BY <1>11, <3>1
  <2> QED
    BY <2>1, <2>2
<1>0. PICK at \in Nat : at = fetched
  BY <1>3
<1>13. \A i \in 1 .. n : rows[i].at = at
  BY <1>0, <1>8, <1>10, <1>11 DEF RowsRight
<1>14. \A i \in 1 .. d + n : /\ i \in 1 .. d => digest'[i].at = digest[i].at
                            /\ i \notin 1 .. d => digest'[i].at = at
  <2> TAKE i \in 1 .. d + n
  <2>1. i \in 1 .. d => digest'[i].at = digest[i].at
    BY <1>11
  <2>2. i \notin 1 .. d => i - d \in 1 .. n /\ digest'[i] = rows[i - d]
    BY <1>12
  <2> QED
    BY <1>13, <2>1, <2>2
<1>22. \A i \in 1 .. d : digest'[i].at = digest[i].at
  BY <1>11
<1>20. \A i \in 1 .. d : digest[i].at \in Nat /\ digest[i].at < at
  BY <1>0, <1>7, <1>10
<1>15. \A i \in 1 .. d + n : digest'[i].at \in Nat /\ digest'[i].at < at + 1
  <2> TAKE i \in 1 .. d + n
  <2>1. CASE i \in 1 .. d
    <3>1. PICK x \in Nat : x = digest[i].at /\ x < at
      BY <1>20, <2>1
    <3> QED
      BY <1>22, <2>1, <3>1
  <2>2. CASE i \notin 1 .. d
    BY <1>14, <2>2
  <2> QED
    BY <2>1, <2>2
<1>16. \A i, j \in 1 .. d + n : i < j => digest'[i].at <= digest'[j].at
  <2> TAKE i, j \in 1 .. d + n
  <2> HAVE i < j
  <2>1. CASE j \in 1 .. d
    <3>1. i \in 1 .. d
      BY <2>1
    <3>2. digest[i].at <= digest[j].at
      BY <1>7, <1>10, <2>1, <3>1
    <3> QED
      BY <1>22, <2>1, <3>1, <3>2
  <2>2. CASE j \notin 1 .. d
    <3>1. PICK x \in Nat : x = digest'[i].at /\ x < at + 1
      BY <1>15
    <3>2. digest'[j].at = at
      BY <1>14, <2>2
    <3> QED
      BY <3>1, <3>2
  <2> QED
    BY <2>1, <2>2
<1>17. d + n <= DigestEvents /\ (digestCut' => d + n = DigestEvents)
  BY <1>7, <1>10, <1>11, PathDigestAssumption
<1>18. ASSUME ~digestCut', NEW k \in 1 .. l + 1, NEW row, row = listing'[k]
       PROVE  Told(row)'
  <2>1. ~digestCut /\ n = len
    BY <1>7, <1>11, <1>18
  <2>2. DOMAIN digest' = 1 .. d + n /\ DOMAIN digest = 1 .. d
    BY <1>7, <1>10, <1>11, SeqIs
  <2>3. ASSUME k \in 1 .. l PROVE Told(row)'
    <3>2. Told(row) /\ row = listing[k]
      BY <1>6, <1>7, <1>18, <2>1, <2>3
    <3>3. row.at < at /\ row.at \in Nat
      <4>1. listing[k] \in ListingRow
        BY <1>3, <1>5, <2>3, ElementOfSeq
      <4> QED
        BY <1>0, <1>3, <1>5, <2>3, <3>2, <4>1 DEF ListingRow
    <3>4. \A kind : CountOf(row.at, kind)' = CountOf(row.at, kind)
      <4> TAKE kind
      <4> PICK x \in Nat : x = row.at /\ x < at
        BY <3>3
      <4>1. \A i \in 1 .. d + n : digest'[i].at = x => i \in 1 .. d
        BY <1>14
      <4>2. \A i \in 1 .. d : i \in 1 .. d + n
        OBVIOUS
      <4>3. {i \in 1 .. d + n : digest'[i].at = x /\ digest'[i].kind = kind}
              = {i \in 1 .. d : digest[i].at = x /\ digest[i].kind = kind}
        BY <1>11, <4>1, <4>2
      <4> QED
        BY <2>2, <4>3 DEF CountOf
    <3> QED
      BY <3>2, <3>4 DEF Told
  <2>4. ASSUME k = l + 1 PROVE Told(row)'
    <3>0. PICK ctl : ctl = Control(ins)
      OBVIOUS
    <3>1. PICK m \in Nat : m = Marks(ins)
      <4>1. Marks(ins) \in Nat
        BY MarksAre, <1>1
      <4> QED
        BY <4>1
    <3>2. /\ \A j \in 1 .. len :
              /\ rows[j].kind = "marker" <=> j \in 1 .. m
              /\ ctl # "none" => (rows[j].kind = ctl <=> j = m + 1)
              /\ ins.state => (rows[j].kind = "state_write" <=> j = len)
          /\ m <= len /\ (ctl # "none" => m + 1 <= len) /\ (ins.state => len # 0)
      BY <1>8, <1>10, <3>0, <3>1 DEF RowsRight
    <3>3. \A kind : CountOf(at, kind)'
                     = Cardinality({d + j : j \in {x \in 1 .. len : rows[x].kind = kind}})
      <4> TAKE kind
      <4> DEFINE A == {i \in 1 .. d + n : digest'[i].at = at /\ digest'[i].kind = kind}
                 B == {d + j : j \in {x \in 1 .. len : rows[x].kind = kind}}
      <4>1. ASSUME NEW i \in A PROVE i \in B
        <5>1. i \notin 1 .. d
          <6>1. ASSUME i \in 1 .. d PROVE FALSE
            <7>1. digest[i].at = at
              BY <1>22, <6>1
            <7> QED
              BY <1>20, <6>1, <7>1
          <6> QED
            BY <6>1
        <5>2. i - d \in 1 .. n /\ digest'[i] = rows[i - d] /\ i = d + (i - d)
          BY <1>12, <5>1
        <5> QED
          BY <2>1, <5>2
      <4>2. ASSUME NEW i \in B PROVE i \in A
        <5>1. PICK j \in 1 .. len : i = d + j /\ rows[j].kind = kind
          OBVIOUS
        <5>2. digest'[i] = rows[j] /\ i \in 1 .. d + n
          BY <1>11, <2>1, <5>1
        <5> QED
          BY <1>13, <2>1, <5>1, <5>2
      <4>3. A = B
        BY <4>1, <4>2
      <4>4. CountOf(at, kind)' = Cardinality(A)
        <5> HIDE DEF B
        <5> QED
          BY <2>2 DEF CountOf
      <4> QED
        BY <4>3, <4>4
    <3>4. CountOf(at, "marker")' = m
      <4>1. {x \in 1 .. len : rows[x].kind = "marker"} = 1 .. m
        BY <3>2
      <4>2. {d + j : j \in 1 .. m} = d + 1 .. d + m
        <5>1. \A i \in d + 1 .. d + m : i - d \in 1 .. m /\ i = d + (i - d)
          OBVIOUS
        <5> QED
          BY <5>1
      <4>3. Cardinality(d + 1 .. d + m) = m
        <5>1. d + 1 \in Int /\ d + m \in Int
          OBVIOUS
        <5>2. Cardinality(d + 1 .. d + m) = IF d + 1 > d + m THEN 0 ELSE (d + m) - (d + 1) + 1
          BY <5>1, FS_Interval
        <5> QED
          BY <5>2
      <4> QED
        BY <3>3, <4>1, <4>2, <4>3
    <3>5. ctl # "none" => CountOf(at, ctl)' = 1
      <4> HAVE ctl # "none"
      <4>1. {x \in 1 .. len : rows[x].kind = ctl} = {m + 1}
        BY <3>2
      <4>2. {d + j : j \in {m + 1}} = {d + (m + 1)}
        OBVIOUS
      <4>3. Cardinality({d + (m + 1)}) = 1
        BY FS_Singleton
      <4> QED
        BY <3>3, <4>1, <4>2, <4>3
    <3>6. ins.state => CountOf(at, "state_write")' = 1
      <4> HAVE ins.state
      <4>1. {x \in 1 .. len : rows[x].kind = "state_write"} = {len}
        BY <3>2
      <4>2. {d + j : j \in {len}} = {d + len}
        OBVIOUS
      <4>3. Cardinality({d + len}) = 1
        BY FS_Singleton
      <4> QED
        BY <3>3, <4>1, <4>2, <4>3
    <3>7. row.at = at /\ row.ins = ins
      BY <1>0, <1>4, <1>6, <1>18, <2>4
    <3> QED
      BY <3>0, <3>1, <3>4, <3>5, <3>6, <3>7 DEF Told
  <2> QED
    BY <1>5, <2>3, <2>4
<1>19. ~digestCut' => \A k \in 1 .. l + 1 : Told(listing[k])'
  <2> HAVE ~digestCut'
  <2> TAKE k \in 1 .. l + 1
  <2>1. PICK row : row = listing'[k]
    OBVIOUS
  <2>2. Told(row)'
    BY <1>18, <2>1
  <2> QED
    BY <2>1, <2>2
<1>21. digestCut' \in BOOLEAN
  BY <1>7, <1>11
<1> QED
  BY <1>0, <1>2, <1>6, <1>11, <1>15, <1>16, <1>17, <1>19, <1>21 DEF EventsInv

-----------------------------------------------------------------------------
(* The setups *)

(* t is the addresses of the last rows of s, no more than n of them. *)
IsTail(t, s, n) ==
  /\ IsSeq(t) /\ Len(t) = Len(s) - Drop(Len(s), n)
  /\ \A k \in 1 .. Len(t) : t[k] = s[Drop(Len(s), n) + k].at

(* The setup instructions read up to an address. *)
Ups(at) == Kept(listing, SetupsUpTo(at))

(* The setups are the last ones read, and a call shows the last ones *)
(* before it.                                                        *)
SetupsInv ==
  /\ \A at \in Nat : at = fetched => IsTail(setups, Ups(at), SetupCap)
  /\ \A i \in 1 .. Len(digest) :
       digest[i].kind = "call" => IsTail(digest[i].setup, Ups(digest[i].at), CallPreview)

LEMMA TailOfTail ==
  ASSUME NEW s, IsSeq(s), NEW t, NEW n \in Nat, NEW m \in Nat, m <= n, IsTail(t, s, n)
  PROVE  IsTail(LastOf(t, m), s, m)
<1>1. PICK ls \in Nat, lt \in Nat : ls = Len(s) /\ lt = Len(t) /\ IsSeq(t)
  BY SeqIs DEF IsTail
<1>2. PICK d \in Nat, e \in Nat, f \in Nat :
        /\ d = Drop(ls, n) /\ e = Drop(lt, m) /\ f = Drop(ls, m)
        /\ lt = ls - d /\ f = d + e /\ e <= lt
  <2>1. lt = ls - Drop(ls, n)
    BY <1>1 DEF IsTail
  <2>2. Drop(ls, n) \in Nat /\ Drop(lt, m) \in Nat /\ Drop(ls, m) \in Nat
    BY DEF Drop
  <2>3. Drop(ls, m) = Drop(ls, n) + Drop(lt, m) /\ Drop(lt, m) <= lt
    BY <2>1 DEF Drop
  <2> QED
    BY <2>1, <2>2, <2>3
<1>3. \A k \in 1 .. lt : t[k] = s[d + k].at
  BY <1>1, <1>2 DEF IsTail
<1>4. /\ IsSeq(LastOf(t, m)) /\ Len(LastOf(t, m)) = lt - e
      /\ \A k \in 1 .. lt - e : LastOf(t, m)[k] = t[e + k]
  <2>1. IsSeq(t)
    BY <1>1
  <2>2. /\ IsSeq(LastOf(t, m)) /\ Len(LastOf(t, m)) = Len(t) - Drop(Len(t), m)
        /\ \A k \in 1 .. Len(LastOf(t, m)) : LastOf(t, m)[k] = t[Drop(Len(t), m) + k]
    BY <2>1, LastOfIs
  <2> QED
    BY <1>1, <1>2, <2>2
<1>5. \A k \in 1 .. lt - e : LastOf(t, m)[k] = s[f + k].at
  <2> TAKE k \in 1 .. lt - e
  <2>1. e + k \in 1 .. lt /\ d + (e + k) = f + k
    BY <1>2
  <2> QED
    BY <1>3, <1>4, <2>1
<1>6. lt - e = ls - f
  BY <1>2
<1> QED
  BY <1>1, <1>2, <1>4, <1>5, <1>6 DEF IsTail

LEMMA TailGrows ==
  ASSUME NEW s, IsSeq(s), NEW e, NEW t, NEW n \in Nat, IsTail(t, s, n)
  PROVE  IsTail(LastOf(Append(t, e.at), n), Append(s, e), n)
<1>1. PICK ls \in Nat, lt \in Nat : ls = Len(s) /\ lt = Len(t) /\ IsSeq(t)
  BY SeqIs DEF IsTail
<1>2. PICK u, v, a : u = Append(t, a) /\ v = Append(s, e) /\ a = e.at
  OBVIOUS
<1>3. IsSeq(u) /\ Len(u) = lt + 1 /\ u[lt + 1] = a /\ \A k \in 1 .. lt : u[k] = t[k]
  BY <1>1, <1>2, IsSeqAppend
<1>4. Len(v) = ls + 1 /\ v[ls + 1] = e /\ \A k \in 1 .. ls : v[k] = s[k]
  BY <1>1, <1>2, IsSeqAppend
<1>5. PICK d \in Nat, c \in Nat, f \in Nat :
        /\ d = Drop(ls, n) /\ c = Drop(lt + 1, n) /\ f = Drop(ls + 1, n)
        /\ lt = ls - d /\ f = d + c /\ c <= lt + 1
  <2>1. lt = ls - Drop(ls, n)
    BY <1>1 DEF IsTail
  <2>2. Drop(ls, n) \in Nat /\ Drop(lt + 1, n) \in Nat /\ Drop(ls + 1, n) \in Nat
    BY DEF Drop
  <2>3. Drop(ls + 1, n) = Drop(ls, n) + Drop(lt + 1, n) /\ Drop(lt + 1, n) <= lt + 1
    BY <2>1 DEF Drop
  <2> QED
    BY <2>1, <2>2, <2>3
<1>6. \A k \in 1 .. lt : t[k] = s[d + k].at
  BY <1>1, <1>5 DEF IsTail
<1>7. \A k \in 1 .. lt + 1 : u[k] = v[d + k].at
  <2> TAKE k \in 1 .. lt + 1
  <2>1. CASE k = lt + 1
    <3>1. d + k = ls + 1
      BY <1>5, <2>1
    <3> QED
      BY <1>2, <1>3, <1>4, <2>1, <3>1
  <2>2. CASE k # lt + 1
    <3>1. k \in 1 .. lt /\ d + k \in 1 .. ls
      BY <1>5, <2>2
    <3> QED
      BY <1>3, <1>4, <1>6, <3>1
  <2> QED
    BY <2>1, <2>2
<1>8. /\ IsSeq(LastOf(u, n)) /\ Len(LastOf(u, n)) = lt + 1 - c
      /\ \A k \in 1 .. lt + 1 - c : LastOf(u, n)[k] = u[c + k]
  <2>1. IsSeq(u)
    BY <1>3
  <2>2. /\ IsSeq(LastOf(u, n)) /\ Len(LastOf(u, n)) = Len(u) - Drop(Len(u), n)
        /\ \A k \in 1 .. Len(LastOf(u, n)) : LastOf(u, n)[k] = u[Drop(Len(u), n) + k]
    BY <2>1, LastOfIs
  <2>3. Len(u) = lt + 1 /\ Drop(Len(u), n) = c
    BY <1>3, <1>5
  <2>4. Len(LastOf(u, n)) = lt + 1 - c
    BY <2>2, <2>3
  <2> QED
    BY <2>2, <2>3, <2>4
<1>9. \A k \in 1 .. lt + 1 - c : LastOf(u, n)[k] = v[f + k].at
  <2> TAKE k \in 1 .. lt + 1 - c
  <2>1. c + k \in 1 .. lt + 1 /\ d + (c + k) = f + k
    BY <1>5
  <2> QED
    BY <1>7, <1>8, <2>1
<1>10. lt + 1 - c = ls + 1 - f
  BY <1>5
<1>11. IsTail(LastOf(u, n), v, n)
  BY <1>4, <1>5, <1>8, <1>9, <1>10 DEF IsTail
<1> QED
  BY <1>2, <1>11

(* What was read before an address stays what was read before it. *)
LEMMA UpsStay ==
  ASSUME listing \in Seq(ListingRow), fetched \in Nat,
         NEW e \in ListingRow, e.at = fetched, listing' = Append(listing, e),
         NEW at \in Nat, at <= fetched
  PROVE  Ups(at)' = Ups(at)
<1>1. e \notin SetupsUpTo(at)
  BY DEF SetupsUpTo
<1>2. Kept(Append(listing, e), SetupsUpTo(at))
        = IF e \in SetupsUpTo(at) THEN Append(Kept(listing, SetupsUpTo(at)), e)
          ELSE Kept(listing, SetupsUpTo(at))
  BY KeptAppend
<1> QED
  BY <1>1, <1>2 DEF Ups

LEMMA UpsGrow ==
  ASSUME ReadInv, NEW e \in ListingRow, listing' = Append(listing, e), NEW at \in Nat,
         at = fetched, e.at = at
  PROVE  Ups(at + 1)' = IF SetsUp(e.ins) THEN Append(Ups(at), e) ELSE Ups(at)
<1>1. /\ listing \in Seq(ListingRow) /\ \A i \in 1 .. Len(listing) : listing[i].at < at
      /\ Len(listing) \in Nat
  BY LenProperties DEF ReadInv
<1>2. e.ins \in Listing /\ e = [at |-> e.at, ins |-> e.ins]
  BY DEF ListingRow
<1>3. e \in SetupsUpTo(at + 1) <=> SetsUp(e.ins)
  BY <1>2 DEF SetupsUpTo
<1>4. \A i \in 1 .. Len(listing) :
        listing[i] \in SetupsUpTo(at + 1) <=> listing[i] \in SetupsUpTo(at)
  <2> TAKE i \in 1 .. Len(listing)
  <2>1. PICK row \in ListingRow : row = listing[i] /\ row.at < at
    BY <1>1, ElementOfSeq
  <2>2. row.at \in Nat /\ row.at \in 0 .. at - 1 /\ row.at \in 0 .. (at + 1) - 1
    BY <2>1, PathDigestAssumption DEF ListingRow
  <2>3. row \in SetupsUpTo(at + 1) => row \in SetupsUpTo(at)
    BY <2>2 DEF SetupsUpTo
  <2>4. row \in SetupsUpTo(at) => row \in SetupsUpTo(at + 1)
    BY <2>2 DEF SetupsUpTo
  <2> QED
    BY <2>1, <2>3, <2>4
<1>5. PICK T, U : T = SetupsUpTo(at + 1) /\ U = SetupsUpTo(at)
  OBVIOUS
<1>6. Kept(listing, T) = Kept(listing, U)
  BY <1>1, <1>4, <1>5, KeptSame
<1>7. Kept(Append(listing, e), T)
        = IF e \in T THEN Append(Kept(listing, T), e) ELSE Kept(listing, T)
  BY <1>1, KeptAppend
<1>8. Ups(at) = Kept(listing, U)
  BY <1>5 DEF Ups
<1>9. Ups(at + 1)' = Kept(Append(listing, e), T)
  BY <1>5 DEF Ups
<1> QED
  BY <1>3, <1>5, <1>6, <1>7, <1>8, <1>9

LEMMA UpsAreSeq ==
  ASSUME ReadInv, NEW at
  PROVE  IsSeq(Ups(at))
<1>1. Kept(listing, SetupsUpTo(at)) \in Seq(ListingRow)
  BY KeptIsSeq DEF ReadInv
<1> QED
  BY <1>1 DEF Ups, IsSeq

LEMMA SetupsStep ==
  ASSUME ReadInv, EventsInv, SetupsInv, DigestOp
  PROVE  SetupsInv'
<1>1. PICK ins, e, rows :
        /\ ins \in Listing /\ ins.addr /\ e = [at |-> fetched, ins |-> ins] /\ listing' = Append(listing, e)
        /\ rows = Rows(fetched, ins) /\ PushRows(rows) /\ UpdateSetups(fetched, ins)
  BY DEF DigestOp
<1>2. InRange /\ fetched' = fetched + 1
  BY DEF DigestOp
<1>3. PICK at \in Nat : at = fetched /\ at \in 0 .. Window
  BY PathDigestAssumption DEF ReadInv
<1>4. e \in ListingRow /\ e.at = at /\ e.ins = ins /\ listing \in Seq(ListingRow)
  BY <1>1, <1>2, <1>3, RowsOfListing DEF ReadInv
<1>5. IsTail(setups, Ups(at), SetupCap)
  BY <1>3 DEF SetupsInv
<1>6. PICK ups : ups = Ups(at) /\ IsSeq(ups)
  BY UpsAreSeq
<1>7. PICK next : next = at + 1 /\ next \in Nat /\ fetched' = next
  BY <1>2, <1>3
<1>8. Ups(at + 1)' = IF SetsUp(ins) THEN Append(ups, e) ELSE ups
  BY <1>1, <1>3, <1>4, <1>6, UpsGrow
<1>9. SetupCap \in Nat /\ CallPreview \in Nat /\ CallPreview <= SetupCap
  BY PathDigestAssumption
<1>10. IsTail(setups', Ups(next)', SetupCap)
  <2>1. CASE SetsUp(ins)
    <3>1. setups' = LastOf(Append(setups, e.at), SetupCap)
      BY <1>1, <1>3, <1>4, <2>1 DEF UpdateSetups
    <3>2. IsTail(LastOf(Append(setups, e.at), SetupCap), Append(ups, e), SetupCap)
      BY <1>5, <1>6, <1>9, TailGrows
    <3>3. Ups(next)' = Append(ups, e)
      BY <1>7, <1>8, <2>1
    <3> QED
      BY <3>1, <3>2, <3>3
  <2>2. CASE ~SetsUp(ins)
    <3>1. setups' = setups
      BY <1>1, <2>2 DEF UpdateSetups
    <3>2. Ups(next)' = ups
      BY <1>7, <1>8, <2>2
    <3> QED
      BY <1>5, <1>6, <3>1, <3>2
  <2> QED
    BY <2>1, <2>2
<1>11. IsSeq(digest) /\ Len(digest) <= DigestEvents
  BY DEF EventsInv
<1>12. RowsRight(rows, fetched, ins)
  BY <1>1, RowsAre
<1>13. IsSeq(rows)
  BY <1>12 DEF RowsRight
<1>14. PICK d \in Nat, len \in Nat : d = Len(digest) /\ len = Len(rows)
  BY <1>11, <1>13, SeqIs
<1>15. PICK n \in Nat :
         /\ n <= len /\ IsSeq(digest') /\ Len(digest') = d + n
         /\ \A i \in 1 .. d : digest'[i] = digest[i]
         /\ \A i \in 1 .. n : digest'[d + i] = rows[i]
  <2>1. \E room \in Nat :
           /\ room = DigestEvents - Len(digest)
           /\ digestCut' = (digestCut \/ Len(rows) > room)
           /\ \E n \in Nat :
                /\ n = IF Len(rows) > room THEN room ELSE Len(rows)
                /\ IsSeq(digest') /\ Len(digest') = Len(digest) + n
                /\ \A i \in 1 .. Len(digest) : digest'[i] = digest[i]
                /\ \A i \in 1 .. n : digest'[Len(digest) + i] = rows[i]
    BY <1>1, <1>11, <1>13, PushIs
  <2>2. PICK room \in Nat, n \in Nat :
          /\ n = IF len > room THEN room ELSE len
          /\ IsSeq(digest') /\ Len(digest') = d + n
          /\ \A i \in 1 .. d : digest'[i] = digest[i]
          /\ \A i \in 1 .. n : digest'[d + i] = rows[i]
    BY <1>14, <2>1
  <2>3. n <= len
    BY <2>2
  <2> QED
    BY <2>2, <2>3
<1>16. \A x \in Nat : x <= at => Ups(x)' = Ups(x)
  BY <1>1, <1>3, <1>4, UpsStay
<1>17. ASSUME NEW i \in 1 .. d + n, NEW row, row = digest'[i], row.kind = "call"
       PROVE  IsTail(row.setup, Ups(row.at), CallPreview)'
  <2>1. CASE i \in 1 .. d
    <3>1. row = digest[i]
      BY <1>15, <1>17, <2>1
    <3>2. row.at \in Nat /\ row.at <= at
      <4>1. digest[i].at \in Nat /\ digest[i].at < fetched
        BY <1>14, <2>1 DEF EventsInv
      <4>2. PICK x \in Nat : x = row.at /\ x < at
        BY <1>3, <3>1, <4>1
      <4> QED
        BY <4>2
    <3>3. IsTail(row.setup, Ups(row.at), CallPreview)
      BY <1>14, <1>17, <2>1, <3>1 DEF SetupsInv
    <3>4. Ups(row.at)' = Ups(row.at)
      BY <1>16, <3>2
    <3>5. PICK t, u : t = row.setup /\ u = Ups(row.at)
      OBVIOUS
    <3>6. IsTail(t, u, CallPreview)
      BY <3>3, <3>5
    <3> QED
      BY <3>4, <3>5, <3>6 DEF IsTail
  <2>2. CASE i \notin 1 .. d
    <3>1. i - d \in 1 .. n /\ d + (i - d) = i /\ i - d \in 1 .. len
      BY <1>15, <2>2
    <3>2. row = rows[i - d]
      BY <1>15, <1>17, <3>1
    <3>3. row.at = at /\ row.setup = LastOf(setups, CallPreview)
      BY <1>3, <1>12, <1>14, <1>17, <3>1, <3>2 DEF RowsRight
    <3>4. IsTail(LastOf(setups, CallPreview), ups, CallPreview)
      BY <1>5, <1>6, <1>9, TailOfTail
    <3>5. Ups(at)' = ups
      BY <1>6, <1>16
    <3> QED
      BY <3>3, <3>4, <3>5 DEF IsTail
  <2> QED
    BY <2>1, <2>2
<1>18. ASSUME NEW i \in 1 .. d + n, digest'[i].kind = "call"
       PROVE  IsTail(digest[i].setup, Ups(digest[i].at), CallPreview)'
  <2>1. PICK row : row = digest'[i]
    OBVIOUS
  <2>2. IsTail(row.setup, Ups(row.at), CallPreview)'
    BY <1>17, <1>18, <2>1
  <2> QED
    BY <2>1, <2>2 DEF IsTail, Ups
<1> QED
  BY <1>7, <1>10, <1>15, <1>18 DEF SetupsInv

LEMMA SetupsAreEnough ==
  ASSUME ReadInv, EventsInv, SetupsInv
  PROVE  CallsShowNearestSetup
<1> SUFFICES ASSUME NEW i \in DOMAIN digest, digest[i].kind = "call"
             PROVE  LET near == LastOf(Ups(digest[i].at), CallPreview)
                    IN  digest[i].setup = [k \in DOMAIN near |-> near[k].at]
  BY DEF CallsShowNearestSetup, Ups
<1> DEFINE ups == Ups(digest[i].at)
           t == digest[i].setup
           near == LastOf(ups, CallPreview)
           shown == [k \in DOMAIN near |-> near[k].at]
           cap == CallPreview
<1>1. IsTail(t, ups, cap)
  BY SeqIs DEF SetupsInv, EventsInv
<1>2. IsSeq(ups) /\ cap \in Nat
  BY UpsAreSeq, PathDigestAssumption
<1> HIDE DEF ups, t, cap
<1>3. /\ IsSeq(LastOf(ups, cap)) /\ Len(LastOf(ups, cap)) = Len(ups) - Drop(Len(ups), cap)
      /\ \A k \in 1 .. Len(LastOf(ups, cap)) : LastOf(ups, cap)[k] = ups[Drop(Len(ups), cap) + k]
  BY <1>2, LastOfIs
<1>4. near = LastOf(ups, cap)
  BY DEF cap
<1> HIDE DEF near
<1>5. IsSeq(near) /\ Len(near) = Len(t) /\ IsSeq(t)
  BY <1>1, <1>3, <1>4 DEF IsTail
<1>6. PICK n \in Nat : n = Len(near) /\ DOMAIN near = 1 .. n
  BY <1>5, SeqIs
<1>7. DOMAIN shown = 1 .. n /\ shown = [k \in 1 .. n |-> shown[k]]
  BY <1>6
<1>8. \A k \in 1 .. n : shown[k] = t[k]
  BY <1>1, <1>3, <1>4, <1>5, <1>6 DEF IsTail
<1> HIDE DEF shown
<1>9. IsSeq(shown) /\ Len(shown) = n
  BY <1>7, MapIsSeq
<1>10. \A k \in 1 .. Len(t) : t[k] = shown[k]
  BY <1>5, <1>6, <1>8
<1>11. t = shown
  BY <1>5, <1>6, <1>9, <1>10, SameSeq
<1> QED
  BY <1>11 DEF t, shown, near, ups, cap

-----------------------------------------------------------------------------
(* The buffers and the constants *)

(* The instructions read that write offset o of base b. *)
Writers(b, o) == {k \in 1 .. Len(listing) : Writes(listing[k].ins.write, b, o)}

(* What the last of them wrote there. *)
Written(b, o) == WrittenByte(listing[Max(Writers(b, o))].ins.write, o)

(* The buffers hold, at each place that was written, what was written *)
(* last.                                                              *)
BuffersInv ==
  \A b, o :
    /\ Writers(b, o) # {} <=> b \in DOMAIN buffers /\ o \in DOMAIN buffers[b]
    /\ Writers(b, o) # {} => buffers[b][o] = Written(b, o)

LEMMA BuffersStep ==
  ASSUME ReadInv, BuffersInv, DigestOp
  PROVE  BuffersInv'
<1>1. PICK ins, e, w :
        /\ ins \in Listing /\ ins.addr /\ e = [at |-> fetched, ins |-> ins] /\ listing' = Append(listing, e)
        /\ w = ins.write /\ buffers' = AddWrite(buffers, w)
  BY DEF DigestOp, RecordWrite
<1>2. e \in ListingRow /\ e.ins = ins /\ listing \in Seq(ListingRow)
  <2>1. InRange
    BY DEF DigestOp
  <2> QED
    BY <1>1, <2>1, RowsOfListing DEF ReadInv
<1>3. PICK n \in Nat : n = Len(listing)
  BY <1>2, LenProperties
<1>4. /\ Len(listing') = n + 1 /\ listing'[n + 1] = e
      /\ \A k \in 1 .. n : listing'[k] = listing[k]
      /\ \A k \in 1 .. n + 1 : k = n + 1 \/ k \in 1 .. n
      /\ n + 1 \in 1 .. n + 1 /\ \A k \in 1 .. n : k \in 1 .. n + 1
  BY <1>1, <1>2, <1>3, AppendProperties
<1>5. ASSUME NEW b, NEW o
      PROVE  /\ Writers(b, o)' # {} <=> b \in DOMAIN buffers' /\ o \in DOMAIN buffers'[b]
             /\ Writers(b, o)' # {} => buffers'[b][o] = Written(b, o)'
  <2>1. Writers(b, o) = {k \in 1 .. n : Writes(listing[k].ins.write, b, o)}
    BY <1>3 DEF Writers
  <2>2. Writers(b, o)' = IF Writes(w, b, o) THEN Writers(b, o) \cup {n + 1} ELSE Writers(b, o)
    <3>1. Writers(b, o)' = {k \in 1 .. n + 1 : Writes(listing'[k].ins.write, b, o)}
      BY <1>4 DEF Writers
    <3>2. listing'[n + 1].ins.write = w
      BY <1>1, <1>2, <1>4
    <3> HIDE DEF Writers
    <3>3. CASE Writes(w, b, o)
      BY <1>4, <2>1, <3>1, <3>2, <3>3
    <3>4. CASE ~Writes(w, b, o)
      BY <1>4, <2>1, <3>1, <3>2, <3>4
    <3> QED
      BY <3>3, <3>4
  <2>3. /\ Writers(b, o) # {} <=> b \in DOMAIN buffers /\ o \in DOMAIN buffers[b]
        /\ Writers(b, o) # {} => buffers[b][o] = Written(b, o)
    BY DEF BuffersInv
  <2>4. CASE Writes(w, b, o)
    <3>1. w # NoWrite /\ w.base = b /\ o \in Covered(w)
      BY <2>4 DEF Writes
    <3>2. b \in DOMAIN buffers' /\ o \in DOMAIN buffers'[b] /\ buffers'[b][o] = WrittenByte(w, o)
      BY <1>1, <3>1 DEF AddWrite, WriteBytes
    <3>3. Max(Writers(b, o)') = n + 1
      <4> DEFINE S == Writers(b, o) \cup {n + 1}
                 m == n + 1
      <4>1. m \in Nat /\ S \subseteq 1 .. m /\ S # {} /\ m \in S
        BY <2>1
      <4> HIDE DEF S, m
      <4>2. Max(S) \in S /\ \A j \in S : j <= Max(S)
        BY <4>1, MaxIsGreatest
      <4>5. PICK x \in 1 .. m : x = Max(S) /\ m <= x
        BY <4>1, <4>2
      <4>3. Max(S) = m
        BY <4>1, <4>5
      <4> QED
        BY <2>2, <2>4, <4>3 DEF S, m
    <3>4. Written(b, o)' = WrittenByte(w, o)
      <4>1. Written(b, o)' = WrittenByte(listing'[Max(Writers(b, o)')].ins.write, o)
        BY DEF Written
      <4> QED
        BY <1>1, <1>2, <1>4, <3>3, <4>1
    <3>5. Writers(b, o)' # {}
      BY <2>2, <2>4
    <3> QED
      BY <3>2, <3>4, <3>5
  <2>5. CASE ~Writes(w, b, o)
    <3>1. Writers(b, o)' = Writers(b, o)
      BY <2>2, <2>5
    <3>2. w = NoWrite \/ w.base # b \/ o \notin Covered(w)
      BY <2>5 DEF Writes
    <3>3. /\ (b \in DOMAIN buffers' /\ o \in DOMAIN buffers'[b])
                <=> (b \in DOMAIN buffers /\ o \in DOMAIN buffers[b])
          /\ b \in DOMAIN buffers /\ o \in DOMAIN buffers[b] => buffers'[b][o] = buffers[b][o]
      <4>1. CASE w = NoWrite
        BY <1>1, <4>1 DEF AddWrite
      <4>2. CASE w # NoWrite /\ w.base # b
        BY <1>1, <4>2 DEF AddWrite
      <4>3. CASE w # NoWrite /\ w.base = b /\ o \notin Covered(w)
        <5>1. /\ DOMAIN buffers' = DOMAIN buffers \cup {b}
              /\ buffers'[b] = WriteBytes(IF b \in DOMAIN buffers THEN buffers[b] ELSE <<>>, w)
          BY <1>1, <4>3 DEF AddWrite
        <5>2. CASE b \in DOMAIN buffers
          BY <4>3, <5>1, <5>2 DEF WriteBytes
        <5>3. CASE b \notin DOMAIN buffers
          <6>1. DOMAIN (<<>>) = {}
            OBVIOUS
          <6> QED
            BY <4>3, <5>1, <5>3, <6>1 DEF WriteBytes
        <5> QED
          BY <5>2, <5>3
      <4> QED
        BY <3>2, <4>1, <4>2, <4>3
    <3>4. Writers(b, o) # {} => Written(b, o)' = Written(b, o)
      <4> HAVE Writers(b, o) # {}
      <4>1. Writers(b, o) \subseteq 1 .. n
        BY <2>1
      <4>2. PICK m : m = Max(Writers(b, o)) /\ m \in 1 .. n
        BY <4>1, MaxIsGreatest
      <4>3. Written(b, o)' = WrittenByte(listing'[Max(Writers(b, o)')].ins.write, o)
        BY DEF Written
      <4>4. Written(b, o) = WrittenByte(listing[m].ins.write, o)
        BY <4>2 DEF Written
      <4> QED
        BY <1>4, <3>1, <4>2, <4>3, <4>4
    <3> QED
      BY <2>3, <3>1, <3>3, <3>4
  <2> QED
    BY <2>4, <2>5
<1> QED
  BY <1>5 DEF BuffersInv

LEMMA BuffersAreEnough ==
  ASSUME ReadInv, BuffersInv
  PROVE  BuffersHoldLastWrites
<1> SUFFICES ASSUME NEW b \in DOMAIN buffers, NEW i \in DOMAIN Contiguous(buffers[b])
             PROVE  Contiguous(buffers[b])[i] = LastByte(b, Min(DOMAIN buffers[b]) + i - 1)
  BY DEF BuffersHoldLastWrites
<1> DEFINE o == Min(DOMAIN buffers[b]) + i - 1
<1>1. Contiguous(buffers[b])[i] = IF o \in DOMAIN buffers[b] THEN buffers[b][o] ELSE 0
  BY DEF Contiguous
<1>2. DOMAIN listing = 1 .. Len(listing)
  BY LenProperties DEF ReadInv
<1> HIDE DEF o
<1>3. LastByte(b, o) = IF Writers(b, o) = {} THEN 0 ELSE Written(b, o)
  BY <1>2 DEF LastByte, Writers, Written
<1>4. /\ Writers(b, o) # {} <=> o \in DOMAIN buffers[b]
      /\ Writers(b, o) # {} => buffers[b][o] = Written(b, o)
  BY DEF BuffersInv
<1>5. Contiguous(buffers[b])[i] = LastByte(b, o)
  BY <1>1, <1>3, <1>4
<1> QED
  BY <1>5 DEF o

(* A constant that was seen is shown at one place or more, up to the cap. *)
SightsInv ==
  \A c \in DOMAIN sights : IsSeq(sights[c]) /\ Len(sights[c]) \in 1 .. SightCap

LEMMA SightsStep ==
  ASSUME SightsInv, DigestOp
  PROVE  SightsInv'
<1>1. PICK ins, at :
        ins \in Listing /\ sights' = [c \in DOMAIN sights \cup ToSet(ins.consts) |->
                                         LET had == IF c \in DOMAIN sights THEN sights[c] ELSE <<>>
                                         IN  IF c \in ToSet(ins.consts) /\ Len(had) < SightCap
                                             THEN Append(had, at) ELSE had]
  BY DEF DigestOp, RecordConstants
<1> DEFINE S == ToSet(ins.consts)
           had(c) == IF c \in DOMAIN sights THEN sights[c] ELSE <<>>
<1> HIDE DEF S
<1>2. /\ DOMAIN sights' = DOMAIN sights \cup S
      /\ \A c \in DOMAIN sights \cup S :
           sights'[c] = IF c \in S /\ Len(had(c)) < SightCap THEN Append(had(c), at) ELSE had(c)
  BY <1>1 DEF S
<1>3. SightCap \in Nat /\ SightCap >= 1
  BY PathDigestAssumption
<1>4. ASSUME NEW c \in DOMAIN sights \cup S
      PROVE  IsSeq(sights'[c]) /\ Len(sights'[c]) \in 1 .. SightCap
  <2>1. PICK h : h = had(c)
    OBVIOUS
  <2>2. IsSeq(h) /\ Len(h) \in 0 .. SightCap /\ (Len(h) = 0 => c \in S)
    <3>1. CASE c \in DOMAIN sights
      BY <1>3, <2>1, <3>1 DEF SightsInv
    <3>2. CASE c \notin DOMAIN sights
      <4>1. IsSeq(<<>>) /\ Len(<<>>) = 0
        BY EmptySeq DEF IsSeq
      <4>2. h = <<>> /\ c \in S
        BY <2>1, <3>2
      <4> QED
        BY <1>3, <4>1, <4>2
    <3> QED
      BY <3>1, <3>2
  <2>3. IsSeq(Append(h, at)) /\ Len(Append(h, at)) = Len(h) + 1
    BY <2>2, IsSeqAppend
  <2>4. sights'[c] = IF c \in S /\ Len(h) < SightCap THEN Append(h, at) ELSE h
    BY <1>2, <2>1
  <2>5. CASE c \in S /\ Len(h) < SightCap
    BY <1>3, <2>2, <2>3, <2>4, <2>5
  <2>6. CASE ~ (c \in S /\ Len(h) < SightCap)
    BY <1>3, <2>2, <2>4, <2>6
  <2> QED
    BY <2>5, <2>6
<1> QED
  BY <1>2, <1>4 DEF SightsInv

-----------------------------------------------------------------------------
(* The digest *)

(* What is true of a digest between any two of its steps. *)
DigestInv ==
  /\ ReadInv /\ StopInv /\ EventsInv /\ SetupsInv /\ BuffersInv /\ SightsInv
  /\ Len(setups) <= SetupCap
  /\ pdPc \in {"idle", "scan", "done"}
  /\ pdPc = "idle" => stopHit = NoStop

LEMMA DigestInitInv ==
  ASSUME DigestInit
  PROVE  DigestInv
<1>1. /\ pdPc = "idle" /\ rangeEnd = NoEnd /\ stops = {} /\ fetched = 0 /\ counted = 0
      /\ digest = <<>> /\ digestCut = FALSE /\ sights = <<>> /\ buffers = <<>>
      /\ setups = <<>> /\ stopHit = NoStop /\ listing = <<>>
  BY DEF DigestInit
<1>2. <<>> \in Seq(ListingRow) /\ IsSeq(<<>>) /\ Len(<<>>) = 0 /\ 1 .. 0 = {} /\ DOMAIN (<<>>) = {}
  BY EmptySeq DEF IsSeq
<1>3. Len(listing) = 0 /\ Len(digest) = 0 /\ Len(setups) = 0 /\ IsSeq(digest) /\ IsSeq(setups)
  BY <1>1, <1>2
<1>4. ReadInv
  <2>1. listing \in Seq(ListingRow)
    BY <1>1, <1>2
  <2>2. EndRead = NoEnd
    BY <1>1 DEF EndRead
  <2> QED
    BY <1>1, <1>2, <1>3, <2>1, <2>2, PathDigestAssumption DEF ReadInv
<1>5. StopInv
  BY <1>1, <1>2, <1>3 DEF StopInv
<1>6. EventsInv
  <2>1. 1 .. Len(digest) = {} /\ 1 .. Len(listing) = {}
    BY <1>2, <1>3
  <2>2. digestCut = FALSE /\ digestCut \in BOOLEAN /\ Len(digest) <= DigestEvents
    <3>1. digestCut = FALSE
      BY <1>1
    <3>2. Len(digest) <= DigestEvents
      BY <1>3, PathDigestAssumption
    <3> QED
      BY <3>1, <3>2, Zenon
  <2> QED
    BY <1>3, <2>1, <2>2, Zenon DEF EventsInv
<1>7. SetupsInv
  <2>1. \A at : Ups(at) = <<>>
    <3> TAKE at
    <3>1. KeptUpTo(listing, SetupsUpTo(at))[0] = <<>>
      BY <1>4, KeptRows DEF ReadInv
    <3> QED
      BY <1>3, <3>1 DEF Ups, Kept
  <2>2. Drop(0, SetupCap) = 0
    BY PathDigestAssumption DEF Drop
  <2>3. \A s : s = <<>> => IsTail(setups, s, SetupCap)
    BY <1>2, <1>3, <2>2 DEF IsTail
  <2> QED
    BY <1>2, <1>3, <2>1, <2>3 DEF SetupsInv
<1>8. BuffersInv
  <2>1. \A b, o : Writers(b, o) = {}
    BY <1>2, <1>3 DEF Writers
  <2>2. DOMAIN buffers = {}
    BY <1>1, <1>2
  <2> QED
    BY <2>1, <2>2 DEF BuffersInv
<1>9. SightsInv
  BY <1>1, <1>2 DEF SightsInv
<1> QED
  BY <1>1, <1>3, <1>4, <1>5, <1>6, <1>7, <1>8, <1>9, PathDigestAssumption DEF DigestInv

LEMMA DigestRests ==
  ASSUME EventsInv, SetupsInv, BuffersInv, SightsInv,
         UNCHANGED <<digest, digestCut, sights, buffers, setups, listing>>,
         fetched \in Nat, \/ fetched' = fetched
                         \/ /\ fetched' = fetched + 1 /\ InRange /\ ReadInv
  PROVE  EventsInv' /\ SetupsInv' /\ BuffersInv' /\ SightsInv'
<1>1. /\ digest' = digest /\ digestCut' = digestCut /\ sights' = sights
      /\ buffers' = buffers /\ setups' = setups /\ listing' = listing
  OBVIOUS
<1>2. \A at, kind : CountOf(at, kind)' = CountOf(at, kind)
  BY <1>1 DEF CountOf
<1>3. \A row : Told(row)' <=> Told(row)
  BY <1>2 DEF Told
<1>4. PICK new \in Nat, old \in Nat :
        old = fetched /\ new = fetched' /\ (new = old \/ new = old + 1)
  OBVIOUS
<1>5. EventsInv'
  <2>1. \A k \in 1 .. Len(listing) : Told(listing[k]) => Told(listing[k])'
    <3> TAKE k \in 1 .. Len(listing)
    <3>1. PICK row : row = listing[k]
      OBVIOUS
    <3>2. Told(row)' <=> Told(row)
      BY <1>3
    <3> QED
      BY <1>1, <3>1, <3>2
  <2>2. \A i \in 1 .. Len(digest) : digest[i].at < new
    <3> TAKE i \in 1 .. Len(digest)
    <3>1. PICK x \in Nat : x = digest[i].at /\ x < old
      BY <1>4 DEF EventsInv
    <3> QED
      BY <1>4, <3>1
  <2> QED
    BY <1>1, <1>4, <2>1, <2>2 DEF EventsInv
<1>6. \A at : Ups(at)' = Ups(at)
  BY <1>1 DEF Ups
<1>7. Ups(new) = Ups(old)
  <2>1. CASE new = old
    BY <2>1
  <2>2. CASE new = old + 1 /\ ReadInv
    <3>1. /\ listing \in Seq(ListingRow)
          /\ \A i \in 1 .. Len(listing) : listing[i].at < old
      BY <1>4, <2>2 DEF ReadInv
    <3>2. \A i \in 1 .. Len(listing) :
            listing[i] \in SetupsUpTo(new) <=> listing[i] \in SetupsUpTo(old)
      <4> TAKE i \in 1 .. Len(listing)
      <4>1. PICK row \in ListingRow : row = listing[i] /\ row.at < old
        BY <3>1, ElementOfSeq
      <4>2. row.at \in 0 .. old - 1 /\ row.at \in 0 .. new - 1
        BY <2>2, <4>1, PathDigestAssumption DEF ListingRow
      <4>3. row \in SetupsUpTo(new) => row \in SetupsUpTo(old)
        BY <4>2 DEF SetupsUpTo
      <4>4. row \in SetupsUpTo(old) => row \in SetupsUpTo(new)
        BY <4>2 DEF SetupsUpTo
      <4> QED
        BY <4>1, <4>3, <4>4
    <3>3. PICK T, U : T = SetupsUpTo(new) /\ U = SetupsUpTo(old)
      OBVIOUS
    <3>4. Kept(listing, T) = Kept(listing, U)
      BY <3>1, <3>2, <3>3, KeptSame
    <3> QED
      BY <3>3, <3>4 DEF Ups
  <2> QED
    BY <1>4, <2>1, <2>2
<1>8. SetupsInv'
  <2>1. IsTail(setups, Ups(new), SetupCap)
    BY <1>4, <1>7 DEF SetupsInv
  <2>2. IsTail(setups', Ups(new)', SetupCap)
    BY <1>1, <1>6, <2>1
  <2>3. \A i \in 1 .. Len(digest) : digest[i].kind = "call" =>
          IsTail(digest[i].setup, Ups(digest[i].at), CallPreview)'
    <3> TAKE i \in 1 .. Len(digest)
    <3> HAVE digest[i].kind = "call"
    <3>1. PICK at, t : at = digest[i].at /\ t = digest[i].setup
      OBVIOUS
    <3>2. IsTail(t, Ups(at), CallPreview)
      BY <3>1 DEF SetupsInv
    <3>3. Ups(at)' = Ups(at)
      BY <1>6
    <3>4. Ups(digest[i].at)' = Ups(at)'
      BY <1>1, <3>1 DEF Ups
    <3> QED
      BY <1>1, <3>1, <3>2, <3>3, <3>4 DEF IsTail
  <2> QED
    BY <1>1, <1>4, <2>2, <2>3 DEF SetupsInv
<1>9. BuffersInv'
  <2>1. \A b, o : Writers(b, o)' = Writers(b, o) /\ Written(b, o)' = Written(b, o)
    BY <1>1 DEF Writers, Written
  <2> QED
    BY <1>1, <2>1 DEF BuffersInv
<1>10. SightsInv'
  BY <1>1 DEF SightsInv
<1> QED
  BY <1>5, <1>8, <1>9, <1>10

(* Every step keeps the invariant. *)
LEMMA DigestStepInv ==
  ASSUME DigestInv, [DigestNext]_pdVars
  PROVE  DigestInv'
<1>1. /\ ReadInv /\ StopInv /\ EventsInv /\ SetupsInv /\ BuffersInv /\ SightsInv
      /\ Len(setups) <= SetupCap /\ pdPc \in {"idle", "scan", "done"}
      /\ pdPc = "idle" => stopHit = NoStop
  BY DEF DigestInv
<1>2. /\ fetched \in Nat /\ fetched \in 0 .. Window
      /\ rangeEnd \in Nat \cup {NotAnAddress, NoEnd}
  BY <1>1, PathDigestAssumption DEF ReadInv
<1>3. CASE DigestOp
  <2>1. ReadInv' /\ StopInv' /\ EventsInv' /\ SetupsInv' /\ BuffersInv' /\ SightsInv'
    BY <1>1, <1>3, ReadStep, EventsStep, SetupsStep, BuffersStep, SightsStep
  <2>2. pdPc' \in {"scan", "done"}
    BY <1>3 DEF DigestOp, InRange
  <2>3. Len(setups') <= SetupCap
    <3>1. PICK ins \in Listing : UpdateSetups(fetched, ins)
      BY <1>3 DEF DigestOp
    <3>2. CASE ~SetsUp(ins)
      BY <1>1, <3>1, <3>2 DEF UpdateSetups
    <3>3. CASE SetsUp(ins)
      <4>1. PICK t : t = Append(setups, fetched) /\ setups' = LastOf(t, SetupCap)
        BY <3>1, <3>3 DEF UpdateSetups
      <4>2. IsSeq(setups)
        BY <1>1, <1>2 DEF SetupsInv, IsTail
      <4>3. IsSeq(t)
        BY <4>1, <4>2, IsSeqAppend
      <4>4. SetupCap \in Nat
        BY PathDigestAssumption
      <4>5. Len(LastOf(t, SetupCap)) <= SetupCap
        BY <4>3, <4>4, LastOfIs
      <4> QED
        BY <4>1, <4>5
    <3> QED
      BY <3>2, <3>3
  <2> QED
    BY <2>1, <2>2, <2>3 DEF DigestInv
<1>4. CASE DigestStart
  <2>1. /\ pdPc = "idle" /\ pdPc' = "scan" /\ rangeEnd' \in Nat \cup {NotAnAddress, NoEnd}
        /\ UNCHANGED <<fetched, counted, digest, digestCut, sights, buffers, setups,
                       stopHit, listing>>
    BY <1>4, PathDigestAssumption DEF DigestStart
  <2>2. fetched = 0 /\ counted = 0 /\ Len(listing) = 0 /\ stopHit = NoStop
    BY <1>1, <2>1 DEF ReadInv
  <2>3. ReadInv'
    <3>1. EndRead' # NoEnd => EndRead' \in Nat /\ 0 <= EndRead'
      BY <2>1 DEF EndRead
    <3> QED
      BY <1>1, <2>1, <2>2, <3>1 DEF ReadInv
  <2>4. StopInv'
    BY <1>1, <2>1, <2>2 DEF StopInv
  <2>5. EventsInv' /\ SetupsInv' /\ BuffersInv' /\ SightsInv'
    BY <1>1, <1>2, <2>1, DigestRests
  <2> QED
    BY <1>1, <2>1, <2>3, <2>4, <2>5 DEF DigestInv
<1>5. CASE DigestSkips
  <2>1. /\ InRange /\ fetched' = fetched + 1
        /\ UNCHANGED <<pdPc, rangeEnd, stops, counted, digest, digestCut, sights, buffers,
                       setups, stopHit, listing>>
    BY <1>5 DEF DigestSkips
  <2>2. /\ pdPc = "scan" /\ fetched < Window
        /\ EndRead # NoEnd => fetched < EndRead /\ EndRead \in Nat
    BY <1>2, <2>1, EndIsAnAddress DEF InRange
  <2>3. ReadInv'
    <3>1. \A i \in 1 .. Len(listing) : listing[i].at < fetched + 1
      <4> TAKE i \in 1 .. Len(listing)
      <4>1. listing[i] \in ListingRow /\ listing[i].at < fetched
        BY <1>1, ElementOfSeq DEF ReadInv
      <4>2. PICK x \in Int : x = listing[i].at /\ x < fetched
        BY <4>1, PathDigestAssumption DEF ListingRow
      <4> QED
        BY <1>2, <4>2
    <3>2. fetched + 1 \in 0 .. Window /\ (EndRead # NoEnd => fetched + 1 <= EndRead)
      BY <1>2, <2>2, PathDigestAssumption
    <3>4. EndRead' = EndRead
      BY <2>1 DEF EndRead
    <3>3. counted = Len(listing) /\ counted <= fetched + 1
      <4>1. Len(listing) \in Nat
        BY <1>1, LenProperties DEF ReadInv
      <4> QED
        BY <1>1, <1>2, <4>1 DEF ReadInv
    <3> QED
      BY <1>1, <2>1, <2>2, <3>1, <3>2, <3>3, <3>4 DEF ReadInv
  <2>4. StopInv'
    BY <1>1, <2>1, <2>2 DEF StopInv
  <2>5. EventsInv' /\ SetupsInv' /\ BuffersInv' /\ SightsInv'
    BY <1>1, <1>2, <2>1, DigestRests
  <2> QED
    BY <1>1, <2>1, <2>3, <2>4, <2>5 DEF DigestInv
<1>6. CASE DigestEnds \/ UNCHANGED pdVars
  <2>1. /\ UNCHANGED <<rangeEnd, stops, fetched, counted, digest, digestCut, sights, buffers,
                       setups, stopHit, listing>>
        /\ \/ pdPc = "scan" /\ pdPc' = "done" /\ ~InRange
           \/ pdPc' = pdPc
    BY <1>6 DEF DigestEnds, pdVars
  <2>3. ReadInv'
    BY <1>1, <2>1 DEF ReadInv, EndRead
  <2>4. StopInv'
    <3>1. PastRange(fetched)' <=> PastRange(fetched)
      BY <2>1 DEF PastRange, EndRead
    <3> QED
      BY <1>1, <2>1, <3>1 DEF StopInv, InRange
  <2>5. EventsInv' /\ SetupsInv' /\ BuffersInv' /\ SightsInv'
    BY <1>1, <1>2, <2>1, DigestRests
  <2> QED
    BY <1>1, <2>1, <2>3, <2>4, <2>5 DEF DigestInv
<1> QED
  BY <1>3, <1>4, <1>5, <1>6 DEF DigestNext

(* The invariant holds the properties that are checked of a digest. *)
LEMMA DigestInvIsEnough ==
  ASSUME DigestInv
  PROVE  /\ DigestTypeOK /\ StopsWhereAsked /\ EventsAreWhole /\ CallsShowNearestSetup
         /\ BuffersHoldLastWrites
<1>1. /\ ReadInv /\ StopInv /\ EventsInv /\ SetupsInv /\ BuffersInv /\ SightsInv
      /\ Len(setups) <= SetupCap /\ pdPc \in {"idle", "scan", "done"}
  BY DEF DigestInv
<1>2. PICK n \in Nat : n = Len(listing) /\ DOMAIN listing = 1 .. n
  BY <1>1, LenProperties DEF ReadInv
<1>3. \A k \in 1 .. n : listing[k] \in ListingRow
  BY <1>1, <1>2, ElementOfSeq DEF ReadInv
<1>4. DigestTypeOK
  <2>1. counted \in 0 .. fetched
    BY <1>1, <1>2, PathDigestAssumption DEF ReadInv
  <2> QED
    BY <1>1, <2>1 DEF ReadInv, EventsInv, SightsInv, DigestTypeOK
<1>5. StopsWhereAsked
  <2>5. /\ rangeEnd \in Nat \cup {NotAnAddress, NoEnd} /\ fetched \in Nat
        /\ EndRead # NoEnd <=> rangeEnd \notin {NotAnAddress, NoEnd}
        /\ EndRead # NoEnd => EndRead = rangeEnd /\ rangeEnd \in Nat
        /\ PastRange(fetched) <=> EndRead # NoEnd /\ ~(fetched < EndRead)
    BY <1>1, EndIsAnAddress, PathDigestAssumption DEF ReadInv
  <2>1. \A i \in 1 .. n : rangeEnd \in RangeEnds \ {NotAnAddress, NoEnd} => listing[i].at < rangeEnd
    <3> TAKE i \in 1 .. n
    <3> HAVE rangeEnd \in RangeEnds \ {NotAnAddress, NoEnd}
    <3>1. PICK x \in Int : x = listing[i].at /\ x < fetched
      BY <1>1, <1>2, <1>3, PathDigestAssumption DEF ListingRow, ReadInv
    <3>2. fetched \in Int /\ rangeEnd \in Int /\ fetched <= rangeEnd
      BY <1>1, <2>5 DEF ReadInv
    <3> QED
      BY <3>1, <3>2
  <2>2. \A i \in 1 .. n : listing[i].at \in stops <=> listing[i].at = stopHit
    BY <1>1, <1>2 DEF StopInv
  <2>3. stopHit # NoStop => listing # <<>> /\ Last(listing).at = stopHit
    <3> HAVE stopHit # NoStop
    <3>1. Len(listing) # 0 /\ listing[Len(listing)].at = stopHit
      BY <1>1 DEF StopInv
    <3>2. Len(<<>>) = 0
      OBVIOUS
    <3> QED
      BY <3>1, <3>2 DEF Last
  <2>6. /\ Window \in Nat /\ fetched <= Window
        /\ pdPc = "done" /\ stopHit = NoStop => ~ (fetched < Window /\ ~PastRange(fetched))
    BY <1>1, PathDigestAssumption DEF StopInv, ReadInv
  <2>7. pdPc = "done" /\ stopHit = NoStop /\ rangeEnd \in {NotAnAddress, NoEnd}
          => fetched = Window
    BY <2>5, <2>6
  <2>4. pdPc = "done" /\ stopHit = NoStop /\ rangeEnd \notin {NotAnAddress, NoEnd}
          => fetched = Min({Window, rangeEnd})
    <3> SUFFICES ASSUME pdPc = "done", stopHit = NoStop, rangeEnd \notin {NotAnAddress, NoEnd}
                 PROVE  fetched = Min({Window, rangeEnd})
      OBVIOUS
    <3> DEFINE T == {Window, rangeEnd}
    <3>1. /\ ~ (fetched < Window /\ fetched < rangeEnd)
          /\ fetched \in Nat /\ Window \in Nat /\ rangeEnd \in Nat
          /\ fetched <= Window /\ fetched <= rangeEnd
      BY <1>1, <2>5, <2>6 DEF ReadInv
    <3>2. T \subseteq Nat /\ fetched \in T /\ \A x \in T : fetched <= x
      BY <3>1
    <3> HIDE DEF T
    <3>3. Min(T) \in T /\ \A x \in T : Min(T) <= x
      BY <3>2, MinIsLeast
    <3>4. PICK m \in Nat : m = Min(T) /\ fetched <= m /\ m <= fetched
      BY <3>2, <3>3
    <3>5. fetched = m
      BY <3>1, <3>4
    <3> QED
      BY <3>4, <3>5 DEF T
  <2> QED
    BY <1>2, <2>1, <2>2, <2>3, <2>4, <2>7 DEF StopsWhereAsked
<1>6. EventsAreWhole
  <2>1. DOMAIN digest = 1 .. Len(digest)
    BY <1>1, SeqIs DEF EventsInv
  <2>2. ~digestCut => \A k \in DOMAIN listing :
          LET ins == listing[k].ins
          IN  /\ CountOf(listing[k].at, "marker")
                   = Cardinality({c \in DOMAIN ins.consts : ins.consts[c] \in Markers})
              /\ Control(ins) # "none" => CountOf(listing[k].at, Control(ins)) = 1
              /\ ins.state => CountOf(listing[k].at, "state_write") = 1
    <3> SUFFICES ASSUME ~digestCut, NEW k \in 1 .. n
                 PROVE  LET ins == listing[k].ins
                        IN  /\ CountOf(listing[k].at, "marker")
                                 = Cardinality({c \in DOMAIN ins.consts : ins.consts[c] \in Markers})
                            /\ Control(ins) # "none" => CountOf(listing[k].at, Control(ins)) = 1
                            /\ ins.state => CountOf(listing[k].at, "state_write") = 1
      BY <1>2
    <3>1. Told(listing[k])
      BY <1>1, <1>2 DEF EventsInv
    <3>2. listing[k].ins \in Listing
      BY <1>3 DEF ListingRow
    <3>3. Marks(listing[k].ins)
            = Cardinality({c \in DOMAIN listing[k].ins.consts : listing[k].ins.consts[c] \in Markers})
      BY <3>2, MarksAre
    <3> QED
      BY <3>1, <3>3 DEF Told
  <2> QED
    BY <1>1, <2>1, <2>2 DEF EventsInv, EventsAreWhole
<1> QED
  BY <1>1, <1>4, <1>5, <1>6, SetupsAreEnough, BuffersAreEnough

-----------------------------------------------------------------------------
(***************************************************************************)
(* JumpTable: the entries of a table, and a slice of each target.          *)
(***************************************************************************)

-----------------------------------------------------------------------------
(* Numbers and their bytes *)

LEMMA DigitsApart ==
  ASSUME NEW a \in Nat, NEW c \in 0 .. ByteBase - 1
  PROVE  /\ a * ByteBase + c \in Nat
         /\ (a * ByteBase + c) \div ByteBase = a /\ (a * ByteBase + c) % ByteBase = c
<1>1. ByteBase \in Nat /\ ByteBase > 1 /\ c \in Nat /\ c < ByteBase
  BY BuffersAssumption
<1>2. PICK b \in Nat : b = ByteBase
  BY <1>1
<1>3. PICK m \in Nat : m = a * b
  BY <1>2
<1>4. m + c \in Nat /\ (m + c) \div b \in Int /\ (m + c) % b \in 0 .. b - 1
  BY <1>1, <1>2, <1>3
<1>5. m + c = b * ((m + c) \div b) + ((m + c) % b)
  BY <1>1, <1>2, <1>3
<1>6. PICK q \in Int : q = (m + c) \div b
  BY <1>4
<1>7. q = a
  <2>1. b * a + c = b * q + ((m + c) % b)
    BY <1>2, <1>3, <1>5, <1>6
  <2>2. ASSUME q >= a + 1 PROVE FALSE
    <3>1. b * q >= b * a + b
      BY <1>1, <1>2, <2>2
    <3>2. b * a \in Nat /\ b * q \in Int
      BY <1>2
    <3> QED
      BY <1>1, <1>2, <1>4, <2>1, <3>1, <3>2
  <2>3. ASSUME q <= a - 1 PROVE FALSE
    <3>1. b * q <= b * a - b
      BY <1>1, <1>2, <2>3
    <3>2. b * a \in Nat /\ b * q \in Int
      BY <1>2
    <3> QED
      BY <1>1, <1>2, <1>4, <2>1, <3>1, <3>2
  <2> QED
    BY <1>6, <2>2, <2>3
<1>8. (m + c) % b = c
  BY <1>1, <1>2, <1>3, <1>5, <1>6, <1>7
<1> QED
  BY <1>2, <1>3, <1>4, <1>6, <1>7, <1>8

(* LittleEndian goes through the bytes from the last to the first. *)
LEMMA LittleEndianRows ==
  ASSUME NEW chunk \in Seq(0 .. ByteBase - 1)
  PROVE  \E h : /\ h[0] = 0 /\ \A n \in 0 .. Len(chunk) : h[n] \in Nat
                /\ \A n \in 1 .. Len(chunk) :
                     h[n] = h[n - 1] * ByteBase + chunk[Len(chunk) - n + 1]
                /\ LittleEndian(chunk) = h[Len(chunk)]
<1> DEFINE len == Len(chunk)
           Onward(v, n) == v * ByteBase + chunk[len - n + 1]
           Upto(h, n) == [k \in 0 .. n |-> IF k = 0 THEN 0 ELSE Onward(h[k - 1], k)]
           G == {n \in 0 .. len : \E h : h = Upto(h, n)}
<1>1. len \in Nat /\ \A n \in 1 .. len : chunk[len - n + 1] \in 0 .. ByteBase - 1
  <2>1. len \in Nat
    BY LenProperties
  <2>2. \A n \in 1 .. len : len - n + 1 \in 1 .. len
    BY <2>1
  <2> QED
    BY <2>1, <2>2, ElementOfSeq
<1>2. LittleEndian(chunk) = (CHOOSE h : h = Upto(h, len))[len]
  BY DEF LittleEndian
<1> HIDE DEF Onward
<1>3. 0 \in G
  <2> DEFINE h == [k \in 0 .. 0 |-> 0]
  <2>1. h = Upto(h, 0) /\ 0 \in 0 .. len
    BY <1>1
  <2> QED
    BY <1>1, <2>1
<1>4. \A n \in 1 .. len : n - 1 \in G => n \in G
  <2> SUFFICES ASSUME NEW n \in 1 .. len, n - 1 \in G PROVE n \in G
    OBVIOUS
  <2>0. n \in 0 .. len
    BY <1>1
  <2>1. PICK h : h = Upto(h, n - 1)
    OBVIOUS
  <2> DEFINE g == Upto(h, n)
  <2>2. \A k \in 0 .. n - 1 : g[k] = h[k]
    <3> TAKE k \in 0 .. n - 1
    <3>1. k \in 0 .. n
      BY <1>1
    <3> QED
      BY <2>1, <3>1, Zenon
  <2>3. \A k \in 0 .. n : g[k] = IF k = 0 THEN 0 ELSE Onward(g[k - 1], k)
    <3> TAKE k \in 0 .. n
    <3>1. CASE k = 0
      BY <3>1
    <3>2. CASE k # 0
      <4>1. k - 1 \in 0 .. n - 1
        BY <1>1, <3>2
      <4> QED
        BY <2>2, <3>2, <4>1
    <3> QED
      BY <3>1, <3>2
  <2>4. g = [k \in 0 .. n |-> g[k]]
    OBVIOUS
  <2>5. g = Upto(g, n)
    BY <2>3, <2>4, Zenon
  <2> QED
    BY <2>0, <2>5
<1>5. len \in G
  <2> HIDE DEF G
  <2>1. \A n \in 0 .. len : n \in G
    BY <1>1, <1>3, <1>4, ClimbTo
  <2> QED
    BY <1>1, <2>1
<1> DEFINE M == CHOOSE m : m = Upto(m, len)
<1>6. M = Upto(M, len)
  BY <1>5
<1>7. LittleEndian(chunk) = M[len]
  BY <1>2
<1> HIDE DEF M, G
<1>8. M[0] = 0 /\ \A n \in 1 .. len : M[n] = Onward(M[n - 1], n)
  <2>1. 0 \in 0 .. len /\ \A n \in 1 .. len : n \in 0 .. len /\ n # 0
    BY <1>1
  <2>2. \A n \in 0 .. len : M[n] = IF n = 0 THEN 0 ELSE Onward(M[n - 1], n)
    BY <1>6, Zenon
  <2> QED
    BY <2>1, <2>2
<1>9. \A n \in 0 .. len : M[n] \in Nat
  <2> DEFINE N == {n \in 0 .. len : M[n] \in Nat}
  <2>1. 0 \in N
    BY <1>1, <1>8
  <2>2. \A n \in 1 .. len : n - 1 \in N => n \in N
    <3> SUFFICES ASSUME NEW n \in 1 .. len, M[n - 1] \in Nat PROVE M[n] \in Nat
      BY <1>1
    <3>1. M[n - 1] * ByteBase + chunk[len - n + 1] \in Nat
      BY <1>1, DigitsApart
    <3> QED
      BY <1>8, <3>1 DEF Onward
  <2> HIDE DEF N
  <2>3. \A n \in 0 .. len : n \in N
    BY <1>1, <2>1, <2>2, ClimbTo
  <2> QED
    BY <2>3 DEF N
<1> QED
  BY <1>7, <1>8, <1>9 DEF Onward

(* What LittleEndian read, Encode writes back. *)
LEMMA EncodeRestores ==
  ASSUME NEW chunk \in Seq(0 .. ByteBase - 1)
  PROVE  Encode(LittleEndian(chunk), Len(chunk)) = chunk
<1> DEFINE len == Len(chunk)
           v == LittleEndian(chunk)
           Rest(r) == [n \in 0 .. len |-> IF n = 0 THEN v ELSE r[n - 1] \div ByteBase]
<1>1. len \in Nat /\ DOMAIN chunk = 1 .. len /\ chunk = [i \in 1 .. len |-> chunk[i]]
      /\ \A n \in 1 .. len : chunk[n] \in 0 .. ByteBase - 1
  BY LenProperties, ElementOfSeq
<1>2. PICK h : /\ \A n \in 0 .. len : h[n] \in Nat
               /\ \A n \in 1 .. len : h[n] = h[n - 1] * ByteBase + chunk[len - n + 1]
               /\ v = h[len]
  BY LittleEndianRows
<1> HIDE DEF v
<1>3. \A k \in 1 .. len : /\ h[len - (k - 1)] \div ByteBase = h[len - k]
                          /\ h[len - (k - 1)] % ByteBase = chunk[k]
  <2> TAKE k \in 1 .. len
  <2> DEFINE n == len - (k - 1)
  <2>1. n \in 1 .. len /\ n - 1 = len - k /\ len - n + 1 = k /\ n - 1 \in 0 .. len
    BY <1>1
  <2> HIDE DEF n
  <2>2. h[n] = h[len - k] * ByteBase + chunk[k] /\ h[len - k] \in Nat
    BY <1>2, <2>1
  <2>3. chunk[k] \in 0 .. ByteBase - 1
    BY <1>1
  <2>4. PICK x \in Nat : x = h[len - k]
    BY <2>2
  <2>5. PICK c \in 0 .. ByteBase - 1 : c = chunk[k]
    BY <2>3
  <2>6. (x * ByteBase + c) \div ByteBase = x /\ (x * ByteBase + c) % ByteBase = c
    BY DigitsApart
  <2>7. h[n] = x * ByteBase + c
    BY <2>2, <2>4, <2>5
  <2> QED
    BY <2>4, <2>5, <2>6, <2>7 DEF n
<1>4. \E r : r = Rest(r)
  <2> DEFINE r == [k \in 0 .. len |-> h[len - k]]
  <2>1. \A k \in 0 .. len : r[k] = IF k = 0 THEN v ELSE r[k - 1] \div ByteBase
    <3> TAKE k \in 0 .. len
    <3>1. CASE k = 0
      <4>1. len - k = len
        BY <1>1, <3>1
      <4> QED
        BY <1>2, <3>1, <4>1
    <3>2. CASE k # 0
      <4>1. k - 1 \in 0 .. len /\ k \in 1 .. len
        BY <1>1, <3>2
      <4> QED
        BY <1>3, <3>2, <4>1
    <3> QED
      BY <3>1, <3>2
  <2>2. r = [k \in 0 .. len |-> r[k]]
    OBVIOUS
  <2>3. r = Rest(r)
    BY <2>1, <2>2, Zenon
  <2> QED
    BY <2>3
<1> DEFINE M == CHOOSE m : m = Rest(m)
<1>5. M = Rest(M)
  BY <1>4
<1>6. Encode(v, len) = [i \in 1 .. len |-> M[i - 1] % ByteBase]
  BY DEF Encode
<1> HIDE DEF M
<1>7. \A n \in 0 .. len : M[n] = IF n = 0 THEN v ELSE M[n - 1] \div ByteBase
  BY <1>5, Zenon
<1>8. \A n \in 0 .. len : M[n] = h[len - n]
  <2> DEFINE G == {n \in 0 .. len : M[n] = h[len - n]}
  <2>1. 0 \in G
    <3>1. 0 \in 0 .. len /\ len - 0 = len
      BY <1>1
    <3> QED
      BY <1>2, <1>7, <3>1
  <2>2. \A n \in 1 .. len : n - 1 \in G => n \in G
    <3> SUFFICES ASSUME NEW n \in 1 .. len, n - 1 \in G PROVE M[n] = h[len - n]
      BY <1>1
    <3>1. n \in 0 .. len /\ n # 0
      BY <1>1
    <3> QED
      BY <1>3, <1>7, <3>1
  <2> HIDE DEF G
  <2>3. \A n \in 0 .. len : n \in G
    BY <1>1, <2>1, <2>2, ClimbTo
  <2> QED
    BY <2>3 DEF G
<1>9. \A i \in 1 .. len : M[i - 1] % ByteBase = chunk[i]
  <2> TAKE i \in 1 .. len
  <2>1. i - 1 \in 0 .. len
    BY <1>1
  <2> QED
    BY <1>3, <1>8, <2>1
<1> QED
  BY <1>1, <1>6, <1>9 DEF v

-----------------------------------------------------------------------------
(* The entries *)

(* The entries es are what the bytes hold, and stop only where the bytes *)
(* do.                                                                   *)
TableRows(es, bytes, n, size, base) ==
  /\ Len(es) * size <= Len(bytes)
  /\ Len(es) < n => Len(bytes) - Len(es) * size < size
  /\ \A i \in 1 .. Len(es) :
       /\ Encode(es[i].target, size) = SubSeq(bytes, (i - 1) * size + 1, i * size)
       /\ base # Symbolic => es[i].address = base + es[i].index * size

(* ParseEntries reads the entries that are there. *)
LEMMA EntriesAre ==
  ASSUME NEW bytes \in Seq(0 .. ByteBase - 1), NEW n \in Nat, NEW size \in Nat \ {0},
         NEW base \in Nat \cup {Symbolic},
         NEW es, es = ParseEntries(bytes, n, size, base)
  PROVE  /\ IsSeq(es) /\ Len(es) \in Nat /\ DOMAIN es = 1 .. Len(es)
         /\ Len(es) <= n /\ \A i \in 1 .. Len(es) : es[i].target \in Nat
         /\ TableRows(es, bytes, n, size, base)
<1> DEFINE len == Len(bytes)
           q == len \div size
           m == Min({n, q})
           row(i) == [index |-> i - 1,
                      address |-> (IF base = Symbolic THEN 0 ELSE base) + (i - 1) * size,
                      target |-> LittleEndian(SubSeq(bytes, (i - 1) * size + 1, i * size))]
<1>1. len \in Nat
  BY LenProperties
<1>2. q \in Nat /\ q * size <= len /\ len - q * size < size
  BY <1>1
<1>3. m \in {n, q} /\ m <= n /\ m <= q
  <2> DEFINE T == {n, q}
  <2>1. T \subseteq Nat /\ T # {} /\ n \in T /\ q \in T
    BY <1>2
  <2> HIDE DEF T, q
  <2>2. Min(T) \in T /\ \A k \in T : Min(T) <= k
    BY <2>1, MinIsLeast
  <2> QED
    BY <2>1, <2>2 DEF T
<1>4. es = [i \in 1 .. m |-> row(i)]
  BY Zenon DEF ParseEntries
<1> HIDE DEF q, m, row
<1>5. m \in Nat /\ m * size <= q * size /\ (m < n => m = q)
  <2>1. m \in Nat /\ (m < n => m = q)
    BY <1>2, <1>3
  <2> QED
    BY <1>2, <1>3, <2>1
<1>6. DOMAIN es = 1 .. m /\ es = [i \in 1 .. m |-> es[i]]
  BY <1>4
<1>7. IsSeq(es) /\ Len(es) = m
  BY <1>5, <1>6, MapIsSeq
<1>8. m * size <= len /\ (m < n => len - m * size < size)
  BY <1>1, <1>2, <1>5
<1>9. ASSUME NEW i \in 1 .. m
      PROVE  /\ es[i].target \in Nat
             /\ Encode(es[i].target, size) = SubSeq(bytes, (i - 1) * size + 1, i * size)
             /\ base # Symbolic => es[i].address = base + es[i].index * size
  <2> DEFINE lo == (i - 1) * size
             hi == i * size
             chunk == SubSeq(bytes, lo + 1, hi)
  <2>1. es[i] = row(i)
    BY <1>4
  <2>2. lo \in Nat /\ hi \in Nat /\ hi = lo + size /\ hi <= len
    <3>1. i \in Nat /\ i <= m /\ i - 1 \in Nat
      BY <1>5
    <3>2. i * size <= m * size
      BY <1>5, <3>1
    <3>3. i * size = (i - 1) * size + size
      BY <3>1
    <3>4. (i - 1) * size \in Nat /\ i * size \in Nat /\ m * size \in Nat
      BY <1>5, <3>1
    <3> QED
      BY <1>1, <1>8, <3>2, <3>3, <3>4
  <2>3. es[i].target = LittleEndian(chunk)
    BY <2>1 DEF row
  <2>4. es[i].index = i - 1
        /\ (base # Symbolic => es[i].address = base + (i - 1) * size)
    BY <2>1 DEF row
  <2> HIDE DEF lo, hi
  <2>5. chunk \in Seq(0 .. ByteBase - 1) /\ Len(chunk) = size
    <3> DEFINE S == 0 .. ByteBase - 1
    <3>1. /\ lo + 1 \in 1 .. Len(bytes) + 1 /\ hi \in lo .. Len(bytes)
      BY <1>1, <2>2
    <3> HIDE DEF S
    <3>2. bytes \in Seq(S)
      BY DEF S
    <3>3. /\ SubSeq(bytes, lo + 1, hi) \in Seq(S)
          /\ Len(SubSeq(bytes, lo + 1, hi)) = IF lo + 1 <= hi THEN hi - (lo + 1) + 1 ELSE 0
      BY <2>2, <3>1, <3>2, SubSeqProperties
    <3> QED
      BY <2>2, <3>3 DEF S
  <2> HIDE DEF chunk
  <2>6. Encode(LittleEndian(chunk), size) = chunk
    BY <2>5, EncodeRestores
  <2>7. LittleEndian(chunk) \in Nat
    <3>1. Len(chunk) \in 0 .. Len(chunk)
      BY <2>5
    <3> QED
      BY <2>5, <3>1, LittleEndianRows
  <2> QED
    BY <2>3, <2>4, <2>6, <2>7 DEF chunk, lo, hi
<1> QED
  BY <1>3, <1>5, <1>6, <1>7, <1>8, <1>9 DEF TableRows

-----------------------------------------------------------------------------
(* The slices *)

(* The buffers of a slice have the bases of the writes that were chosen. *)
LEMMA WritesAreChosen ==
  ASSUME NEW ops, IsSeq(ops), NEW chosen
  PROVE  DOMAIN WritesOf(ops, chosen) \subseteq
           {ops[i].write.base : i \in {j \in chosen \cap DOMAIN ops : ops[j].write # NoWrite}}
<1> DEFINE len == Len(ops)
           Onward(v, n) == IF n \in chosen THEN AddWrite(v, ops[n].write) ELSE v
           Upto(h, n) == [k \in 0 .. n |-> IF k = 0 THEN <<>> ELSE Onward(h[k - 1], k)]
           G == {n \in 0 .. len : \E h : h = Upto(h, n)}
           Bases == {ops[i].write.base :
                       i \in {j \in chosen \cap DOMAIN ops : ops[j].write # NoWrite}}
<1>1. len \in Nat /\ DOMAIN ops = 1 .. len
  BY SeqIs
<1>2. WritesOf(ops, chosen) = (CHOOSE h : h = Upto(h, len))[len]
  BY DEF WritesOf
<1>3. ASSUME NEW v, NEW n \in 1 .. len, DOMAIN v \subseteq Bases
      PROVE  DOMAIN Onward(v, n) \subseteq Bases
  <2>1. CASE n \in chosen /\ ops[n].write # NoWrite
    <3>1. DOMAIN Onward(v, n) = DOMAIN v \cup {ops[n].write.base}
      BY <2>1 DEF AddWrite
    <3>2. ops[n].write.base \in Bases
      BY <1>1, <2>1
    <3> QED
      BY <1>3, <3>1, <3>2
  <2>2. CASE ~ (n \in chosen /\ ops[n].write # NoWrite)
    <3>1. Onward(v, n) = v
      BY <2>2 DEF AddWrite
    <3> QED
      BY <1>3, <3>1
  <2> QED
    BY <2>1, <2>2
<1> HIDE DEF Onward, Bases
<1>4. 0 \in G
  <2> DEFINE h == [k \in 0 .. 0 |-> <<>>]
  <2>1. h = Upto(h, 0) /\ 0 \in 0 .. len
    BY <1>1
  <2> QED
    BY <1>1, <2>1
<1>5. \A n \in 1 .. len : n - 1 \in G => n \in G
  <2> SUFFICES ASSUME NEW n \in 1 .. len, n - 1 \in G PROVE n \in G
    OBVIOUS
  <2>0. n \in 0 .. len
    BY <1>1
  <2>1. PICK h : h = Upto(h, n - 1)
    OBVIOUS
  <2> DEFINE g == Upto(h, n)
  <2>2. \A k \in 0 .. n - 1 : g[k] = h[k]
    <3> TAKE k \in 0 .. n - 1
    <3>1. k \in 0 .. n
      BY <1>1
    <3> QED
      BY <2>1, <3>1, Zenon
  <2>3. \A k \in 0 .. n : g[k] = IF k = 0 THEN <<>> ELSE Onward(g[k - 1], k)
    <3> TAKE k \in 0 .. n
    <3>1. CASE k = 0
      BY <3>1
    <3>2. CASE k # 0
      <4>1. k - 1 \in 0 .. n - 1
        BY <1>1, <3>2
      <4> QED
        BY <2>2, <3>2, <4>1
    <3> QED
      BY <3>1, <3>2
  <2>4. g = [k \in 0 .. n |-> g[k]]
    OBVIOUS
  <2>5. g = Upto(g, n)
    BY <2>3, <2>4, Zenon
  <2> QED
    BY <2>0, <2>5
<1>6. len \in G
  <2> HIDE DEF G
  <2>1. \A n \in 0 .. len : n \in G
    BY <1>1, <1>4, <1>5, ClimbTo
  <2> QED
    BY <1>1, <2>1
<1> DEFINE M == CHOOSE m : m = Upto(m, len)
<1>7. M = Upto(M, len)
  BY <1>6
<1>8. WritesOf(ops, chosen) = M[len]
  BY <1>2
<1> HIDE DEF M, G
<1>9. M[0] = <<>> /\ \A n \in 1 .. len : M[n] = Onward(M[n - 1], n)
  <2>1. 0 \in 0 .. len /\ \A n \in 1 .. len : n \in 0 .. len /\ n # 0
    BY <1>1
  <2>2. \A n \in 0 .. len : M[n] = IF n = 0 THEN <<>> ELSE Onward(M[n - 1], n)
    BY <1>7, Zenon
  <2> QED
    BY <2>1, <2>2
<1>10. DOMAIN M[len] \subseteq Bases
  <2> DEFINE N == {n \in 0 .. len : DOMAIN M[n] \subseteq Bases}
  <2>1. 0 \in N
    <3>1. DOMAIN (<<>>) = {}
      OBVIOUS
    <3> QED
      BY <1>1, <1>9, <3>1
  <2>2. \A n \in 1 .. len : n - 1 \in N => n \in N
    <3> SUFFICES ASSUME NEW n \in 1 .. len, DOMAIN M[n - 1] \subseteq Bases
                 PROVE  DOMAIN M[n] \subseteq Bases
      BY <1>1
    <3>1. DOMAIN Onward(M[n - 1], n) \subseteq Bases
      BY <1>3
    <3> QED
      BY <1>9, <3>1
  <2> HIDE DEF N
  <2>3. \A n \in 0 .. len : n \in N
    BY <1>1, <2>1, <2>2, ClimbTo
  <2> QED
    BY <1>1, <2>3 DEF N
<1> QED
  BY <1>8, <1>10 DEF Bases

(* What is summarised of a slice is within the bytes it was asked for. *)
StaysInRange(slice) ==
  LET sum == slice.summary
      near == {i \in DOMAIN slice.ops :
                 /\ slice.ops[i].at # NoAddr
                 /\ slice.ops[i].at < SliceBytes}
  IN  /\ sum.raw <= Cardinality(near)
      /\ sum.calls <= Cardinality({i \in near : ~slice.ops[i].invalid /\ slice.ops[i].call})
      /\ DOMAIN sum.buffers \subseteq
           {slice.ops[i].write.base :
              i \in {j \in near : /\ ~slice.ops[j].invalid
                                  /\ slice.ops[j].write # NoWrite}}

LEMMA SliceStaysInRange ==
  ASSUME NEW ops, IsSeq(ops), NEW slice,
         slice.ops = ops, slice.summary = SummarizeSlice(ops)
  PROVE  StaysInRange(slice)
<1> DEFINE S == InSlice(ops)
           valid == {i \in S : ~ops[i].invalid}
           bufs == WritesOf(ops, valid)
           near == {i \in DOMAIN ops : ops[i].at # NoAddr /\ ops[i].at < SliceBytes}
           called == {i \in valid : ops[i].call}
           nearCalled == {i \in near : ~ops[i].invalid /\ ops[i].call}
           nearWrites == {j \in near : ~ops[j].invalid /\ ops[j].write # NoWrite}
<1>1. Len(ops) \in Nat /\ DOMAIN ops = 1 .. Len(ops)
  BY SeqIs
<1>2. S \subseteq near
  BY <1>1 DEF InSlice
<1>3. IsFiniteSet(near)
  <2>1. IsFiniteSet(DOMAIN ops)
    <3>1. PICK n \in Nat : n = Len(ops)
      BY <1>1
    <3> QED
      BY <1>1, <3>1, FS_Interval
  <2>2. near \subseteq DOMAIN ops
    OBVIOUS
  <2> HIDE DEF near
  <2> QED
    BY <2>1, <2>2, FS_Subset
<1>4. /\ slice.summary.raw = Cardinality(S)
      /\ slice.summary.calls = Cardinality(called)
      /\ DOMAIN slice.summary.buffers = {x \in DOMAIN bufs : IsShown(bufs[x])}
  BY DEF SummarizeSlice
<1>5. called \subseteq nearCalled /\ nearCalled \subseteq near
  BY <1>2
<1>6. DOMAIN bufs \subseteq {ops[i].write.base : i \in nearWrites}
  <2>1. DOMAIN bufs \subseteq
          {ops[i].write.base : i \in {j \in valid \cap DOMAIN ops : ops[j].write # NoWrite}}
    BY WritesAreChosen
  <2>2. {j \in valid \cap DOMAIN ops : ops[j].write # NoWrite} \subseteq nearWrites
    BY <1>2
  <2> HIDE DEF valid, nearWrites
  <2> QED
    BY <2>1, <2>2
<1>7. near = {i \in DOMAIN slice.ops : slice.ops[i].at # NoAddr /\ slice.ops[i].at < SliceBytes}
      /\ nearCalled = {i \in near : ~slice.ops[i].invalid /\ slice.ops[i].call}
      /\ nearWrites = {j \in near : ~slice.ops[j].invalid /\ slice.ops[j].write # NoWrite}
      /\ {ops[i].write.base : i \in nearWrites} = {slice.ops[i].write.base : i \in nearWrites}
  OBVIOUS
<1> HIDE DEF S, near, called, nearCalled, nearWrites
<1>8. Cardinality(S) <= Cardinality(near) /\ Cardinality(called) <= Cardinality(nearCalled)
  BY <1>2, <1>3, <1>5, FS_Subset
<1>9. DOMAIN slice.summary.buffers \subseteq {slice.ops[i].write.base : i \in nearWrites}
  BY <1>4, <1>6, <1>7
<1> QED
  BY <1>4, <1>7, <1>8, <1>9 DEF StaysInRange

-----------------------------------------------------------------------------
(* The tool *)

(* The request, once its arguments are clamped. *)
TableKnown ==
  /\ count \in 0 .. MaxEntries
  /\ jtPc \in {"table", "slices", "done"} =>
       pointer \in Nat \ {0} /\ tableAt \in Nat \cup {Symbolic}

(* The entries are those of the bytes that were read. *)
EntriesFollow ==
  /\ IsSeq(entries) /\ Len(entries) <= count
  /\ jtPc \in {"slices", "done"} =>
       /\ raw \in Seq(0 .. ByteBase - 1)
       /\ entries = ParseEntries(raw, count, pointer, tableAt)

(* The targets sliced and those to do are those of the entries, each once. *)
SlicesFollow ==
  /\ IsSeq(slices)
  /\ \A k \in 1 .. Len(slices) : StaysInRange(slices[k])
  /\ jtPc \in {"idle", "table"} => slices = <<>>
  /\ jtPc \in {"slices", "done"} =>
       /\ todo \subseteq Nat
       /\ {slices[k].target : k \in 1 .. Len(slices)} \cup todo
            = {entries[i].target : i \in 1 .. Len(entries)}
       /\ \A k \in 1 .. Len(slices) : slices[k].target \notin todo
       /\ \A j, k \in 1 .. Len(slices) : slices[j].target = slices[k].target => j = k
  /\ jtPc = "done" => todo = {}

(* What is true of the tool between any two of its steps. *)
TableInv ==
  /\ jtPc \in {"idle", "table", "slices", "done", "failed"}
  /\ TableKnown /\ EntriesFollow /\ SlicesFollow
  /\ jtPc \in {"idle", "table"} => entries = <<>>

LEMMA TableInitInv ==
  ASSUME TableInit
  PROVE  TableInv
<1>1. /\ jtPc = "idle" /\ count = 0 /\ entries = <<>> /\ slices = <<>>
  BY DEF TableInit
<1>2. IsSeq(<<>>) /\ Len(<<>>) = 0 /\ 1 .. 0 = {}
  BY EmptySeq DEF IsSeq
<1>3. TableKnown
  BY <1>1, JumpTableAssumption DEF TableKnown
<1>4. EntriesFollow
  <2>1. IsSeq(entries) /\ Len(entries) = 0
    BY <1>1, <1>2
  <2> QED
    BY <1>1, <2>1 DEF EntriesFollow
<1>5. SlicesFollow
  <2>1. IsSeq(slices) /\ 1 .. Len(slices) = {}
    BY <1>1, <1>2
  <2> QED
    BY <1>1, <2>1 DEF SlicesFollow
<1> QED
  BY <1>1, <1>3, <1>4, <1>5 DEF TableInv

LEMMA ClampIs ==
  ASSUME NEW n \in Nat
  PROVE  ClampCount(n) \in 0 .. MaxEntries
<1> DEFINE T == {n, MaxEntries}
           m == Min(T)
           S == {1, m}
<1>1. MaxEntries \in Nat /\ MaxEntries >= 1
  BY JumpTableAssumption
<1>2. m \in Nat /\ m <= MaxEntries
  <2>1. T \subseteq Nat /\ MaxEntries \in T
    BY <1>1
  <2> HIDE DEF T
  <2>2. Min(T) \in T /\ \A k \in T : Min(T) <= k
    BY <2>1, MinIsLeast
  <2> QED
    BY <2>1, <2>2
<1> HIDE DEF m
<1>3. \E x \in S : \A y \in S : x >= y
  <2>1. CASE m >= 1
    BY <1>2, <2>1
  <2>2. CASE ~ (m >= 1)
    BY <1>2, <2>2
  <2> QED
    BY <2>1, <2>2
<1>4. Max(S) \in S
  BY <1>3 DEF Max
<1>5. Max(S) \in 0 .. MaxEntries
  BY <1>1, <1>2, <1>4
<1> QED
  BY <1>5 DEF ClampCount, m

(* Every step keeps the invariant. *)
LEMMA TableStepInv ==
  ASSUME TableInv, [TableNext]_jtVars
  PROVE  TableInv'
<1>1. CASE TableStart
  <2>1. PICK n \in EntryCounts, size \in PointerSizes, base \in TableBases :
          /\ tableAt' = base /\ count' = ClampCount(n)
          /\ pointer' = IF size = 0 THEN 4 ELSE size
          /\ jtPc' = IF size \in {0, 1, 2, 4, 8} THEN "table" ELSE "failed"
    BY <1>1 DEF TableStart
  <2>2. jtPc = "idle" /\ UNCHANGED <<raw, entries, todo, slices>>
    BY <1>1 DEF TableStart
  <2>3. count' \in 0 .. MaxEntries
    BY <2>1, ClampIs, JumpTableAssumption
  <2>4. pointer' \in Nat \ {0} \/ jtPc' = "failed"
    BY <2>1, JumpTableAssumption
  <2>5. tableAt' \in Nat \cup {Symbolic} /\ jtPc' \in {"table", "failed"}
    BY <2>1, JumpTableAssumption
  <2>6. TableKnown'
    BY <2>3, <2>4, <2>5 DEF TableKnown
  <2>7. entries = <<>> /\ slices = <<>> /\ IsSeq(entries) /\ IsSeq(slices)
    BY <2>2 DEF TableInv, SlicesFollow, EntriesFollow
  <2>8. Len(entries) = 0 /\ Len(slices) = 0
    BY <2>7, SeqIs
  <2>9. EntriesFollow'
    BY <2>2, <2>3, <2>5, <2>7, <2>8 DEF EntriesFollow
  <2>10. SlicesFollow'
    BY <2>2, <2>5, <2>7, <2>8 DEF SlicesFollow
  <2> QED
    BY <2>2, <2>5, <2>6, <2>7, <2>9, <2>10 DEF TableInv
<1>2. CASE ReadTable
  <2>1. PICK bytes \in TableBytes :
          IF bytes = NotBytes
          THEN jtPc' = "failed" /\ UNCHANGED <<raw, entries, todo>>
          ELSE LET es == ParseEntries(bytes, count, pointer, tableAt)
               IN     /\ Len(bytes) <= count * pointer
                      /\ raw' = bytes
                      /\ entries' = es
                      /\ todo' = {es[i].target : i \in DOMAIN es}
                      /\ jtPc' = "slices"
    BY <1>2 DEF ReadTable
  <2>2. jtPc = "table" /\ UNCHANGED <<count, pointer, tableAt, slices>>
    BY <1>2 DEF ReadTable
  <2>3. /\ slices = <<>> /\ IsSeq(slices) /\ IsSeq(entries) /\ Len(entries) <= count
        /\ count \in 0 .. MaxEntries /\ count \in Nat
        /\ pointer \in Nat \ {0} /\ tableAt \in Nat \cup {Symbolic}
    BY <2>2, JumpTableAssumption DEF TableInv, TableKnown, EntriesFollow, SlicesFollow
  <2>4. Len(slices) = 0
    BY <2>3, SeqIs
  <2>5. CASE bytes = NotBytes
    <3>1. jtPc' = "failed" /\ entries' = entries
      BY <2>1, <2>5
    <3> QED
      BY <2>2, <2>3, <2>4, <3>1 DEF TableInv, TableKnown, EntriesFollow, SlicesFollow
  <2>6. CASE bytes # NotBytes
    <3>1. PICK es : es = ParseEntries(bytes, count, pointer, tableAt)
      OBVIOUS
    <3>2. /\ raw' = bytes /\ entries' = es /\ jtPc' = "slices"
          /\ todo' = {es[i].target : i \in DOMAIN es}
      BY <2>1, <2>6, <3>1
    <3>3. bytes \in Seq(0 .. ByteBase - 1)
      BY <2>6, JumpTableAssumption
    <3>4. /\ IsSeq(es) /\ DOMAIN es = 1 .. Len(es) /\ Len(es) <= count
          /\ \A i \in 1 .. Len(es) : es[i].target \in Nat
      BY <2>3, <3>1, <3>3, EntriesAre
    <3>5. TableKnown'
      BY <2>2, <2>3 DEF TableKnown
    <3>6. EntriesFollow'
      BY <2>2, <3>1, <3>2, <3>3, <3>4 DEF EntriesFollow
    <3>7. SlicesFollow'
      <4>1. todo' = {es[i].target : i \in 1 .. Len(es)} /\ todo' \subseteq Nat
        BY <3>2, <3>4
      <4>2. 1 .. Len(slices') = {} /\ IsSeq(slices')
        BY <2>2, <2>3, <2>4
      <4>3. {slices'[k].target : k \in 1 .. Len(slices')} = {}
        BY <4>2
      <4> QED
        BY <3>2, <4>1, <4>2, <4>3 DEF SlicesFollow
    <3> QED
      BY <3>2, <3>5, <3>6, <3>7 DEF TableInv
  <2> QED
    BY <2>5, <2>6
<1>3. CASE ReadSlice
  <2>1. PICK ops \in SliceOps :
          slices' = Append(slices, [target |-> Min(todo), ops |-> ops,
                                    summary |-> SummarizeSlice(ops)])
    BY <1>3 DEF ReadSlice
  <2>2. PICK slice, next : /\ slice = [target |-> Min(todo), ops |-> ops,
                                       summary |-> SummarizeSlice(ops)]
                           /\ next = Min(todo)
    OBVIOUS
  <2>3. /\ slices' = Append(slices, slice) /\ todo' = todo \ {next} /\ todo # {}
        /\ slice.target = next /\ slice.ops = ops /\ slice.summary = SummarizeSlice(ops)
        /\ jtPc = "slices" /\ UNCHANGED <<jtPc, count, pointer, tableAt, raw, entries>>
    BY <1>3, <2>1, <2>2 DEF ReadSlice
  <2>4. StaysInRange(slice)
    <3>1. IsSeq(ops)
      BY JumpTableAssumption DEF IsSeq
    <3> QED
      BY <2>3, <3>1, SliceStaysInRange
  <2>5. /\ IsSeq(slices) /\ todo \subseteq Nat
        /\ \A k \in 1 .. Len(slices) : StaysInRange(slices[k])
        /\ {slices[k].target : k \in 1 .. Len(slices)} \cup todo
             = {entries[i].target : i \in 1 .. Len(entries)}
        /\ \A k \in 1 .. Len(slices) : slices[k].target \notin todo
        /\ \A j, k \in 1 .. Len(slices) : slices[j].target = slices[k].target => j = k
    BY <2>3 DEF TableInv, SlicesFollow
  <2>6. next \in todo
    BY <2>2, <2>3, <2>5, MinIsLeast
  <2>7. PICK n \in Nat : n = Len(slices)
    BY <2>5, SeqIs
  <2>8. /\ IsSeq(slices') /\ Len(slices') = n + 1 /\ slices'[n + 1] = slice
        /\ \A k \in 1 .. n : slices'[k] = slices[k]
        /\ \A k \in 1 .. n + 1 : k = n + 1 \/ k \in 1 .. n
    <3>1. /\ IsSeq(Append(slices, slice)) /\ Len(Append(slices, slice)) = Len(slices) + 1
          /\ \A k \in 1 .. Len(slices) : Append(slices, slice)[k] = slices[k]
          /\ Append(slices, slice)[Len(slices) + 1] = slice
      BY <2>5, IsSeqAppend
    <3> QED
      BY <2>3, <2>7, <3>1
  <2>9. \A k \in 1 .. n + 1 : StaysInRange(slices'[k])
    BY <2>4, <2>5, <2>7, <2>8
  <2>10. {slices'[k].target : k \in 1 .. n + 1} = {slices[k].target : k \in 1 .. n} \cup {next}
    <3>1. n + 1 \in 1 .. n + 1 /\ \A k \in 1 .. n : k \in 1 .. n + 1
      BY <2>7
    <3> QED
      BY <2>3, <2>8, <3>1
  <2>11. \A k \in 1 .. n + 1 : slices'[k].target \notin todo'
    BY <2>3, <2>5, <2>7, <2>8
  <2>12. \A j, k \in 1 .. n + 1 : slices'[j].target = slices'[k].target => j = k
    BY <2>3, <2>5, <2>6, <2>7, <2>8
  <2>13. {slices'[k].target : k \in 1 .. n + 1} \cup todo'
           = {entries[i].target : i \in 1 .. Len(entries)}
    BY <2>3, <2>5, <2>6, <2>7, <2>10
  <2>14. SlicesFollow'
    <3>1. todo' \subseteq Nat /\ jtPc' = "slices" /\ entries' = entries
      BY <2>3, <2>5
    <3>2. PICK m : m = n + 1
      OBVIOUS
    <3>3. /\ IsSeq(slices') /\ Len(slices') = m
          /\ \A k \in 1 .. m : StaysInRange(slices'[k])
          /\ \A k \in 1 .. m : slices'[k].target \notin todo'
          /\ \A j, k \in 1 .. m : slices'[j].target = slices'[k].target => j = k
          /\ {slices'[k].target : k \in 1 .. m} \cup todo'
               = {entries[i].target : i \in 1 .. Len(entries)}
      BY <2>8, <2>9, <2>11, <2>12, <2>13, <3>2
    <3>4. \A k \in 1 .. m : StaysInRange(slices[k])'
      <4> TAKE k \in 1 .. m
      <4>1. StaysInRange(slices'[k])
        BY <3>3
      <4> QED
        BY <4>1 DEF StaysInRange
    <3> QED
      BY <3>1, <3>3, <3>4 DEF SlicesFollow
  <2>15. TableKnown' /\ EntriesFollow'
    BY <2>3 DEF TableInv, TableKnown, EntriesFollow
  <2> QED
    BY <2>3, <2>14, <2>15 DEF TableInv
<1>4. CASE TableEnds \/ TableFails \/ UNCHANGED jtVars
  <2>1. UNCHANGED <<count, pointer, tableAt, raw, entries, todo, slices>>
    BY <1>4 DEF TableEnds, TableFails, jtVars
  <2>2. \/ jtPc = "slices" /\ jtPc' = "done" /\ todo = {}
        \/ jtPc' = "failed"
        \/ jtPc' = jtPc
    BY <1>4 DEF TableEnds, TableFails, jtVars
  <2>3. TableKnown'
    BY <2>1, <2>2 DEF TableInv, TableKnown
  <2>4. EntriesFollow'
    BY <2>1, <2>2 DEF TableInv, EntriesFollow
  <2>5. SlicesFollow'
    BY <2>1, <2>2 DEF TableInv, SlicesFollow
  <2> QED
    BY <2>1, <2>2, <2>3, <2>4, <2>5 DEF TableInv
<1> QED
  BY <1>1, <1>2, <1>3, <1>4 DEF TableNext

(* The invariant holds the properties that are checked of a jump table. *)
LEMMA TableInvIsEnough ==
  ASSUME TableInv
  PROVE  TableTypeOK /\ EntriesAreTheTable /\ TargetsOnce /\ SlicesStayInRange
<1>1. DOMAIN slices = 1 .. Len(slices) /\ DOMAIN entries = 1 .. Len(entries)
  BY SeqIs DEF TableInv, EntriesFollow, SlicesFollow
<1>2. TableTypeOK
  BY DEF TableInv, TableKnown, EntriesFollow, TableTypeOK
<1>3. EntriesAreTheTable
  <2> SUFFICES ASSUME jtPc \in {"slices", "done"} PROVE EntriesAreTheTable
    BY DEF EntriesAreTheTable
  <2>1. /\ raw \in Seq(0 .. ByteBase - 1) /\ count \in Nat /\ pointer \in Nat \ {0}
        /\ tableAt \in Nat \cup {Symbolic}
        /\ entries = ParseEntries(raw, count, pointer, tableAt)
    BY DEF TableInv, TableKnown, EntriesFollow
  <2>2. TableRows(entries, raw, count, pointer, tableAt)
    BY <2>1, EntriesAre
  <2> QED
    BY <1>1, <2>2, Zenon DEF EntriesAreTheTable, TableRows
<1>4. TargetsOnce
  <2> SUFFICES ASSUME jtPc = "done" PROVE TargetsOnce
    BY DEF TargetsOnce
  <2>1. /\ todo = {}
        /\ {slices[k].target : k \in 1 .. Len(slices)} \cup todo
             = {entries[i].target : i \in 1 .. Len(entries)}
        /\ \A j, k \in 1 .. Len(slices) : slices[j].target = slices[k].target => j = k
    BY DEF TableInv, SlicesFollow
  <2> QED
    BY <1>1, <2>1 DEF TargetsOnce
<1>5. SlicesStayInRange
  <2>1. \A k \in DOMAIN slices : StaysInRange(slices[k])
    BY <1>1 DEF TableInv, SlicesFollow
  <2> QED
    BY <2>1, Zenon DEF SlicesStayInRange, StaysInRange
<1> QED
  BY <1>2, <1>3, <1>4, <1>5

-----------------------------------------------------------------------------
(***************************************************************************)
(* ArtifactEmulator: the machine.                                          *)
(***************************************************************************)

-----------------------------------------------------------------------------
(* Words and bytes *)

LEMMA DivideOnce ==
  ASSUME NEW v \in Nat, NEW b \in Nat \ {0}
  PROVE  /\ v \div b \in Nat /\ v % b \in 0 .. b - 1
         /\ v = b * (v \div b) + (v % b)
OBVIOUS

LEMMA QuotientBelow ==
  ASSUME NEW v \in Nat, NEW b \in Nat \ {0}, NEW n \in Nat, v < b * n
  PROVE  v \div b < n
<1>1. PICK q \in Nat, c \in Nat : q = v \div b /\ v = b * q + c
  BY DivideOnce
<1>2. ASSUME q >= n PROVE FALSE
  <2>1. b * q >= b * n
    BY <1>2
  <2>2. b * q \in Nat /\ b * n \in Nat
    OBVIOUS
  <2> QED
    BY <1>1, <2>1, <2>2
<1> QED
  BY <1>1, <1>2

LEMMA DivideTwice ==
  ASSUME NEW v \in Nat, NEW b \in Nat \ {0}, NEW c \in Nat \ {0}
  PROVE  (v \div b) \div c = v \div (b * c)
<1>1. PICK q \in Nat, x \in 0 .. b - 1 : q = v \div b /\ v = b * q + x
  BY DivideOnce
<1>2. PICK r \in Nat, y \in 0 .. c - 1 : r = q \div c /\ q = c * r + y
  BY DivideOnce
<1>3. PICK d \in Nat \ {0} : d = b * c
  OBVIOUS
<1>4. PICK s \in Nat, z \in 0 .. d - 1 : s = v \div d /\ v = d * s + z
  BY DivideOnce
<1>5. v = d * r + (b * y + x)
  <2>1. b * q = b * (c * r) + b * y
    <3>1. PICK t \in Nat : t = c * r
      OBVIOUS
    <3>2. b * (t + y) = b * t + b * y
      OBVIOUS
    <3> QED
      BY <1>2, <3>1, <3>2
  <2>2. b * (c * r) = d * r
    BY <1>3
  <2> QED
    BY <1>1, <2>1, <2>2
<1>6. b * y + x \in 0 .. d - 1
  <2>1. b * y <= b * (c - 1)
    OBVIOUS
  <2>2. b * (c - 1) = d - b
    BY <1>3
  <2>3. b * y \in Nat /\ b * (c - 1) \in Nat
    OBVIOUS
  <2> QED
    BY <2>1, <2>2, <2>3
<1>7. s = r
  <2>0. d * s \in Nat /\ d * r \in Nat
    OBVIOUS
  <2>1. ASSUME s >= r + 1 PROVE FALSE
    <3>1. d * s >= d * r + d
      BY <2>1
    <3> QED
      BY <1>4, <1>5, <1>6, <2>0, <3>1
  <2>2. ASSUME r >= s + 1 PROVE FALSE
    <3>1. d * r >= d * s + d
      BY <2>2
    <3> QED
      BY <1>4, <1>5, <1>6, <2>0, <3>1
  <2> QED
    BY <2>1, <2>2
<1> QED
  BY <1>1, <1>2, <1>3, <1>4, <1>7

Words == 0 .. Word - 1
Bytes == 0 .. Base - 1

LEMMA Powers ==
  /\ Base \in Nat /\ Base >= 2
  /\ Word \in Nat /\ Word >= 16 /\ Word = Base * (Base * (Base * Base))
  /\ Base * Base \in Nat /\ Base * Base >= 4
  /\ Base * (Base * Base) \in Nat /\ Base * (Base * Base) >= 8
  /\ Base * Base <= Word /\ Base <= Word /\ Word = (Base * Base) * (Base * Base)
  /\ Pow[1] = 1 /\ Pow[2] = Base /\ Pow[3] = Base * Base /\ Pow[4] = Base * (Base * Base)
<1>1. Base \in Nat /\ Base >= 2
  BY EmulatorAssumption
<1>2. PICK b \in Nat : b = Base /\ b >= 2
  BY <1>1
<1>3. PICK c \in Nat : c = b * b /\ c >= 4 /\ c >= b
  <2>1. b * b >= 2 * b
    BY <1>2
  <2>2. b * b \in Nat /\ b * b >= 4 /\ b * b >= b
    BY <1>2, <2>1
  <2> QED
    BY <2>2
<1>4. PICK d \in Nat : d = b * c /\ d >= 8 /\ d >= c
  <2>1. b * c >= 2 * c
    BY <1>2
  <2>2. b * c \in Nat /\ b * c >= 8 /\ b * c >= c
    BY <1>2, <1>3, <2>1
  <2> QED
    BY <2>2
<1>5. PICK w \in Nat : w = b * d /\ w >= 16 /\ w >= d
  <2>1. b * d >= 2 * d
    BY <1>2
  <2>2. b * d \in Nat /\ b * d >= 16 /\ b * d >= d
    BY <1>2, <1>4, <2>1
  <2> QED
    BY <2>2
<1>6. b * b * b * b = w /\ c * c = w /\ b * b * b = d
  BY <1>3, <1>4, <1>5
<1>7. Pow[1] = 1 /\ Pow[2] = b /\ Pow[3] = b * b /\ Pow[4] = b * b * b
  BY <1>2 DEF Pow
<1> QED
  BY <1>2, <1>3, <1>4, <1>5, <1>6, <1>7 DEF Word

-----------------------------------------------------------------------------
(* The machine *)

(* A flag is known or it is not. *)
Flags == BOOLEAN \cup {Unknown}

FiniteInts == {S \in SUBSET Int : IsFiniteSet(S)}

Machines == [regs : [Regs -> Words], memory : UNION {[S -> Bytes] : S \in FiniteInts},
             zf : Flags, sf : Flags, cf : Flags]

LEMMA MachineIs ==
  ASSUME NEW m \in Machines
  PROVE  /\ m.regs \in [Regs -> Words] /\ DOMAIN m.memory \in FiniteInts
         /\ DOMAIN m.memory \subseteq Int
         /\ \A a \in DOMAIN m.memory : m.memory[a] \in Bytes
         /\ \A a : ByteAt(m, a) \in Bytes
<1>1. PICK S \in FiniteInts : m.memory \in [S -> Bytes]
  BY DEF Machines
<1>2. 0 \in Bytes
  BY Powers DEF Bytes
<1>3. S \in SUBSET Int
  BY DEF FiniteInts
<1> QED
  BY <1>1, <1>2, <1>3 DEF ByteAt, Machines

LEMMA RegIs ==
  ASSUME NEW m \in Machines, NEW r \in RegOperands
  PROVE  Reg(m, r) \in Words
<1> DEFINE v == m.regs[r.reg]
<1>1. v \in Words /\ v \in Nat
  BY MachineIs DEF RegOperands, Words
<1> HIDE DEF v
<1>0. Base \in Nat \ {0}
  BY Powers
<1>2. v % Base \in Words
  <2>1. v % Base \in 0 .. Base - 1
    BY <1>0, <1>1, DivideOnce
  <2> QED
    BY <2>1, Powers DEF Words
<1>3. (v \div Base) % Base \in Words
  <2>1. v \div Base \in Nat
    BY <1>0, <1>1, DivideOnce
  <2>2. (v \div Base) % Base \in 0 .. Base - 1
    BY <1>0, <2>1, DivideOnce
  <2> QED
    BY <2>2, Powers DEF Words
<1>4. v % Pow[3] \in Words
  <2>1. v % (Base * Base) \in 0 .. Base * Base - 1
    <3>1. PICK b \in Nat \ {0} : b = Base * Base
      BY Powers
    <3>2. v % b \in 0 .. b - 1
      BY <1>1, DivideOnce
    <3> QED
      BY <3>1, <3>2
  <2> QED
    BY <2>1, Powers DEF Words
<1>5. r.part \in {"low", "high", "half", "full"}
  BY DEF RegOperands
<1> QED
  BY <1>1, <1>2, <1>3, <1>4, <1>5 DEF Reg, v

(* A word with its low part replaced is a word. *)
LEMMA LowPart ==
  ASSUME NEW v \in Words, NEW x \in Nat, NEW b \in Nat \ {0}, NEW n \in Nat, Word = b * n
  PROVE  (v - (v % b)) + (x % b) \in Words
<1>1. v \in Nat /\ Word \in Nat /\ v < Word
  BY Powers DEF Words
<1>2. PICK q \in Nat, c \in 0 .. b - 1 : q = v \div b /\ c = v % b /\ v = b * q + c
  <2>1. /\ v \div b \in Nat /\ v % b \in 0 .. b - 1
        /\ v = b * (v \div b) + (v % b)
    BY <1>1, DivideOnce
  <2> QED
    BY <2>1
<1>3. PICK d \in 0 .. b - 1 : d = x % b
  BY DivideOnce
<1>4. q < n
  BY <1>1, <1>2, QuotientBelow
<1>5. b * q + b <= Word
  <2>1. b * q + b <= b * n
    <3>1. q + 1 <= n
      BY <1>4
    <3>2. b * (q + 1) <= b * n
      BY <3>1
    <3> QED
      BY <3>2
  <2> QED
    BY <2>1
<1>6. b * q \in Nat
  OBVIOUS
<1>7. b * q + d \in Words
  BY <1>1, <1>3, <1>5, <1>6 DEF Words
<1>8. (v - c) + d = b * q + d
  BY <1>1, <1>2, <1>6
<1> QED
  BY <1>2, <1>3, <1>7, <1>8

LEMMA HighPart ==
  ASSUME NEW v \in Words, NEW x \in Nat
  PROVE  v + ((x % Base) - ((v \div Base) % Base)) * Base \in Words
<1>0. PICK b \in Nat \ {0}, bb \in Nat \ {0} :
        b = Base /\ bb = b * b /\ Word = bb * bb /\ Word = b * (b * bb) /\ bb * bb \in Nat
  BY Powers
<1>1. v \in Nat /\ Word \in Nat /\ v < Word
  BY Powers DEF Words
<1>2. PICK q \in Nat, c \in 0 .. b - 1 : q = v \div b /\ v = b * q + c
  <2>1. /\ v \div b \in Nat /\ v % b \in 0 .. b - 1
        /\ v = b * (v \div b) + (v % b)
    BY <1>1, DivideOnce
  <2> QED
    BY <2>1
<1>3. PICK r \in Nat, d \in 0 .. b - 1 : r = q \div b /\ d = q % b /\ q = b * r + d
  <2>1. /\ q \div b \in Nat /\ q % b \in 0 .. b - 1
        /\ q = b * (q \div b) + (q % b)
    BY DivideOnce
  <2> QED
    BY <2>1
<1>4. PICK e \in 0 .. b - 1 : e = x % b
  BY DivideOnce
<1>5. q < b * bb
  <2>1. b * bb \in Nat
    BY <1>0
  <2> QED
    BY <1>0, <1>1, <1>2, <2>1, QuotientBelow
<1>6. r < bb
  <2>1. q \div b < bb
    BY <1>5, QuotientBelow
  <2> QED
    BY <1>3, <2>1
<1>7. PICK p \in Nat : p = bb * r /\ p + bb <= Word
  <2>1. bb * (r + 1) <= bb * bb
    BY <1>6
  <2>2. bb * (r + 1) = bb * r + bb
    OBVIOUS
  <2> QED
    BY <1>0, <2>1, <2>2
<1>8. v = p + b * d + c
  <2>1. b * (b * r + d) = b * (b * r) + b * d
    OBVIOUS
  <2>2. b * (b * r) = bb * r
    BY <1>0
  <2> QED
    BY <1>2, <1>3, <1>7, <2>1, <2>2
<1>9. (e - d) * b = b * e - b * d
  OBVIOUS
<1>10. b * e \in Nat /\ b * d \in Nat /\ b * e + b <= bb
  <2>1. b * (e + 1) <= b * b
    OBVIOUS
  <2>2. b * (e + 1) = b * e + b
    OBVIOUS
  <2> QED
    BY <1>0, <2>1, <2>2
<1>11. v + (e - d) * b = p + b * e + c
  BY <1>8, <1>9, <1>10
<1>12. p + b * e + c \in Words
  BY <1>1, <1>7, <1>10 DEF Words
<1> QED
  BY <1>0, <1>2, <1>3, <1>4, <1>11, <1>12

LEMMA SetRegIs ==
  ASSUME NEW m \in Machines, NEW r \in RegOperands, NEW value \in Words
  PROVE  SetReg(m, r, value) \in Machines
<1> DEFINE v == m.regs[r.reg]
           low == (v - (v % Base)) + (value % Base)
           high == v + ((value % Base) - ((v \div Base) % Base)) * Base
           half == (v - (v % Pow[3])) + (value % Pow[3])
           next == CASE r.part = "low"  -> low
                     [] r.part = "high" -> high
                     [] r.part = "half" -> half
                     [] r.part = "full" -> value
<1>1. v \in Words /\ value \in Nat /\ r.part \in {"low", "high", "half", "full"} /\ r.reg \in Regs
  BY MachineIs DEF RegOperands, Words
<1>2. SetReg(m, r, value) = [m EXCEPT !.regs[r.reg] = next]
  BY DEF SetReg
<1> HIDE DEF v
<1>3. low \in Words
  <2>1. Base * (Base * Base) \in Nat /\ Base \in Nat \ {0} /\ Word = Base * (Base * (Base * Base))
    BY Powers
  <2> QED
    BY <1>1, <2>1, LowPart
<1>4. high \in Words
  BY <1>1, HighPart
<1>5. half \in Words
  <2>1. PICK b \in Nat \ {0} : b = Base * Base /\ b = Pow[3] /\ Word = b * b
    BY Powers
  <2>2. (v - (v % b)) + (value % b) \in Words
    BY <1>1, <2>1, LowPart
  <2> QED
    BY <2>1, <2>2
<1> HIDE DEF low, high, half
<1>6. next \in Words
  BY <1>1, <1>3, <1>4, <1>5
<1> HIDE DEF next
<1>7. [m EXCEPT !.regs[r.reg] = next] \in Machines
  BY <1>1, <1>6 DEF Machines
<1> QED
  BY <1>2, <1>7

LEMMA WordOf ==
  ASSUME NEW x \in Int
  PROVE  x % Word \in Words
<1>1. PICK w \in Nat \ {0} : w = Word
  BY Powers
<1>2. x % w \in 0 .. w - 1
  OBVIOUS
<1> QED
  BY <1>1, <1>2 DEF Words

LEMMA WordIs ==
  ASSUME NEW v \in Words
  PROVE  v \in Nat /\ v < Word /\ Signed(v) \in Int
<1>1. PICK w \in Nat : w = Word
  BY Powers
<1>2. v \in Nat /\ v < w
  BY <1>1 DEF Words
<1>3. v - w \in Int
  BY <1>2
<1> QED
  BY <1>1, <1>2, <1>3 DEF Signed

(* eval_expr ends in a word, whatever its terms. *)
(* An address expression is a word however many terms it has. *)
LEMMA ExprIsWord ==
  ASSUME NEW m \in Machines, NEW o \in MemOperands
  PROVE  EvalExpr(m, o) \in Words /\ MemAddr(m, o) \in Int
<1> DEFINE len == Len(o.terms)
           term(k) == Reg(m, o.terms[k][1]) * o.terms[k][2]
           Onward(v, k) == (v + term(k)) % Word
           Upto(h) == [k \in 0 .. len |-> IF k = 0 THEN o.disp % Word ELSE Onward(h[k - 1], k)]
           M == CHOOSE h : h = Upto(h)
<1>1. len \in Nat /\ o.disp \in Int /\ \A k \in 1 .. len : term(k) \in Int
  <2>1. o.terms \in Seq(RegOperands \X Int) /\ o.disp \in Int
    BY DEF MemOperands
  <2>2. len \in Nat
    BY <2>1, LenProperties
  <2>3. ASSUME NEW k \in 1 .. len PROVE term(k) \in Int
    <3>1. o.terms[k] \in RegOperands \X Int
      BY <2>1, ElementOfSeq
    <3>2. PICK r \in RegOperands, n \in Int : r = o.terms[k][1] /\ n = o.terms[k][2]
      BY <3>1
    <3>3. PICK v \in Nat : v = Reg(m, r)
      BY RegIs, WordIs
    <3>4. v * n \in Int
      OBVIOUS
    <3> QED
      BY <3>2, <3>3, <3>4
  <2> QED
    BY <2>1, <2>2, <2>3
<1>2. EvalExpr(m, o) = M[len]
  BY DEF EvalExpr
<1>3. \A v \in Words, k \in 1 .. len : Onward(v, k) \in Words
  <2> TAKE v \in Words, k \in 1 .. len
  <2>1. PICK n \in Int : n = term(k)
    BY <1>1
  <2>2. v + n \in Int
    BY WordIs
  <2> QED
    BY <2>1, <2>2, WordOf
<1>4. o.disp % Word \in Words
  BY <1>1, WordOf
<1> HIDE DEF len, Onward
<1>5. PICK f : /\ f \in [0 .. len -> Words] /\ f[0] = o.disp % Word
               /\ \A k \in 1 .. len : f[k] = Onward(f[k - 1], k)
  <2> DEFINE step == [k \in 1 .. len |-> [v \in Words |-> Onward(v, k)]]
  <2>1. step \in [1 .. len -> [Words -> Words]]
    BY <1>3
  <2>2. \A k \in 1 .. len, v \in Words : step[k][v] = Onward(v, k)
    OBVIOUS
  <2> HIDE DEF step
  <2>3. PICK f : Stepwise(f, len, Words, o.disp % Word, step)
    BY <1>1, <1>4, <2>1, StepByStep
  <2>4. /\ f \in [0 .. len -> Words] /\ f[0] = o.disp % Word
        /\ \A k \in 1 .. len : f[k] = step[k][f[k - 1]]
    BY <2>3 DEF Stepwise
  <2>5. \A k \in 1 .. len : f[k - 1] \in Words
    <3> TAKE k \in 1 .. len
    <3>1. k - 1 \in 0 .. len
      BY <1>1
    <3> QED
      BY <2>4, <3>1
  <2>6. \A k \in 1 .. len : f[k] = Onward(f[k - 1], k)
    <3> TAKE k \in 1 .. len
    <3>1. PICK v \in Words : v = f[k - 1]
      BY <2>5
    <3>2. step[k][v] = Onward(v, k)
      BY <2>2
    <3> QED
      BY <2>4, <3>1, <3>2
  <2> QED
    BY <2>4, <2>6
<1>6. f = Upto(f)
  <2>1. \A k \in 0 .. len : f[k] = IF k = 0 THEN o.disp % Word ELSE Onward(f[k - 1], k)
    <3> TAKE k \in 0 .. len
    <3>1. k = 0 \/ k \in 1 .. len
      BY <1>1
    <3> QED
      BY <1>5, <3>1
  <2>2. f = [k \in 0 .. len |-> f[k]]
    BY <1>5
  <2> QED
    BY <2>1, <2>2, Zenon
<1>7. M = Upto(M)
  BY <1>6
<1> HIDE DEF M
<1>8. \A k \in 0 .. len : M[k] = IF k = 0 THEN o.disp % Word ELSE Onward(M[k - 1], k)
  BY <1>7, Zenon
<1> DEFINE G == {k \in 0 .. len : M[k] \in Words}
<1>9. \A k \in 0 .. len : k \in G
  <2>1. 0 \in G
    <3>1. 0 \in 0 .. len
      BY <1>1
    <3> QED
      BY <1>4, <1>8, <3>1
  <2>2. \A k \in 1 .. len : k - 1 \in G => k \in G
    <3> TAKE k \in 1 .. len
    <3>1. k \in 0 .. len /\ k # 0
      BY <1>1
    <3> QED
      BY <1>3, <1>8, <3>1
  <2> HIDE DEF G
  <2> QED
    BY <1>1, <2>1, <2>2, ClimbTo
<1>10. M[len] \in Words
  BY <1>1, <1>9
<1> QED
  BY <1>2, <1>10, WordIs DEF MemAddr

(* The number that four bytes hold, the lowest first. *)
(* The word of four bytes, the lowest first. *)
Little(a, b, c, d) ==
  a + b * Base + c * (Base * Base) + d * (Base * (Base * Base))

LEMMA BytesBound ==
  ASSUME NEW a \in Bytes, NEW b \in Bytes, NEW c \in Bytes, NEW d \in Bytes
  PROVE  /\ a \in Words
         /\ a + b * Base \in Words
         /\ a + b * Base + c * (Base * Base) \in Words
         /\ Little(a, b, c, d) \in Words
<1>1. PICK x \in Nat : x = Base /\ x >= 2
  BY Powers
<1>2. PICK y \in Nat, z \in Nat, w \in Nat :
        /\ y = x * x /\ z = x * y /\ w = x * z /\ w = Word
        /\ y = Base * Base /\ z = Base * (Base * Base)
  BY <1>1, Powers
<1>3. a \in 0 .. x - 1 /\ b \in 0 .. x - 1 /\ c \in 0 .. x - 1 /\ d \in 0 .. x - 1
  BY <1>1 DEF Bytes
<1>4. PICK p \in Nat : p = b * x /\ p <= y - x
  <2>1. b * x <= (x - 1) * x
    BY <1>1, <1>3
  <2>2. (x - 1) * x = y - x /\ b * x \in Nat
    BY <1>2, <1>3
  <2> QED
    BY <2>1, <2>2
<1>5. PICK q \in Nat : q = c * y /\ q <= z - y
  <2>1. c * y <= (x - 1) * y
    BY <1>1, <1>3
  <2>2. (x - 1) * y = z - y /\ c * y \in Nat
    BY <1>2, <1>3
  <2> QED
    BY <2>1, <2>2
<1>6. PICK r \in Nat : r = d * z /\ r <= w - z
  <2>1. d * z <= (x - 1) * z
    BY <1>1, <1>3
  <2>2. (x - 1) * z = w - z /\ d * z \in Nat
    BY <1>2, <1>3
  <2> QED
    BY <2>1, <2>2
<1>7. x <= y /\ y <= z /\ z <= w
  BY <1>1, <1>2, <1>4, <1>5, <1>6
<1>8. a \in 0 .. w - 1 /\ a + p \in 0 .. w - 1 /\ a + p + q \in 0 .. w - 1
      /\ a + p + q + r \in 0 .. w - 1
  BY <1>3, <1>4, <1>5, <1>6, <1>7
<1>9. Words = 0 .. w - 1
  BY <1>2 DEF Words
<1>10. b * Base = p /\ c * (Base * Base) = q /\ d * (Base * (Base * Base)) = r
  BY <1>1, <1>2, <1>4, <1>5, <1>6
<1> QED
  BY <1>8, <1>9, <1>10 DEF Little

(* read_value reads a word, and four bytes when asked for four. *)
LEMMA ReadIs ==
  ASSUME NEW m \in Machines, NEW a \in Int, NEW size \in Nat \ {0}
  PROVE  /\ ReadValue(m, a, size) \in Words
         /\ size = 4 => ReadValue(m, a, size) = Little(ByteAt(m, a), ByteAt(m, a + 1),
                                                       ByteAt(m, a + 2), ByteAt(m, a + 3))
<1> DEFINE Onward(v, n) == v + ByteAt(m, a + n - 1) * Pow[n]
           Upto(h) == [n \in 0 .. 4 |-> IF n = 0 THEN 0 ELSE Onward(h[n - 1], n)]
           M == CHOOSE h : h = Upto(h)
<1>1. ReadValue(m, a, size) = M[Width(size)]
  BY DEF ReadValue
<1>2. PICK b \in Bytes, c \in Bytes, d \in Bytes, e \in Bytes :
        /\ b = ByteAt(m, a) /\ c = ByteAt(m, a + 1)
        /\ d = ByteAt(m, a + 2) /\ e = ByteAt(m, a + 3)
  BY MachineIs
<1>3. PICK p \in Words, q \in Words, r \in Words :
        /\ b \in Words /\ p = b + c * Base /\ q = p + d * (Base * Base)
        /\ r = q + e * (Base * (Base * Base)) /\ r = Little(b, c, d, e)
  BY BytesBound DEF Little
<1>4. b \in Nat
  BY <1>3, WordIs
<1>5. Onward(0, 1) = b /\ Onward(b, 2) = p /\ Onward(p, 3) = q /\ Onward(q, 4) = r
  <2>1. a + 1 - 1 = a /\ a + 2 - 1 = a + 1 /\ a + 3 - 1 = a + 2 /\ a + 4 - 1 = a + 3
    OBVIOUS
  <2>2. 0 + b * 1 = b
    BY <1>4
  <2> QED
    BY <1>2, <1>3, <2>1, <2>2, Powers
<1> HIDE DEF Onward
<1> DEFINE f == [n \in 0 .. 4 |-> IF n = 0 THEN 0 ELSE IF n = 1 THEN b ELSE IF n = 2 THEN p
                                  ELSE IF n = 3 THEN q ELSE r]
<1>6. f[0] = 0 /\ f[1] = b /\ f[2] = p /\ f[3] = q /\ f[4] = r
  OBVIOUS
<1>7. f = Upto(f)
  <2>1. \A n \in 0 .. 4 : f[n] = IF n = 0 THEN 0 ELSE Onward(f[n - 1], n)
    <3> TAKE n \in 0 .. 4
    <3> HIDE DEF f
    <3>1. n = 0 \/ n = 1 \/ n = 2 \/ n = 3 \/ n = 4
      OBVIOUS
    <3>2. 1 - 1 = 0 /\ 2 - 1 = 1 /\ 3 - 1 = 2 /\ 4 - 1 = 3
      OBVIOUS
    <3> QED
      BY <1>5, <1>6, <3>1, <3>2
  <2>2. f = [n \in 0 .. 4 |-> f[n]]
    OBVIOUS
  <2> HIDE DEF f
  <2> QED
    BY <2>1, <2>2, Zenon
<1> HIDE DEF f
<1>8. M = Upto(M)
  BY <1>7
<1> HIDE DEF M
<1>9. \A n \in 0 .. 4 : M[n] = IF n = 0 THEN 0 ELSE Onward(M[n - 1], n)
  BY <1>8, Zenon
<1>10. M[1] = b /\ M[2] = p /\ M[3] = q /\ M[4] = r
  <2>1. 1 - 1 = 0 /\ 2 - 1 = 1 /\ 3 - 1 = 2 /\ 4 - 1 = 3
    OBVIOUS
  <2>2. M[0] = 0
    BY <1>9
  <2>3. M[1] = b
    BY <1>5, <1>9, <2>1, <2>2
  <2>4. M[2] = p
    BY <1>5, <1>9, <2>1, <2>3
  <2>5. M[3] = q
    BY <1>5, <1>9, <2>1, <2>4
  <2>6. M[4] = r
    BY <1>5, <1>9, <2>1, <2>5
  <2> QED
    BY <2>3, <2>4, <2>5, <2>6
<1>11. Width(size) \in 1 .. 4 /\ (size = 4 => Width(size) = 4)
  BY DEF Width
<1>12. M[Width(size)] \in Words
  <2>1. Width(size) = 1 \/ Width(size) = 2 \/ Width(size) = 3 \/ Width(size) = 4
    BY <1>11
  <2> QED
    BY <1>3, <1>10, <2>1
<1> QED
  BY <1>1, <1>2, <1>3, <1>10, <1>11, <1>12

LEMMA WriteIs ==
  ASSUME NEW m \in Machines, NEW a \in Int, NEW value \in Words, NEW size \in Nat \ {0}
  PROVE  LET w == WriteValue(m, a, value, size)
         IN  /\ w \in Machines /\ w.regs = m.regs
             /\ size = 4 => /\ ByteAt(w, a) = value % Base
                            /\ ByteAt(w, a + 1) = (value \div Base) % Base
                            /\ ByteAt(w, a + 2) = (value \div (Base * Base)) % Base
                            /\ ByteAt(w, a + 3) = (value \div (Base * (Base * Base))) % Base
<1> DEFINE written == a .. a + Width(size) - 1
           digit(b) == (value \div Pow[b - a + 1]) % Base
           mem == [b \in DOMAIN m.memory \cup written |->
                     IF b \in written THEN digit(b) ELSE m.memory[b]]
           w == WriteValue(m, a, value, size)
<1>1. Width(size) \in 1 .. 4 /\ (size = 4 => Width(size) = 4)
  BY DEF Width
<1>2. w = [m EXCEPT !.memory = mem]
  BY DEF WriteValue
<1>3. PICK S \in FiniteInts : m.memory \in [S -> Bytes]
  BY DEF Machines
<1>4. PICK y \in Nat \ {0}, z \in Nat \ {0}, x \in Nat \ {0} :
        /\ x = Base /\ y = Base * Base /\ z = Base * (Base * Base)
        /\ Pow[1] = 1 /\ Pow[2] = x /\ Pow[3] = y /\ Pow[4] = z
  BY Powers
<1>5. value \in Nat /\ value \div 1 = value
  BY WordIs
<1>6. ASSUME NEW b \in written PROVE digit(b) \in Bytes /\ b \in Int
  <2>1. b \in Int /\ b - a + 1 \in 1 .. 4
    BY <1>1
  <2>2. PICK p \in Nat \ {0} : p = Pow[b - a + 1]
    BY <1>4, <2>1
  <2>3. value \div p \in Nat
    BY <1>5, DivideOnce
  <2>4. (value \div p) % x \in 0 .. x - 1
    BY <2>3, DivideOnce
  <2> QED
    BY <1>4, <2>1, <2>2, <2>4 DEF Bytes
<1> DEFINE T == S \cup written
<1>7. mem \in [T -> Bytes] /\ T \in FiniteInts
  <2>1. DOMAIN m.memory = S /\ \A b \in S : m.memory[b] \in Bytes
    BY <1>3
  <2>2. S \in SUBSET Int /\ IsFiniteSet(S)
    BY DEF FiniteInts
  <2>3. IsFiniteSet(written)
    BY <1>1, FS_Interval
  <2> HIDE DEF written, digit
  <2>4. IsFiniteSet(T)
    BY <2>2, <2>3, FS_Union
  <2> QED
    BY <1>6, <2>1, <2>2, <2>4 DEF FiniteInts
<1> HIDE DEF mem
<1>8. w \in Machines /\ w.regs = m.regs /\ w.memory = mem
  <2> HIDE DEF T
  <2> QED
    BY <1>2, <1>7 DEF Machines
<1>9. ASSUME size = 4
      PROVE  /\ ByteAt(w, a) = value % Base
             /\ ByteAt(w, a + 1) = (value \div Base) % Base
             /\ ByteAt(w, a + 2) = (value \div (Base * Base)) % Base
             /\ ByteAt(w, a + 3) = (value \div (Base * (Base * Base))) % Base
  <2>1. a \in written /\ a + 1 \in written /\ a + 2 \in written /\ a + 3 \in written
    BY <1>1, <1>9
  <2>2. \A b \in written : ByteAt(w, b) = digit(b)
    <3> HIDE DEF written, digit
    <3> QED
      BY <1>8 DEF ByteAt, mem
  <2>3. a - a + 1 = 1 /\ (a + 1) - a + 1 = 2 /\ (a + 2) - a + 1 = 3 /\ (a + 3) - a + 1 = 4
    OBVIOUS
  <2>4. /\ digit(a) = (value \div Pow[1]) % Base
        /\ digit(a + 1) = (value \div Pow[2]) % Base
        /\ digit(a + 2) = (value \div Pow[3]) % Base
        /\ digit(a + 3) = (value \div Pow[4]) % Base
    BY <2>3
  <2> HIDE DEF written, digit
  <2> QED
    BY <1>4, <1>5, <2>1, <2>2, <2>4
<1> QED
  BY <1>8, <1>9

(* A word is the number its four bytes hold. *)
LEMMA DigitsMake ==
  ASSUME NEW v \in Words
  PROVE  Little(v % Base, (v \div Base) % Base, (v \div (Base * Base)) % Base,
                (v \div (Base * (Base * Base))) % Base) = v
<1>1. PICK x \in Nat \ {0}, y \in Nat \ {0}, z \in Nat \ {0}, w \in Nat :
        /\ x = Base /\ y = Base * Base /\ z = Base * (Base * Base)
        /\ y = x * x /\ z = x * y /\ w = x * z /\ w = Word /\ z = y * x /\ w = z * x
  <2>1. PICK x \in Nat \ {0} : x = Base
    BY Powers
  <2>2. PICK y \in Nat \ {0} : y = x * x
    BY <2>1, Powers
  <2>3. PICK z \in Nat \ {0} : z = x * y
    BY <2>1, <2>2, Powers
  <2>4. PICK w \in Nat : w = x * z /\ w = Word
    BY <2>1, <2>2, <2>3, Powers
  <2>5. z = y * x /\ w = z * x
    BY <2>3, <2>4
  <2> QED
    BY <2>1, <2>2, <2>3, <2>4, <2>5
<1>2. v \in Nat /\ v < w
  BY <1>1, WordIs
<1>3. PICK p \in Nat, a \in 0 .. x - 1 : p = v \div x /\ a = v % x /\ v = x * p + a
  <2>1. /\ v \div x \in Nat /\ v % x \in 0 .. x - 1 /\ v = x * (v \div x) + (v % x)
    BY <1>2, DivideOnce
  <2> QED
    BY <2>1
<1>4. PICK q \in Nat, b \in 0 .. x - 1 : q = p \div x /\ b = p % x /\ p = x * q + b
  <2>1. /\ p \div x \in Nat /\ p % x \in 0 .. x - 1 /\ p = x * (p \div x) + (p % x)
    BY DivideOnce
  <2> QED
    BY <2>1
<1>5. PICK r \in Nat, c \in 0 .. x - 1 : r = q \div x /\ c = q % x /\ q = x * r + c
  <2>1. /\ q \div x \in Nat /\ q % x \in 0 .. x - 1 /\ q = x * (q \div x) + (q % x)
    BY DivideOnce
  <2> QED
    BY <2>1
<1>6. q = v \div y
  <2>1. (v \div x) \div x = v \div (x * x)
    BY <1>2, DivideTwice
  <2> QED
    BY <1>1, <1>3, <1>4, <2>1
<1>7. r = v \div z
  <2>1. (v \div y) \div x = v \div (y * x)
    BY <1>2, DivideTwice
  <2> QED
    BY <1>1, <1>5, <1>6, <2>1
<1>8. r < x
  <2>1. v \div z < x
    BY <1>1, <1>2, QuotientBelow
  <2> QED
    BY <1>7, <2>1
<1>9. r % x = r
  BY <1>8
<1>10. v = a + b * x + c * y + r * z
  <2>1. x * p = x * (x * q) + x * b
    <3>1. PICK t \in Nat : t = x * q
      OBVIOUS
    <3>2. x * (t + b) = x * t + x * b
      OBVIOUS
    <3> QED
      BY <1>4, <3>1, <3>2
  <2>2. x * (x * q) = y * q
    BY <1>1
  <2>3. y * q = y * (x * r) + y * c
    <3>1. PICK t \in Nat : t = x * r
      OBVIOUS
    <3>2. y * (t + c) = y * t + y * c
      OBVIOUS
    <3> QED
      BY <1>5, <3>1, <3>2
  <2>4. y * (x * r) = z * r
    BY <1>1
  <2>5. x * b = b * x /\ y * c = c * y /\ z * r = r * z
    OBVIOUS
  <2>6. x * p \in Nat /\ y * q \in Nat /\ b * x \in Nat /\ c * y \in Nat /\ r * z \in Nat
    OBVIOUS
  <2> QED
    BY <1>3, <2>1, <2>2, <2>3, <2>4, <2>5, <2>6
<1> QED
  BY <1>1, <1>3, <1>4, <1>6, <1>7, <1>5, <1>9, <1>10 DEF Little

LEMMA OperandIsWord ==
  ASSUME NEW m \in Machines, NEW o \in RegOperands \cup MemOperands \cup ImmOperands
  PROVE  EvalOperand(m, o) \in Words
<1>1. CASE o \in RegOperands
  BY <1>1, RegIs DEF EvalOperand, RegOperands
<1>2. CASE o \in ImmOperands
  BY <1>2, WordOf DEF EvalOperand, ImmOperands
<1>3. CASE o \in MemOperands
  <2>1. o.kind = "mem" /\ EvalOperand(m, o) = ReadValue(m, MemAddr(m, o), 4)
    BY <1>3 DEF EvalOperand, MemOperands
  <2>2. MemAddr(m, o) \in Int
    BY <1>3, ExprIsWord
  <2>3. ReadValue(m, MemAddr(m, o), 4) \in Words
    BY <2>2, ReadIs
  <2> QED
    BY <2>1, <2>3
<1> QED
  BY <1>1, <1>2, <1>3

LEMMA FlaggedIs ==
  ASSUME NEW m \in Machines, NEW value, NEW c \in Flags
  PROVE  Flagged(m, value) \in Machines /\ [Flagged(m, value) EXCEPT !.cf = c] \in Machines
<1>1. (value = 0) \in Flags /\ (2 * value >= Word) \in Flags
  BY DEF Flags
<1>2. PICK z \in Flags, s \in Flags : z = (value = 0) /\ s = (2 * value >= Word)
  BY <1>1
<1>3. Flagged(m, value) = [m EXCEPT !.zf = z, !.sf = s]
  BY <1>2 DEF Flagged
<1>4. [m EXCEPT !.zf = z, !.sf = s] \in Machines
  BY DEF Machines
<1>5. \A n \in Machines : [n EXCEPT !.cf = c] \in Machines
  BY DEF Machines
<1> QED
  BY <1>3, <1>4, <1>5

-----------------------------------------------------------------------------
(* Bit by bit *)

LEMMA Doubles ==
  /\ WordBits \in Nat /\ TwoTo[WordBits] = Word /\ TwoTo[0] = 1
  /\ \A n \in 0 .. WordBits : TwoTo[n] \in Nat
  /\ \A n \in 1 .. WordBits : TwoTo[n] = 2 * TwoTo[n - 1]
<1> DEFINE Onward(v) == 2 * v
           Upto(h) == [n \in 0 .. WordBits |-> IF n = 0 THEN 1 ELSE Onward(h[n - 1])]
<1>1. WordBits \in Nat /\ TwoTo[WordBits] = Word
  BY WordAssumption
<1>2. TwoTo = CHOOSE h : h = Upto(h)
  BY DEF TwoTo
<1>3. \A v \in Nat : Onward(v) \in Nat
  OBVIOUS
<1> HIDE DEF Onward
<1>4. PICK f : /\ f \in [0 .. WordBits -> Nat] /\ f[0] = 1
               /\ \A k \in 1 .. WordBits : f[k] = Onward(f[k - 1])
  <2> DEFINE step == [k \in 1 .. WordBits |-> [v \in Nat |-> Onward(v)]]
  <2>1. step \in [1 .. WordBits -> [Nat -> Nat]]
    BY <1>3
  <2>2. \A k \in 1 .. WordBits, v \in Nat : step[k][v] = Onward(v)
    OBVIOUS
  <2> HIDE DEF step
  <2>3. 1 \in Nat
    OBVIOUS
  <2>4. PICK f : Stepwise(f, WordBits, Nat, 1, step)
    BY <1>1, <2>1, <2>3, StepByStep
  <2>5. /\ f \in [0 .. WordBits -> Nat] /\ f[0] = 1
        /\ \A k \in 1 .. WordBits : f[k] = step[k][f[k - 1]]
    BY <2>4 DEF Stepwise
  <2>6. \A k \in 1 .. WordBits : f[k - 1] \in Nat
    <3> TAKE k \in 1 .. WordBits
    <3>1. k - 1 \in 0 .. WordBits
      BY <1>1
    <3> QED
      BY <2>5, <3>1
  <2>7. \A k \in 1 .. WordBits : f[k] = Onward(f[k - 1])
    <3> TAKE k \in 1 .. WordBits
    <3>1. PICK v \in Nat : v = f[k - 1]
      BY <2>6
    <3>2. step[k][v] = Onward(v)
      BY <2>2
    <3> QED
      BY <2>5, <3>1, <3>2
  <2> QED
    BY <2>5, <2>7
<1>5. f = Upto(f)
  <2>1. \A k \in 0 .. WordBits : f[k] = IF k = 0 THEN 1 ELSE Onward(f[k - 1])
    <3> TAKE k \in 0 .. WordBits
    <3>1. k = 0 \/ k \in 1 .. WordBits
      BY <1>1
    <3> QED
      BY <1>4, <3>1
  <2>2. f = [k \in 0 .. WordBits |-> f[k]]
    BY <1>4
  <2> QED
    BY <2>1, <2>2, Zenon
<1>6. TwoTo = Upto(TwoTo)
  BY <1>2, <1>5
<1>7. \A k \in 0 .. WordBits : TwoTo[k] = IF k = 0 THEN 1 ELSE Onward(TwoTo[k - 1])
  BY <1>6, Zenon
<1>8. TwoTo[0] = 1 /\ \A k \in 1 .. WordBits : TwoTo[k] = Onward(TwoTo[k - 1])
  <2>1. 0 \in 0 .. WordBits /\ \A k \in 1 .. WordBits : k \in 0 .. WordBits /\ k # 0
    BY <1>1
  <2> QED
    BY <1>7, <2>1
<1> DEFINE G == {k \in 0 .. WordBits : TwoTo[k] \in Nat}
<1>9. \A k \in 0 .. WordBits : k \in G
  <2>1. 0 \in G
    BY <1>1, <1>8
  <2>2. \A k \in 1 .. WordBits : k - 1 \in G => k \in G
    <3> TAKE k \in 1 .. WordBits
    <3>1. k \in 0 .. WordBits
      BY <1>1
    <3> QED
      BY <1>3, <1>8, <3>1
  <2> HIDE DEF G
  <2> QED
    BY <1>1, <2>1, <2>2, ClimbTo
<1> QED
  BY <1>1, <1>8, <1>9 DEF Onward

(* What is made of a word's bits is a word. *)
(* Bits put together are a word, whatever pairs of bits count as one. *)
LEMMA BitsMakeWord ==
  ASSUME NEW ones, NEW a, NEW b
  PROVE  BitByBit(ones, a, b) \in Words
<1> DEFINE add(n) == IF <<Bit(a, n - 1), Bit(b, n - 1)>> \in ones THEN TwoTo[n - 1] ELSE 0
           Onward(v, n) == v + add(n)
           Upto(h) == [n \in 0 .. WordBits |-> IF n = 0 THEN 0 ELSE Onward(h[n - 1], n)]
           M == CHOOSE h : h = Upto(h)
<1>1. WordBits \in Nat
  BY Doubles
<1>2. BitByBit(ones, a, b) = M[WordBits]
  BY DEF BitByBit
<1>3. \A n \in 1 .. WordBits : add(n) \in Nat /\ (add(n) = 0 \/ add(n) = TwoTo[n - 1])
  <2> TAKE n \in 1 .. WordBits
  <2>1. n - 1 \in 0 .. WordBits
    BY <1>1
  <2> QED
    BY <2>1, Doubles
<1> HIDE DEF add
<1>4. \A v \in Nat, n \in 1 .. WordBits : Onward(v, n) \in Nat
  BY <1>3
<1> HIDE DEF Onward
<1>5. PICK f : /\ f \in [0 .. WordBits -> Nat] /\ f[0] = 0
               /\ \A k \in 1 .. WordBits : f[k] = Onward(f[k - 1], k)
  <2> DEFINE step == [k \in 1 .. WordBits |-> [v \in Nat |-> Onward(v, k)]]
  <2>1. step \in [1 .. WordBits -> [Nat -> Nat]]
    BY <1>4
  <2>2. \A k \in 1 .. WordBits, v \in Nat : step[k][v] = Onward(v, k)
    OBVIOUS
  <2> HIDE DEF step
  <2>3. 0 \in Nat
    OBVIOUS
  <2>4. PICK f : Stepwise(f, WordBits, Nat, 0, step)
    BY <1>1, <2>1, <2>3, StepByStep
  <2>5. /\ f \in [0 .. WordBits -> Nat] /\ f[0] = 0
        /\ \A k \in 1 .. WordBits : f[k] = step[k][f[k - 1]]
    BY <2>4 DEF Stepwise
  <2>6. \A k \in 1 .. WordBits : f[k - 1] \in Nat
    <3> TAKE k \in 1 .. WordBits
    <3>1. k - 1 \in 0 .. WordBits
      BY <1>1
    <3> QED
      BY <2>5, <3>1
  <2>7. \A k \in 1 .. WordBits : f[k] = Onward(f[k - 1], k)
    <3> TAKE k \in 1 .. WordBits
    <3>1. PICK v \in Nat : v = f[k - 1]
      BY <2>6
    <3>2. step[k][v] = Onward(v, k)
      BY <2>2
    <3> QED
      BY <2>5, <3>1, <3>2
  <2> QED
    BY <2>5, <2>7
<1>6. f = Upto(f)
  <2>1. \A k \in 0 .. WordBits : f[k] = IF k = 0 THEN 0 ELSE Onward(f[k - 1], k)
    <3> TAKE k \in 0 .. WordBits
    <3>1. k = 0 \/ k \in 1 .. WordBits
      BY <1>1
    <3> QED
      BY <1>5, <3>1
  <2>2. f = [k \in 0 .. WordBits |-> f[k]]
    BY <1>5
  <2> QED
    BY <2>1, <2>2, Zenon
<1>7. M = Upto(M)
  BY <1>6
<1> HIDE DEF M
<1>8. \A k \in 0 .. WordBits : M[k] = IF k = 0 THEN 0 ELSE Onward(M[k - 1], k)
  BY <1>7, Zenon
<1> DEFINE G == {k \in 0 .. WordBits : M[k] \in Nat /\ M[k] < TwoTo[k]}
<1>9. \A k \in 0 .. WordBits : k \in G
  <2>1. 0 \in G
    <3>1. M[0] = 0
      BY <1>1, <1>8
    <3> QED
      BY <1>1, <3>1, Doubles
  <2>2. \A k \in 1 .. WordBits : k - 1 \in G => k \in G
    <3> SUFFICES ASSUME NEW k \in 1 .. WordBits, k - 1 \in G PROVE k \in G
      OBVIOUS
    <3>1. k \in 0 .. WordBits /\ k # 0 /\ k - 1 \in 0 .. WordBits
      BY <1>1
    <3>2. PICK v \in Nat, t \in Nat : v = M[k - 1] /\ t = TwoTo[k - 1] /\ v < t
      BY <3>1, Doubles
    <3>3. TwoTo[k] = 2 * t
      BY <3>2, Doubles
    <3>4. PICK d \in Nat : d = add(k) /\ (d = 0 \/ d = t)
      BY <1>3, <3>2
    <3>5. M[k] = v + d
      BY <1>8, <3>1, <3>2, <3>4 DEF Onward
    <3>6. v + d \in Nat /\ v + d < 2 * t
      BY <3>2, <3>4
    <3> QED
      BY <3>1, <3>3, <3>5, <3>6
  <2> HIDE DEF G
  <2> QED
    BY <1>1, <2>1, <2>2, ClimbTo
<1>10. M[WordBits] \in Nat /\ M[WordBits] < Word
  BY <1>1, <1>9, Doubles
<1> QED
  <2>1. Word \in Nat
    BY Powers
  <2> QED
    BY <1>2, <1>10, <2>1 DEF Words

LEMMA CombineIsWord ==
  ASSUME NEW op \in {"add", "sub", "xor", "and", "or"}, NEW a \in Words, NEW b \in Words
  PROVE  Combine(op, a, b) \in Words
<1>1. a \in Nat /\ b \in Nat
  BY WordIs
<1>2. (a + b) % Word \in Words
  <2>1. a + b \in Int
    BY <1>1
  <2> QED
    BY <2>1, WordOf
<1>3. (a - b) % Word \in Words
  <2>1. a - b \in Int
    BY <1>1
  <2> QED
    BY <2>1, WordOf
<1>4. CASE op = "add"
  BY <1>2, <1>4 DEF Combine
<1>5. CASE op = "sub"
  BY <1>3, <1>5 DEF Combine
<1>6. CASE op \in {"xor", "and", "or"}
  BY <1>6, BitsMakeWord DEF Combine
<1> QED
  BY <1>4, <1>5, <1>6

-----------------------------------------------------------------------------
(* The instructions *)

LEMMA EspIs ==
  Esp \in RegOperands /\ Esp.reg = "esp" /\ Esp.part = "full"
BY EmulatorAssumption DEF Esp, RegOperands

(* A full register holds what was put there, and the others what they held. *)
LEMMA FullRegister ==
  ASSUME NEW m \in Machines, NEW r \in Regs, NEW value \in Words,
         NEW o, o.reg = r, o.part = "full"
  PROVE  /\ Reg(m, o) = m.regs[r]
         /\ SetReg(m, o, value) = [m EXCEPT !.regs[r] = value]
         /\ SetReg(m, o, value).regs[r] = value
         /\ \A s \in Regs : s # r => SetReg(m, o, value).regs[s] = m.regs[s]
         /\ SetReg(m, o, value).memory = m.memory
<1>1. Reg(m, o) = m.regs[r]
  BY DEF Reg
<1>2. SetReg(m, o, value) = [m EXCEPT !.regs[r] = value]
  BY DEF SetReg
<1>3. m.regs \in [Regs -> Words]
  BY MachineIs
<1>4. [m EXCEPT !.regs[r] = value].memory = m.memory
  BY DEF Machines
<1>5. [m EXCEPT !.regs[r] = value].regs = [m.regs EXCEPT ![r] = value]
  BY DEF Machines
<1> QED
  BY <1>1, <1>2, <1>3, <1>4, <1>5

LEMMA PushIsMachine ==
  ASSUME NEW m \in Machines, NEW src \in RegOperands \cup MemOperands \cup ImmOperands
  PROVE  PushStep(m, src) \in Machines
<1> DEFINE value == EvalOperand(m, src)
           esp == (Reg(m, Esp) - 4) % Word
<1>1. value \in Words
  BY OperandIsWord
<1>2. Reg(m, Esp) \in Nat
  BY EspIs, RegIs, WordIs
<1>3. esp \in Words
  <2>1. Reg(m, Esp) - 4 \in Int
    BY <1>2
  <2> QED
    BY <2>1, WordOf
<1>4. PushStep(m, src) = WriteValue(SetReg(m, Esp, esp), Signed(esp), value, 4)
  BY DEF PushStep
<1> HIDE DEF value, esp
<1>5. SetReg(m, Esp, esp) \in Machines /\ Signed(esp) \in Int
  BY <1>3, EspIs, SetRegIs, WordIs
<1>6. PICK n \in Machines : n = SetReg(m, Esp, esp)
  BY <1>5
<1>7. WriteValue(n, Signed(esp), value, 4) \in Machines
  BY <1>1, <1>5, WriteIs
<1> QED
  BY <1>4, <1>6, <1>7

LEMMA PopIsMachine ==
  ASSUME NEW m \in Machines, NEW dst \in RegOperands
  PROVE  PopStep(m, dst) \in Machines
<1>1. PICK esp \in Words : esp = Reg(m, Esp)
  BY EspIs, RegIs
<1>2. PICK value \in Words : value = ReadValue(m, Signed(esp), 4)
  BY WordIs, ReadIs
<1>3. PICK n \in Machines : n = SetReg(m, dst, value)
  BY SetRegIs
<1>4. PICK e \in Words : e = (esp + 4) % Word
  <2>1. esp + 4 \in Int
    BY WordIs
  <2> QED
    BY <2>1, WordOf
<1>5. PopStep(m, dst) = SetReg(n, Esp, e)
  BY <1>1, <1>2, <1>3, <1>4 DEF PopStep
<1> QED
  BY <1>5, EspIs, SetRegIs

LEMMA PutIsMachine ==
  ASSUME NEW m \in Machines, NEW dst \in RegOperands \cup MemOperands, NEW value \in Words
  PROVE  (IF dst.kind = "mem" THEN WriteValue(m, MemAddr(m, dst), value, dst.size)
          ELSE SetReg(m, dst, value)) \in Machines
<1>1. CASE dst \in RegOperands
  <2>1. dst.kind # "mem"
    BY <1>1 DEF RegOperands
  <2> QED
    BY <1>1, <2>1, SetRegIs
<1>2. CASE dst \in MemOperands
  <2>1. dst.size \in Nat \ {0} /\ MemAddr(m, dst) \in Int /\ dst.kind = "mem"
    BY <1>2, ExprIsWord DEF MemOperands
  <2>2. WriteValue(m, MemAddr(m, dst), value, dst.size) \in Machines
    BY <2>1, WriteIs
  <2> QED
    BY <2>1, <2>2
<1> QED
  BY <1>1, <1>2

LEMMA UnaryIsMachine ==
  ASSUME NEW m \in Machines, NEW dst \in RegOperands, NEW op \in {"inc", "dec", "not"}
  PROVE  StepUnary(m, op, dst) \in Machines
<1>1. PICK v \in Words : v = Reg(m, dst)
  BY RegIs
<1>2. v \in Nat /\ v < Word /\ Word \in Nat
  BY WordIs, Powers
<1> DEFINE value == CASE op = "inc" -> (v + 1) % Word
                      [] op = "dec" -> (v - 1) % Word
                      [] op = "not" -> Word - 1 - v
<1>3. value \in Words
  <2>1. (v + 1) % Word \in Words /\ (v - 1) % Word \in Words
    <3>1. v + 1 \in Int /\ v - 1 \in Int
      BY <1>2
    <3> QED
      BY <3>1, WordOf
  <2>2. Word - 1 - v \in Words
    BY <1>2 DEF Words
  <2> QED
    BY <2>1, <2>2
<1>4. StepUnary(m, op, dst) = IF op = "not" THEN SetReg(m, dst, value)
                              ELSE Flagged(SetReg(m, dst, value), value)
  BY <1>1 DEF StepUnary
<1> HIDE DEF value
<1>5. PICK n \in Machines : n = SetReg(m, dst, value)
  BY <1>3, SetRegIs
<1>6. Flagged(n, value) \in Machines
  <2>1. TRUE \in Flags
    BY DEF Flags
  <2> QED
    BY <2>1, FlaggedIs
<1> QED
  BY <1>4, <1>5, <1>6

LEMMA BinaryIsMachine ==
  ASSUME NEW m \in Machines, NEW op \in {"add", "sub", "xor", "and", "or"},
         NEW dst \in RegOperands \cup MemOperands,
         NEW src \in RegOperands \cup MemOperands \cup ImmOperands
  PROVE  BinaryStep(m, op, dst, src) \in Machines
<1> DEFINE old == IF dst.kind = "mem" THEN ReadValue(m, MemAddr(m, dst), dst.size)
                  ELSE Reg(m, dst)
           value == Combine(op, old, EvalOperand(m, src))
           after == IF dst.kind = "mem" THEN WriteValue(m, MemAddr(m, dst), value, dst.size)
                    ELSE SetReg(m, dst, value)
<1>1. BinaryStep(m, op, dst, src) = Flagged(after, value)
  BY DEF BinaryStep
<1>2. old \in Words
  <2>1. CASE dst \in RegOperands
    <3>1. dst.kind # "mem"
      BY <2>1 DEF RegOperands
    <3> QED
      BY <2>1, <3>1, RegIs
  <2>2. CASE dst \in MemOperands
    <3>1. dst.size \in Nat \ {0} /\ MemAddr(m, dst) \in Int /\ dst.kind = "mem"
      BY <2>2, ExprIsWord DEF MemOperands
    <3> QED
      BY <3>1, ReadIs
  <2> QED
    BY <2>1, <2>2
<1> HIDE DEF old
<1>3. value \in Words
  BY <1>2, OperandIsWord, CombineIsWord
<1> HIDE DEF value
<1>4. after \in Machines
  BY <1>3, PutIsMachine
<1> HIDE DEF after
<1>5. TRUE \in Flags
  BY DEF Flags
<1> QED
  BY <1>1, <1>4, <1>5, FlaggedIs

(* Every instruction leaves a machine: words in its registers, bytes in memory. *)
(* Every instruction leaves registers that are words and memory of bytes. *)
LEMMA StepIsMachine ==
  ASSUME NEW m \in Machines, NEW ins \in Instructions
  PROVE  Step(m, ins) \in Machines
<1> DEFINE AnyOperand == RegOperands \cup MemOperands \cup ImmOperands
<1>1. /\ ins.dst \in AnyOperand /\ ins.src \in AnyOperand
      /\ ins.op \in {"pop", "movzx", "lea", "inc", "dec", "not", "xchg"} => ins.dst \in RegOperands
      /\ ins.op \in {"mov", "add", "sub", "xor", "and", "or"} => ins.dst \notin ImmOperands
      /\ ins.op = "xchg" => ins.src \in RegOperands
      /\ ins.op = "lea" => ins.src \in MemOperands
  BY InstructionAssumption
<1>2. PICK op : op = ins.op
  OBVIOUS
<1>3. PICK dst \in AnyOperand, src \in AnyOperand : dst = ins.dst /\ src = ins.src
  BY <1>1
<1>4. PICK b \in Words : b = EvalOperand(m, src)
  BY OperandIsWord
<1>5. CASE op = "push"
  <2>1. Step(m, ins) = PushStep(m, src)
    BY <1>2, <1>3, <1>5 DEF Step
  <2> QED
    BY <2>1, PushIsMachine
<1>6. CASE op = "pop"
  <2>1. Step(m, ins) = PopStep(m, dst) /\ dst \in RegOperands
    BY <1>1, <1>2, <1>3, <1>6 DEF Step
  <2> QED
    BY <2>1, PopIsMachine
<1>7. CASE op = "mov"
  <2>1. Step(m, ins) = MovStep(m, dst, src) /\ dst \in RegOperands \cup MemOperands
    BY <1>1, <1>2, <1>3, <1>7 DEF Step
  <2>2. MovStep(m, dst, src) = IF dst.kind = "mem"
                               THEN WriteValue(m, MemAddr(m, dst), b, dst.size)
                               ELSE SetReg(m, dst, b)
    BY <1>4 DEF MovStep
  <2> QED
    BY <2>1, <2>2, PutIsMachine
<1>8. CASE op = "movzx"
  <2>1. Step(m, ins) = MovzxStep(m, dst, src) /\ dst \in RegOperands
    BY <1>1, <1>2, <1>3, <1>8 DEF Step
  <2> DEFINE value == IF src.kind = "mem" THEN ReadValue(m, MemAddr(m, src), 1) ELSE b
  <2>2. value \in Words
    <3>1. CASE src \in MemOperands
      <4>1. MemAddr(m, src) \in Int
        BY <3>1, ExprIsWord
      <4>2. ReadValue(m, MemAddr(m, src), 1) \in Words
        BY <4>1, ReadIs
      <4> QED
        BY <4>2
    <3>2. CASE src \notin MemOperands
      BY <3>2 DEF RegOperands, ImmOperands
    <3> QED
      BY <3>1, <3>2
  <2>3. MovzxStep(m, dst, src) = SetReg(m, dst, value)
    BY <1>4 DEF MovzxStep
  <2> HIDE DEF value
  <2> QED
    BY <2>1, <2>2, <2>3, SetRegIs
<1>9. CASE op = "lea"
  <2>1. /\ Step(m, ins) = SetReg(m, dst, EvalExpr(m, src))
        /\ dst \in RegOperands /\ src \in MemOperands
    BY <1>1, <1>2, <1>3, <1>9 DEF Step
  <2>2. EvalExpr(m, src) \in Words
    BY <2>1, ExprIsWord
  <2> QED
    BY <2>1, <2>2, SetRegIs
<1>10. CASE op = "cmp"
  <2>1. Step(m, ins) = CmpStep(m, dst, src)
    BY <1>2, <1>3, <1>10 DEF Step
  <2>2. PICK a, value, c : /\ a = EvalOperand(m, dst) /\ value = (a - b) % Word
                           /\ c = (a < b)
    OBVIOUS
  <2>3. c \in Flags
    BY <2>2 DEF Flags
  <2>4. CmpStep(m, dst, src) = [Flagged(m, value) EXCEPT !.cf = c]
    BY <1>4, <2>2 DEF CmpStep
  <2> QED
    BY <2>1, <2>3, <2>4, FlaggedIs
<1>11. CASE op \in {"inc", "dec", "not"}
  <2>1. Step(m, ins) = StepUnary(m, op, dst) /\ dst \in RegOperands
    BY <1>1, <1>2, <1>3, <1>11 DEF Step
  <2> QED
    BY <1>11, <2>1, UnaryIsMachine
<1>12. CASE op \in {"add", "sub", "xor", "and", "or"}
  <2>1. Step(m, ins) = BinaryStep(m, op, dst, src) /\ dst \in RegOperands \cup MemOperands
    BY <1>1, <1>2, <1>3, <1>12 DEF Step
  <2> QED
    BY <1>12, <2>1, BinaryIsMachine
<1>13. CASE op = "xchg"
  <2>1. dst \in RegOperands /\ src \in RegOperands
    BY <1>1, <1>2, <1>3, <1>13
  <2>2. PICK x \in Words, y \in Words : x = Reg(m, src) /\ y = Reg(m, dst)
    BY <2>1, RegIs
  <2>3. PICK n \in Machines : n = SetReg(m, dst, x)
    BY <2>1, SetRegIs
  <2>4. Step(m, ins) = SetReg(n, src, y)
    BY <1>2, <1>3, <1>13, <2>2, <2>3 DEF Step
  <2> QED
    BY <2>1, <2>4, SetRegIs
<1>14. CASE op \notin {"push", "pop", "mov", "movzx", "lea", "cmp", "inc", "dec", "not",
                       "add", "sub", "xor", "and", "or", "xchg"}
  <2>1. Step(m, ins) = m
    BY <1>2, <1>14 DEF Step
  <2> QED
    BY <2>1
<1> QED
  BY <1>5, <1>6, <1>7, <1>8, <1>9, <1>10, <1>11, <1>12, <1>13, <1>14

(* Four bytes written are the four bytes read. *)
LEMMA WrittenIsRead ==
  ASSUME NEW m \in Machines, NEW a \in Int, NEW value \in Words
  PROVE  ReadValue(WriteValue(m, a, value, 4), a, 4) = value
<1>1. PICK w : w = WriteValue(m, a, value, 4)
  OBVIOUS
<1>2. /\ w \in Machines
      /\ ByteAt(w, a) = value % Base
      /\ ByteAt(w, a + 1) = (value \div Base) % Base
      /\ ByteAt(w, a + 2) = (value \div (Base * Base)) % Base
      /\ ByteAt(w, a + 3) = (value \div (Base * (Base * Base))) % Base
  BY <1>1, WriteIs
<1>3. ReadValue(w, a, 4) = Little(ByteAt(w, a), ByteAt(w, a + 1), ByteAt(w, a + 2),
                                  ByteAt(w, a + 3))
  BY <1>2, ReadIs
<1>4. ReadValue(w, a, 4)
        = Little(value % Base, (value \div Base) % Base, (value \div (Base * Base)) % Base,
                 (value \div (Base * (Base * Base))) % Base)
  BY <1>2, <1>3
<1> QED
  BY <1>1, <1>4, DigitsMake

(* Four down and four up, modulo the word. *)
LEMMA DownAndUp ==
  ASSUME NEW v \in Words
  PROVE  (((v - 4) % Word) + 4) % Word = v
<1>1. PICK w \in Nat : w = Word /\ w >= 16
  BY Powers
<1>2. v \in Nat /\ v < w
  BY <1>1, WordIs
<1>3. CASE v >= 4
  <2>1. (v - 4) % w = v - 4
    BY <1>1, <1>2, <1>3
  <2>2. v % w = v
    BY <1>1, <1>2
  <2> QED
    BY <1>1, <1>2, <2>1, <2>2
<1>4. CASE v < 4
  <2>1. (v - 4) % w = v - 4 + w
    BY <1>1, <1>2, <1>4
  <2>2. (v + w) % w = v
    BY <1>1, <1>2
  <2>3. (v - 4 + w) + 4 = v + w
    BY <1>1, <1>2
  <2> QED
    BY <1>1, <2>1, <2>2, <2>3
<1> QED
  BY <1>1, <1>2, <1>3, <1>4

(* What was pushed is what pop finds, in any machine. *)
LEMMA PushedIsPopped ==
  ASSUME NEW m \in Machines, NEW src \in RegOperands \cup MemOperands \cup ImmOperands,
         NEW r \in Regs \ {"esp"},
         NEW dst, dst = [kind |-> "reg", reg |-> r, part |-> "full"]
  PROVE  /\ Reg(PopStep(PushStep(m, src), dst), dst) = EvalOperand(m, src)
         /\ Reg(PopStep(PushStep(m, src), dst), Esp) = Reg(m, Esp)
<1>1. dst \in RegOperands /\ dst.reg = r /\ dst.part = "full" /\ r # "esp" /\ "esp" \in Regs
  BY EspIs DEF RegOperands
<1>2. PICK value \in Words : value = EvalOperand(m, src)
  BY OperandIsWord
<1>3. PICK sp \in Words : sp = Reg(m, Esp)
  BY EspIs, RegIs
<1>4. PICK esp \in Words : esp = (sp - 4) % Word
  <2>1. sp - 4 \in Int
    BY WordIs
  <2> QED
    BY <2>1, WordOf
<1>5. PICK a \in Int : a = Signed(esp)
  BY WordIs
<1>6. PICK n \in Machines : n = SetReg(m, Esp, esp) /\ n.regs["esp"] = esp
  BY <1>1, EspIs, SetRegIs, FullRegister
<1>7. PICK p \in Machines : p = WriteValue(n, a, value, 4) /\ p.regs = n.regs
  BY WriteIs
<1>8. PushStep(m, src) = p
  BY <1>2, <1>3, <1>4, <1>5, <1>6, <1>7 DEF PushStep
<1>9. Reg(p, Esp) = esp
  BY <1>1, <1>6, <1>7, EspIs, FullRegister
<1>10. ReadValue(p, a, 4) = value
  BY <1>7, WrittenIsRead
<1>11. PICK q \in Machines : /\ q = SetReg(p, dst, value) /\ q.regs[r] = value
                             /\ q.regs["esp"] = esp
  <2>1. SetReg(p, dst, value) \in Machines
    BY <1>1, SetRegIs
  <2>2. SetReg(p, dst, value).regs[r] = value /\ SetReg(p, dst, value).regs["esp"] = p.regs["esp"]
    BY <1>1, FullRegister
  <2> QED
    BY <1>6, <1>7, <2>1, <2>2
<1>12. (esp + 4) % Word = sp
  BY <1>4, DownAndUp
<1>13. PICK u \in Machines : /\ u = SetReg(q, Esp, sp) /\ u.regs["esp"] = sp
                             /\ u.regs[r] = value
  <2>1. SetReg(q, Esp, sp) \in Machines
    BY EspIs, SetRegIs
  <2>2. SetReg(q, Esp, sp).regs["esp"] = sp /\ SetReg(q, Esp, sp).regs[r] = q.regs[r]
    BY <1>1, EspIs, FullRegister
  <2> QED
    BY <1>11, <2>1, <2>2
<1>14. PopStep(p, dst) = u
  BY <1>5, <1>9, <1>10, <1>11, <1>12, <1>13 DEF PopStep
<1>15. Reg(u, dst) = value /\ Reg(u, Esp) = sp
  BY <1>1, <1>13, EspIs, FullRegister
<1> QED
  BY <1>2, <1>3, <1>8, <1>14, <1>15

-----------------------------------------------------------------------------
(***************************************************************************)
(* ArtifactEmulator: how an emulation ends, and the setup of its calls.    *)
(***************************************************************************)

-----------------------------------------------------------------------------
(* The setup before a call *)

(* t is what s ends with, no more than n of it. *)
IsLast(t, s, n) ==
  /\ IsSeq(t) /\ Len(t) = Len(s) - Drop(Len(s), n)
  /\ \A k \in 1 .. Len(t) : t[k] = s[Drop(Len(s), n) + k]

LEMMA ContextCapIs ==
  /\ ContextCap \in Nat /\ PreviewCap \in Nat /\ PreviewCap >= 1 /\ PreviewCap <= ContextCap
BY EmulatorAssumption

LEMMA LastOfLast ==
  ASSUME NEW s, IsSeq(s), NEW t, NEW n \in Nat, NEW m \in Nat, m <= n, IsLast(t, s, n)
  PROVE  IsLast(LastOf(t, m), s, m)
<1>1. PICK ls \in Nat, lt \in Nat : ls = Len(s) /\ lt = Len(t) /\ IsSeq(t)
  BY SeqIs DEF IsLast
<1>2. PICK d \in Nat, e \in Nat, f \in Nat :
        /\ d = Drop(ls, n) /\ e = Drop(lt, m) /\ f = Drop(ls, m)
        /\ lt = ls - d /\ f = d + e /\ e <= lt
  <2>1. lt = ls - Drop(ls, n)
    BY <1>1 DEF IsLast
  <2>2. Drop(ls, n) \in Nat /\ Drop(lt, m) \in Nat /\ Drop(ls, m) \in Nat
    BY DEF Drop
  <2>3. Drop(ls, m) = Drop(ls, n) + Drop(lt, m) /\ Drop(lt, m) <= lt
    BY <2>1 DEF Drop
  <2> QED
    BY <2>1, <2>2, <2>3
<1>3. \A k \in 1 .. lt : t[k] = s[d + k]
  BY <1>1, <1>2 DEF IsLast
<1>4. /\ IsSeq(LastOf(t, m)) /\ Len(LastOf(t, m)) = lt - e
      /\ \A k \in 1 .. lt - e : LastOf(t, m)[k] = t[e + k]
  <2>1. IsSeq(t)
    BY <1>1
  <2>2. /\ IsSeq(LastOf(t, m)) /\ Len(LastOf(t, m)) = Len(t) - Drop(Len(t), m)
        /\ \A k \in 1 .. Len(LastOf(t, m)) : LastOf(t, m)[k] = t[Drop(Len(t), m) + k]
    BY <2>1, LastOfIs
  <2> QED
    BY <1>1, <1>2, <2>2
<1>5. \A k \in 1 .. lt - e : LastOf(t, m)[k] = s[f + k]
  <2> TAKE k \in 1 .. lt - e
  <2>1. e + k \in 1 .. lt /\ d + (e + k) = f + k
    BY <1>2
  <2> QED
    BY <1>3, <1>4, <2>1
<1>6. lt - e = ls - f
  BY <1>2
<1> QED
  BY <1>1, <1>2, <1>4, <1>5, <1>6 DEF IsLast

LEMMA LastGrows ==
  ASSUME NEW s, IsSeq(s), NEW e, NEW t, NEW n \in Nat, IsLast(t, s, n)
  PROVE  IsLast(LastOf(Append(t, e), n), Append(s, e), n)
<1>1. PICK ls \in Nat, lt \in Nat : ls = Len(s) /\ lt = Len(t) /\ IsSeq(t)
  BY SeqIs DEF IsLast
<1>2. PICK u, v, a : u = Append(t, a) /\ v = Append(s, e) /\ a = e
  OBVIOUS
<1>3. IsSeq(u) /\ Len(u) = lt + 1 /\ u[lt + 1] = a /\ \A k \in 1 .. lt : u[k] = t[k]
  BY <1>1, <1>2, IsSeqAppend
<1>4. Len(v) = ls + 1 /\ v[ls + 1] = e /\ \A k \in 1 .. ls : v[k] = s[k]
  BY <1>1, <1>2, IsSeqAppend
<1>5. PICK d \in Nat, c \in Nat, f \in Nat :
        /\ d = Drop(ls, n) /\ c = Drop(lt + 1, n) /\ f = Drop(ls + 1, n)
        /\ lt = ls - d /\ f = d + c /\ c <= lt + 1
  <2>1. lt = ls - Drop(ls, n)
    BY <1>1 DEF IsLast
  <2>2. Drop(ls, n) \in Nat /\ Drop(lt + 1, n) \in Nat /\ Drop(ls + 1, n) \in Nat
    BY DEF Drop
  <2>3. Drop(ls + 1, n) = Drop(ls, n) + Drop(lt + 1, n) /\ Drop(lt + 1, n) <= lt + 1
    BY <2>1 DEF Drop
  <2> QED
    BY <2>1, <2>2, <2>3
<1>6. \A k \in 1 .. lt : t[k] = s[d + k]
  BY <1>1, <1>5 DEF IsLast
<1>7. \A k \in 1 .. lt + 1 : u[k] = v[d + k]
  <2> TAKE k \in 1 .. lt + 1
  <2>1. CASE k = lt + 1
    <3>1. d + k = ls + 1
      BY <1>5, <2>1
    <3> QED
      BY <1>2, <1>3, <1>4, <2>1, <3>1
  <2>2. CASE k # lt + 1
    <3>1. k \in 1 .. lt /\ d + k \in 1 .. ls
      BY <1>5, <2>2
    <3> QED
      BY <1>3, <1>4, <1>6, <3>1
  <2> QED
    BY <2>1, <2>2
<1>8. /\ IsSeq(LastOf(u, n)) /\ Len(LastOf(u, n)) = lt + 1 - c
      /\ \A k \in 1 .. lt + 1 - c : LastOf(u, n)[k] = u[c + k]
  <2>1. IsSeq(u)
    BY <1>3
  <2>2. /\ IsSeq(LastOf(u, n)) /\ Len(LastOf(u, n)) = Len(u) - Drop(Len(u), n)
        /\ \A k \in 1 .. Len(LastOf(u, n)) : LastOf(u, n)[k] = u[Drop(Len(u), n) + k]
    BY <2>1, LastOfIs
  <2>3. Len(u) = lt + 1 /\ Drop(Len(u), n) = c
    BY <1>3, <1>5
  <2>4. Len(LastOf(u, n)) = lt + 1 - c
    BY <2>2, <2>3
  <2> QED
    BY <2>2, <2>3, <2>4
<1>9. \A k \in 1 .. lt + 1 - c : LastOf(u, n)[k] = v[f + k]
  <2> TAKE k \in 1 .. lt + 1 - c
  <2>1. c + k \in 1 .. lt + 1 /\ d + (c + k) = f + k
    BY <1>5
  <2> QED
    BY <1>7, <1>8, <2>1
<1>10. lt + 1 - c = ls + 1 - f
  BY <1>5
<1>11. IsLast(LastOf(u, n), v, n)
  BY <1>4, <1>5, <1>8, <1>9, <1>10 DEF IsLast
<1> QED
  BY <1>2, <1>11

LEMMA PreviewIs ==
  ASSUME NEW s
  PROVE  Preview(s) = SubSeq(s, 1 + Drop(Len(s), PreviewCap), Len(s))
BY DEF Preview, Drop

LEMMA PreviewIsLast ==
  ASSUME NEW s, IsSeq(s)
  PROVE  Preview(s) = LastOf(s, PreviewCap)
<1> DEFINE cap == PreviewCap
<1>1. cap \in Nat
  BY EmulatorAssumption
<1>2. PICK n \in Nat : n = Len(s)
  BY SeqIs
<1>3. PICK c \in Nat : c = cap
  BY <1>1
<1>4. Max({0, n - c}) = Drop(n, c)
  <2> DEFINE T == {0, n - c}
             d == Drop(n, c)
             x == CHOOSE x \in T : \A y \in T : x >= y
  <2>1. d \in T /\ \A y \in T : d >= y /\ T \subseteq Int
    BY DEF Drop
  <2>2. x \in T /\ \A y \in T : x >= y
    BY <2>1
  <2>3. Max(T) = x
    BY DEF Max
  <2> HIDE DEF x, T, d
  <2>4. x = d
    BY <2>1, <2>2
  <2> QED
    BY <2>3, <2>4 DEF T, d
<1> QED
  BY <1>2, <1>3, <1>4, PreviewIs DEF LastOf

(* The context holds the last setups, one in for one out. *)
LEMMA ContextMoves ==
  ASSUME IsSeq(context), Len(context) <= ContextCap, NEW i, NEW ins, IsSetup(ins)
  PROVE  UpdateContext(i, ins) = LastOf(Append(context, i), ContextCap)
<1>1. PICK n \in Nat : n = Len(context)
  BY SeqIs
<1>2. PICK cap \in Nat : cap = ContextCap /\ cap >= 1
  BY ContextCapIs
<1>3. PICK u, r : u = Append(context, i) /\ r = LastOf(u, cap)
  OBVIOUS
<1>4. /\ IsSeq(u) /\ Len(u) = n + 1 /\ u[n + 1] = i
      /\ \A k \in 1 .. n : u[k] = context[k]
  BY <1>1, <1>3, IsSeqAppend
<1>5. /\ IsSeq(r) /\ Len(r) = (n + 1) - Drop(n + 1, cap)
      /\ \A k \in 1 .. Len(r) : r[k] = u[Drop(n + 1, cap) + k]
  <2>1. /\ IsSeq(LastOf(u, cap)) /\ Len(LastOf(u, cap)) = Len(u) - Drop(Len(u), cap)
        /\ \A k \in 1 .. Len(LastOf(u, cap)) : LastOf(u, cap)[k] = u[Drop(Len(u), cap) + k]
    BY <1>4, LastOfIs
  <2> QED
    BY <1>3, <1>4, <2>1
<1>6. CASE n = cap
  <2>1. PICK t : t = Tail(context)
    OBVIOUS
  <2>2. IsSeq(t) /\ Len(t) = n - 1 /\ \A k \in 1 .. n - 1 : t[k] = context[k + 1]
    <3>1. PICK S : context \in Seq(S)
      BY DEF IsSeq
    <3>2. context # <<>>
      <4>1. Len(context) # 0
        BY <1>1, <1>2, <1>6
      <4>2. context = <<>> <=> Len(context) = 0
        BY SeqIs
      <4> QED
        BY <4>1, <4>2
    <3>3. /\ Tail(context) \in Seq(S) /\ Len(Tail(context)) = Len(context) - 1
          /\ \A k \in 1 .. Len(Tail(context)) : Tail(context)[k] = context[k + 1]
      BY <3>1, <3>2, HeadTailProperties
    <3> QED
      BY <1>1, <2>1, <3>3 DEF IsSeq
  <2>3. PICK v : v = Append(t, i)
    OBVIOUS
  <2>4. /\ IsSeq(v) /\ Len(v) = n /\ v[n] = i /\ \A k \in 1 .. n - 1 : v[k] = t[k]
    <3>1. /\ IsSeq(Append(t, i)) /\ Len(Append(t, i)) = Len(t) + 1
          /\ \A k \in 1 .. Len(t) : Append(t, i)[k] = t[k] /\ Append(t, i)[Len(t) + 1] = i
      BY <2>2, IsSeqAppend
    <3>2. Append(t, i)[Len(t) + 1] = i
      BY <2>2, IsSeqAppend
    <3>3. Len(t) = n - 1 /\ (n - 1) + 1 = n
      BY <1>1, <2>2
    <3> QED
      BY <2>3, <3>1, <3>2, <3>3
  <2>5. Drop(n + 1, cap) = 1
    BY <1>6 DEF Drop
  <2>6. Len(r) = n /\ \A k \in 1 .. n : r[k] = u[1 + k]
    BY <1>1, <1>5, <2>5
  <2>7. \A k \in 1 .. n : v[k] = r[k]
    <3> TAKE k \in 1 .. n
    <3>1. CASE k = n
      BY <1>4, <2>4, <2>6, <3>1
    <3>2. CASE k # n
      <4>1. k \in 1 .. n - 1 /\ 1 + k \in 1 .. n /\ k + 1 = 1 + k
        BY <3>2
      <4> QED
        BY <1>4, <2>2, <2>4, <2>6, <4>1
    <3> QED
      BY <3>1, <3>2
  <2>8. v = r
    BY <1>5, <2>4, <2>6, <2>7, SameSeq
  <2> QED
    BY <1>1, <1>2, <1>3, <1>6, <2>1, <2>3, <2>8 DEF UpdateContext
<1>7. CASE n # cap
  <2>1. Drop(n + 1, cap) = 0
    BY <1>1, <1>2, <1>7 DEF Drop
  <2>2. Len(r) = n + 1 /\ \A k \in 1 .. n + 1 : r[k] = u[k]
    BY <1>1, <1>5, <2>1
  <2>3. r = u
    BY <1>4, <1>5, <2>2, SameSeq
  <2> QED
    BY <1>1, <1>2, <1>3, <1>7, <2>3 DEF UpdateContext
<1> QED
  BY <1>6, <1>7


(* The places of the window. *)
Places == 1 .. WindowSize

(* The members that are kept are those in the set. *)
LEMMA KeptMembers ==
  ASSUME NEW S, NEW s \in Seq(S), NEW T, NEW x \in ToSet(s)
  PROVE  x \in ToSet(Kept(s, T)) <=> x \in T
<1>1. PICK n \in Nat : n = Len(s) /\ DOMAIN s = 1 .. n
  BY LenProperties
<1>2. PICK i \in 1 .. n : x = s[i]
  BY <1>1 DEF ToSet
<1>3. Kept(s, T) \in Seq(S) /\ DOMAIN Kept(s, T) = 1 .. Len(Kept(s, T))
  BY KeptIsSeq, LenProperties
<1>4. ASSUME x \in T PROVE x \in ToSet(Kept(s, T))
  <2>1. KeptRight(s, T, n)
    BY <1>1, KeptIsRight
  <2>2. i \in PlacesIn(s, T, n)
    BY <1>2, <1>4 DEF PlacesIn
  <2>3. KeptUpTo(s, T)[n] = Kept(s, T)
    BY <1>1 DEF Kept
  <2>4. \E at \in 1 .. Len(Kept(s, T)) : Kept(s, T)[at] = x
    BY <1>2, <2>1, <2>2, <2>3 DEF KeptRight
  <2> QED
    BY <1>3, <2>4 DEF ToSet
<1>5. ASSUME x \in ToSet(Kept(s, T)) PROVE x \in T
  <2>1. \A j \in 1 .. Len(Kept(s, T)) : Kept(s, T)[j] \in T
    BY KeptAreChosen
  <2> QED
    BY <1>3, <1>5, <2>1 DEF ToSet
<1> QED
  BY <1>4, <1>5

LEMMA BeforeIsSeq ==
  ASSUME trail \in Seq(Places), NEW k \in Nat, k <= Len(trail)
  PROVE  /\ SubSeq(trail, 1, k) \in Seq(Places) /\ Len(SubSeq(trail, 1, k)) = k
         /\ \A i \in 1 .. k : SubSeq(trail, 1, k)[i] = trail[i] /\ trail[i] \in ToSet(trail)
         /\ SetupBefore(k) \in Seq(Places)
         /\ \A j \in 1 .. Len(SetupBefore(k)) : \E i \in 1 .. k : SetupBefore(k)[j] = trail[i]
<1> DEFINE s == SubSeq(trail, 1, k)
           T == {i \in ToSet(trail) : IsSetup(program[i])}
<1>1. Len(trail) \in Nat /\ DOMAIN trail = 1 .. Len(trail)
  BY LenProperties
<1>2. IsSeq(trail)
  BY DEF IsSeq
<1>3. Len(s) = k /\ \A i \in 1 .. k : s[i] = trail[i]
  BY <1>2, IsSeqPart
<1>4. s \in Seq(Places)
  <2>1. \A i \in 1 .. k : trail[i] \in Places
    BY <1>1, ElementOfSeq
  <2>2. /\ Len(SubSeq(trail, 1, k)) = IF 1 <= k THEN k - 1 + 1 ELSE 0
        /\ SubSeq(trail, 1, k) \in Seq(Places)
    BY <1>1, <2>1, SubSeqProperties
  <2> QED
    BY <2>2
<1>5. \A i \in 1 .. k : trail[i] \in ToSet(trail)
  BY <1>1 DEF ToSet
<1>6. SetupBefore(k) = Kept(s, T)
  BY DEF SetupBefore
<1> HIDE DEF s, T
<1>7. Kept(s, T) \in Seq(Places) /\ \A j \in 1 .. Len(Kept(s, T)) : \E i \in 1 .. k : Kept(s, T)[j] = s[i]
  BY <1>3, <1>4, KeptIsSeq, KeptAreChosen
<1> QED
  BY <1>3, <1>4, <1>5, <1>6, <1>7 DEF s

(* What was executed before stays what was executed before. *)
LEMMA BeforeStays ==
  ASSUME trail \in Seq(Places), NEW e \in Places,
         trail' = trail \/ trail' = Append(trail, e),
         \A i \in ToSet(trail) : program'[i] = program[i],
         NEW k \in Nat, k <= Len(trail)
  PROVE  SetupBefore(k)' = SetupBefore(k)
<1> DEFINE s == SubSeq(trail, 1, k)
           T == {i \in ToSet(trail) : IsSetup(program[i])}
           r == SubSeq(trail', 1, k)
           U == {i \in ToSet(trail') : IsSetup(program'[i])}
<1>1. PICK n \in Nat : n = Len(trail) /\ DOMAIN trail = 1 .. n
  BY LenProperties
<1>2. /\ IsSeq(trail) /\ IsSeq(trail') /\ k <= Len(trail')
      /\ \A i \in 1 .. n : trail'[i] = trail[i]
      /\ \A i \in 1 .. n : trail[i] \in ToSet(trail')
  <2>1. IsSeq(trail)
    BY DEF IsSeq
  <2>2. CASE trail' = trail
    BY <1>1, <2>1, <2>2 DEF ToSet
  <2>3. CASE trail' = Append(trail, e)
    <3>1. /\ IsSeq(Append(trail, e)) /\ Len(Append(trail, e)) = n + 1
          /\ DOMAIN Append(trail, e) = 1 .. n + 1
          /\ \A i \in 1 .. n : Append(trail, e)[i] = trail[i]
      BY <1>1, <2>1, IsSeqAppend
    <3>2. \A i \in 1 .. n : trail[i] \in ToSet(Append(trail, e))
      <4> TAKE i \in 1 .. n
      <4>1. i \in DOMAIN Append(trail, e) /\ Append(trail, e)[i] = trail[i]
        BY <3>1
      <4> QED
        BY <4>1 DEF ToSet
    <3> QED
      BY <1>1, <2>1, <2>3, <3>1, <3>2
  <2> QED
    BY <2>2, <2>3
<1>3. s \in Seq(Places) /\ Len(s) = k /\ \A i \in 1 .. k : s[i] = trail[i] /\ trail[i] \in ToSet(trail)
  BY BeforeIsSeq
<1>4. IsSeq(r) /\ Len(r) = k /\ \A i \in 1 .. k : r[i] = trail'[i]
  BY <1>2, IsSeqPart
<1>5. IsSeq(s)
  BY <1>3 DEF IsSeq
<1>6. SetupBefore(k) = Kept(s, T) /\ SetupBefore(k)' = Kept(r, U)
  BY DEF SetupBefore
<1>7. \A i \in 1 .. k : s[i] \in T <=> s[i] \in U
  <2> TAKE i \in 1 .. k
  <2>1. /\ s[i] = trail[i] /\ trail[i] \in ToSet(trail) /\ trail[i] \in ToSet(trail')
        /\ program'[trail[i]] = program[trail[i]]
    BY <1>1, <1>2, <1>3
  <2> QED
    BY <2>1
<1> HIDE DEF s, r, T, U
<1>8. r = s
  <2>1. \A i \in 1 .. Len(r) : r[i] = s[i]
    BY <1>1, <1>2, <1>3, <1>4
  <2> QED
    BY <1>3, <1>4, <1>5, <2>1, SameSeq
<1>9. Kept(s, T) = Kept(s, U)
  BY <1>3, <1>7, KeptSame
<1> QED
  BY <1>6, <1>8, <1>9

LEMMA BeforeGrows ==
  ASSUME trail \in Seq(Places), NEW e \in Places, trail' = Append(trail, e),
         \A i \in ToSet(trail) : program'[i] = program[i],
         NEW n \in Nat, n = Len(trail)
  PROVE  SetupBefore(n + 1)' = IF IsSetup(program'[e]) THEN Append(SetupBefore(n), e)
                               ELSE SetupBefore(n)
<1> DEFINE U == {i \in ToSet(trail') : IsSetup(program'[i])}
<1>1. SetupBefore(n)' = SetupBefore(n)
  BY BeforeStays
<1>2. PICK t, u : t = trail /\ u = trail' /\ u = Append(t, e) /\ t \in Seq(Places) /\ Len(t) = n
  OBVIOUS
<1>3. /\ u \in Seq(Places) /\ Len(u) = n + 1 /\ u[n + 1] = e /\ IsSeq(u) /\ IsSeq(t)
      /\ \A i \in 1 .. n : u[i] = t[i]
  BY <1>2, AppendProperties DEF IsSeq
<1>4. SubSeq(u, 1, n + 1) = u
  <2>1. /\ IsSeq(SubSeq(u, 1, n + 1)) /\ Len(SubSeq(u, 1, n + 1)) = n + 1
        /\ \A i \in 1 .. n + 1 : SubSeq(u, 1, n + 1)[i] = u[i]
    BY <1>3, IsSeqPart
  <2> QED
    BY <1>3, <2>1, SameSeq
<1>5. SubSeq(u, 1, n) = t
  <2>1. /\ IsSeq(SubSeq(u, 1, n)) /\ Len(SubSeq(u, 1, n)) = n
        /\ \A i \in 1 .. n : SubSeq(u, 1, n)[i] = u[i]
    BY <1>3, IsSeqPart
  <2> QED
    BY <1>2, <1>3, <2>1, SameSeq
<1>6. e \in ToSet(trail')
  <2>1. DOMAIN u = 1 .. n + 1
    BY <1>3, LenProperties
  <2>2. n + 1 \in DOMAIN u /\ u[n + 1] = e
    BY <1>3, <2>1
  <2> QED
    BY <1>2, <2>2 DEF ToSet
<1>7. e \in U <=> IsSetup(program'[e])
  BY <1>6
<1>8. SetupBefore(n + 1)' = Kept(SubSeq(u, 1, n + 1), U) /\ SetupBefore(n)' = Kept(SubSeq(u, 1, n), U)
  BY <1>2 DEF SetupBefore
<1> HIDE DEF U
<1>9. Kept(Append(t, e), U) = IF e \in U THEN Append(Kept(t, U), e) ELSE Kept(t, U)
  BY <1>2, KeptAppend
<1> QED
  BY <1>1, <1>2, <1>4, <1>5, <1>7, <1>8, <1>9


-----------------------------------------------------------------------------
(* The invariant *)

(* The machine holds words and bytes; the loop is where it can be. *)
MachineInv ==
  /\ machine \in Machines
  /\ program \in [Places -> Instructions \cup {Unknown}]
  /\ pc \in 1 .. WindowSize + 1 /\ steps \in 0 .. MaxSteps
  /\ aePc \in {"idle", "run", "stopped"}

(* There is one reason at most, and none while the loop runs. *)
EndInv ==
  /\ IsSeq(unsupported) /\ Len(unsupported) <= 1
  /\ aePc # "stopped" => Len(unsupported) = 0
  /\ aePc = "stopped" => pc > WindowSize \/ steps >= MaxSteps \/ Len(unsupported) = 1

(* What was executed was reached first. *)
TrailInv ==
  /\ trail \in Seq(Places)
  /\ \A i \in ToSet(trail) : program[i] # Unknown

(* The context is the end of the setup executed so far. *)
ContextInv ==
  \A k \in Nat : k = Len(trail) => IsLast(context, SetupBefore(k), ContextCap)

(* The call c came after the first k instructions and shows the setup *)
(* among them.                                                        *)
CallRight(c, k) ==
  /\ k + 1 <= Len(trail) /\ trail[k + 1] = c.at
  /\ IsLast(c.setup, SetupBefore(k), PreviewCap)
  /\ \A i \in ToSet(c.setup) : i \in ToSet(c.pushed) <=> IsPushedConstant(program[i])

(* Every call told was executed, and is right. *)
CallsInv ==
  /\ IsSeq(calls)
  /\ \A n \in 1 .. Len(calls) : \E k \in Nat : CallRight(calls[n], k)

EmulateInv == MachineInv /\ EndInv /\ TrailInv /\ ContextInv /\ CallsInv

LEMMA EmulateInitInv ==
  ASSUME EmulateInit
  PROVE  EmulateInv
<1>1. MachineInv
  <2>1. machine \in Machines
    <3>1. PICK r, f : /\ r = [x \in Regs |-> 0] /\ f = <<>>
                      /\ machine = [regs |-> r, memory |-> f, zf |-> Unknown, sf |-> Unknown,
                                    cf |-> Unknown]
      BY DEF EmulateInit
    <3>2. r \in [Regs -> Words]
      <4>1. 0 \in Words
        BY Powers DEF Words
      <4> QED
        BY <3>1, <4>1
    <3>3. f \in [{} -> Bytes]
      BY <3>1
    <3>4. {} \in FiniteInts
      BY FS_EmptySet DEF FiniteInts
    <3>5. f \in UNION {[S -> Bytes] : S \in FiniteInts}
      BY <3>3, <3>4
    <3> QED
      BY <3>1, <3>2, <3>5 DEF Machines, Flags
  <2> QED
    BY <2>1, EmulatorAssumption DEF EmulateInit, MachineInv, Places
<1>2. IsSeq(<<>>) /\ Len(<<>>) = 0 /\ <<>> \in Seq(Places)
  BY EmptySeq DEF IsSeq
<1>3. EndInv
  <2>1. unsupported = <<>> /\ aePc = "idle"
    BY DEF EmulateInit
  <2> QED
    BY <1>2, <2>1 DEF EndInv
<1>4. trail = <<>> /\ calls = <<>> /\ context = <<>>
  BY DEF EmulateInit
<1>5. TrailInv
  <2>1. ToSet(trail) = {}
    BY <1>4 DEF ToSet
  <2> QED
    BY <1>2, <1>4, <2>1 DEF TrailInv
<1>6. ContextInv
  <2> SUFFICES ASSUME NEW k \in Nat, k = Len(trail)
               PROVE  IsLast(context, SetupBefore(k), ContextCap)
    BY DEF ContextInv
  <2>1. k = 0
    BY <1>2, <1>4
  <2>2. /\ SetupBefore(k) \in Seq(Places)
        /\ \A j \in 1 .. Len(SetupBefore(k)) : \E i \in 1 .. k : SetupBefore(k)[j] = trail[i]
    BY <1>5, <2>1, BeforeIsSeq DEF TrailInv
  <2>3. PICK n \in Nat : n = Len(SetupBefore(k))
    BY <2>2, LenProperties
  <2>4. n = 0
    <3>1. ASSUME n >= 1 PROVE FALSE
      <4>1. 1 \in 1 .. n
        BY <3>1
      <4>2. \E i \in 1 .. k : SetupBefore(k)[1] = trail[i]
        BY <2>2, <2>3, <4>1
      <4> QED
        BY <2>1, <4>2
    <3> QED
      BY <3>1
  <2>5. Drop(0, ContextCap) = 0
    BY ContextCapIs DEF Drop
  <2> QED
    BY <1>2, <1>4, <2>3, <2>4, <2>5 DEF IsLast
<1>7. CallsInv
  BY <1>2, <1>4 DEF CallsInv
<1> QED
  BY <1>1, <1>3, <1>5, <1>6, <1>7 DEF EmulateInv

(* What an iteration does with the instruction it reaches. *)
LEMMA StepIs ==
  ASSUME EmulateInv, EmulateStep
  PROVE  /\ pc \in Places /\ steps' \in 0 .. MaxSteps /\ aePc = "run"
         /\ \E ins \in Instructions :
              /\ program' = [program EXCEPT ![pc] = ins]
              /\ program[pc] = Unknown \/ program[pc] = ins
              /\ \/ /\ \E reason : Stop(pc, reason)
                    /\ UNCHANGED calls
                 \/ /\ \E next \in 1 .. WindowSize + 1 : Goes(pc, ins, next)
                    /\ calls' = IF ins.op = "call" THEN Append(calls, CallSummary(pc))
                                ELSE calls
<1>1. /\ pc <= WindowSize /\ steps < MaxSteps /\ steps' = steps + 1 /\ aePc = "run"
      /\ pc \in 1 .. WindowSize + 1 /\ steps \in 0 .. MaxSteps
      /\ program \in [Places -> Instructions \cup {Unknown}]
  BY DEF EmulateStep, EmulateInv, MachineInv
<1>2. WindowSize \in Nat /\ MaxSteps \in Nat
  BY EmulatorAssumption
<1>3. pc \in Places /\ steps' \in 0 .. MaxSteps /\ pc + 1 \in 1 .. WindowSize + 1
  BY <1>1, <1>2 DEF Places
<1>4. PICK ins \in IF program[pc] = Unknown THEN Instructions ELSE {program[pc]} :
        /\ program' = [program EXCEPT ![pc] = ins]
        /\ IF visits[pc] = VisitCap
           THEN Stop(pc, "loop visit cap") /\ UNCHANGED calls
           ELSE /\ calls' = IF ins.op = "call" THEN Append(calls, CallSummary(pc))
                            ELSE calls
                /\ Outcome(pc, ins)
  BY DEF EmulateStep
<1>5. ins \in Instructions /\ (program[pc] = Unknown \/ program[pc] = ins)
  BY <1>1, <1>3, <1>4
<1>6. \/ /\ \E reason : Stop(pc, reason)
         /\ UNCHANGED calls
      \/ /\ \E next \in 1 .. WindowSize + 1 : Goes(pc, ins, next)
         /\ calls' = IF ins.op = "call" THEN Append(calls, CallSummary(pc)) ELSE calls
  <2>1. CASE visits[pc] = VisitCap
    BY <1>4, <2>1
  <2>2. CASE visits[pc] # VisitCap
    <3>1. /\ calls' = IF ins.op = "call" THEN Append(calls, CallSummary(pc)) ELSE calls
          /\ Outcome(pc, ins)
      BY <1>4, <2>2
    <3>2. CASE ins.op = "ret"
      BY <3>1, <3>2 DEF Outcome
    <3>3. CASE ins.op # "ret" /\ (~IsBranch(ins) \/ Taken(machine, ins) = FALSE)
      <4>1. Goes(pc, ins, pc + 1)
        BY <3>1, <3>3 DEF Outcome
      <4> QED
        BY <1>3, <3>1, <4>1
    <3>4. CASE ins.op # "ret" /\ IsBranch(ins) /\ ~ (Taken(machine, ins) = FALSE)
      <4>1. ins.op # "call"
        BY <3>4 DEF IsBranch
      <4>2. calls' = calls
        BY <3>1, <4>1
      <4>3. CASE Taken(machine, ins) = Unknown
        BY <3>1, <3>4, <4>2, <4>3 DEF Outcome
      <4>4. CASE Taken(machine, ins) # Unknown /\ ins.jump \in 1 .. WindowSize
        <5>1. Goes(pc, ins, ins.jump)
          BY <3>1, <3>4, <4>4 DEF Outcome
        <5>2. ins.jump \in 1 .. WindowSize + 1
          BY <1>2, <4>4
        <5> QED
          BY <3>1, <5>1, <5>2
      <4>5. CASE Taken(machine, ins) # Unknown /\ ins.jump \notin 1 .. WindowSize
        BY <3>1, <3>4, <4>2, <4>5 DEF Outcome
      <4> QED
        BY <4>3, <4>4, <4>5
    <3> QED
      BY <3>2, <3>3, <3>4
  <2> QED
    BY <2>1, <2>2
<1> QED
  BY <1>1, <1>3, <1>4, <1>5, <1>6

(* What was reached stays what it was. *)
LEMMA ProgramStays ==
  ASSUME MachineInv, TrailInv, NEW ins \in Instructions, pc \in Places,
         program' = [program EXCEPT ![pc] = ins], program[pc] = Unknown \/ program[pc] = ins
  PROVE  /\ program' \in [Places -> Instructions \cup {Unknown}] /\ program'[pc] = ins
         /\ ins # Unknown
         /\ \A i \in ToSet(trail) : i \in Places /\ program'[i] = program[i] /\ program'[i] # Unknown
<1>1. program \in [Places -> Instructions \cup {Unknown}]
  BY DEF MachineInv
<1>2. program' \in [Places -> Instructions \cup {Unknown}] /\ program'[pc] = ins
  BY <1>1
<1>3. ins # Unknown
  BY InstructionAssumption
<1>4. \A i \in ToSet(trail) : i \in Places /\ program[i] # Unknown
  <2>1. DOMAIN trail = 1 .. Len(trail)
    BY LenProperties DEF TrailInv
  <2>2. \A j \in 1 .. Len(trail) : trail[j] \in Places
    BY ElementOfSeq DEF TrailInv
  <2> QED
    BY <2>1, <2>2 DEF ToSet, TrailInv
<1>5. ASSUME NEW i \in ToSet(trail) PROVE program'[i] = program[i]
  <2>1. CASE i = pc
    BY <1>2, <1>4, <2>1
  <2>2. CASE i # pc
    BY <1>1, <1>4, <2>2
  <2> QED
    BY <2>1, <2>2
<1> QED
  BY <1>2, <1>3, <1>4, <1>5

(* Of what a list of setups ends with, all was executed. *)
LEMMA LastAmong ==
  ASSUME trail \in Seq(Places), NEW k \in Nat, k <= Len(trail), NEW n \in Nat,
         NEW t, IsLast(t, SetupBefore(k), n)
  PROVE  \A x \in ToSet(t) : x \in ToSet(trail)
<1>1. PICK b : b = SetupBefore(k)
  OBVIOUS
<1>2. /\ b \in Seq(Places) /\ \A j \in 1 .. Len(b) : \E i \in 1 .. k : b[j] = trail[i]
      /\ \A i \in 1 .. k : trail[i] \in ToSet(trail)
  BY <1>1, BeforeIsSeq
<1>3. PICK lb \in Nat, lt \in Nat : lb = Len(b) /\ lt = Len(t)
  BY <1>1, <1>2, LenProperties, SeqIs DEF IsLast
<1>4. PICK d \in Nat : d = Drop(lb, n) /\ d <= lb
  <2>1. Drop(lb, n) \in Nat /\ Drop(lb, n) <= lb
    BY <1>3 DEF Drop
  <2> QED
    BY <2>1
<1>5. /\ IsSeq(t) /\ lt = lb - d /\ \A j \in 1 .. lt : t[j] = b[d + j]
  BY <1>1, <1>3, <1>4 DEF IsLast
<1>6. DOMAIN t = 1 .. lt
  BY <1>3, <1>5, SeqIs
<1>7. \A j \in 1 .. lt : t[j] \in ToSet(trail)
  <2> TAKE j \in 1 .. lt
  <2>1. d + j \in 1 .. lb
    BY <1>4, <1>5
  <2> QED
    BY <1>2, <1>3, <1>5, <2>1
<1> QED
  BY <1>6, <1>7 DEF ToSet

(* What is true of a call stays true of it. *)
LEMMA CallStays ==
  ASSUME MachineInv, TrailInv, NEW ins \in Instructions, pc \in Places,
         program' = [program EXCEPT ![pc] = ins], program[pc] = Unknown \/ program[pc] = ins,
         trail' = trail \/ trail' = Append(trail, pc),
         NEW c, NEW k \in Nat, CallRight(c, k)
  PROVE  CallRight(c, k)'
<1>1. \A i \in ToSet(trail) : program'[i] = program[i]
  BY ProgramStays
<1>2. trail \in Seq(Places)
  BY DEF TrailInv
<1>3. PICK n \in Nat : n = Len(trail)
  BY <1>2, LenProperties
<1>4. k + 1 <= n /\ trail[k + 1] = c.at /\ IsLast(c.setup, SetupBefore(k), PreviewCap)
  BY <1>3 DEF CallRight
<1>5. k <= n /\ k + 1 \in 1 .. n
  BY <1>4
<1>6. SetupBefore(k)' = SetupBefore(k)
  BY <1>1, <1>2, <1>3, <1>5, BeforeStays
<1>7. k + 1 <= Len(trail') /\ trail'[k + 1] = c.at
  <2>1. CASE trail' = trail
    BY <1>3, <1>4, <2>1
  <2>2. CASE trail' = Append(trail, pc)
    <3>1. /\ Len(Append(trail, pc)) = n + 1
          /\ \A i \in 1 .. n : Append(trail, pc)[i] = trail[i]
      BY <1>2, <1>3, AppendProperties
    <3> QED
      BY <1>4, <1>5, <2>2, <3>1
  <2> QED
    BY <2>1, <2>2
<1>8. IsLast(c.setup, SetupBefore(k)', PreviewCap)
  BY <1>4, <1>6
<1>9. \A i \in ToSet(c.setup) : i \in ToSet(trail)
  BY <1>2, <1>3, <1>4, <1>5, LastAmong, ContextCapIs
<1>10. \A i \in ToSet(c.setup) : i \in ToSet(c.pushed) <=> IsPushedConstant(program'[i])
  BY <1>1, <1>9 DEF CallRight
<1> QED
  BY <1>7, <1>8, <1>10 DEF CallRight

(* A call is told with what comes before it. *)
LEMMA SummaryIsRight ==
  ASSUME EmulateInv, NEW ins \in Instructions, pc \in Places,
         program' = [program EXCEPT ![pc] = ins], program[pc] = Unknown \/ program[pc] = ins,
         trail' = Append(trail, pc), NEW k \in Nat, k = Len(trail),
         NEW c, c = CallSummary(pc)
  PROVE  CallRight(c, k)'
<1>1. \A i \in ToSet(trail) : program'[i] = program[i]
  BY ProgramStays DEF EmulateInv
<1>2. trail \in Seq(Places)
  BY DEF EmulateInv, TrailInv
<1>3. IsLast(context, SetupBefore(k), ContextCap)
  BY DEF EmulateInv, ContextInv
<1>4. IsSeq(context)
  BY <1>3 DEF IsLast
<1>5. PICK shown : shown = Preview(context) /\ shown = LastOf(context, PreviewCap)
  BY <1>4, PreviewIsLast
<1>6. IsLast(shown, SetupBefore(k), PreviewCap)
  <2>1. IsSeq(SetupBefore(k))
    BY <1>2, BeforeIsSeq DEF IsSeq
  <2>2. IsLast(LastOf(context, PreviewCap), SetupBefore(k), PreviewCap)
    BY <1>3, <2>1, ContextCapIs, LastOfLast
  <2> QED
    BY <1>5, <2>2
<1>7. \A i \in ToSet(context) : i \in ToSet(trail)
  BY <1>2, <1>3, LastAmong, ContextCapIs
<1>8. PICK T : T = {j \in ToSet(context) : IsPushedConstant(program[j])}
  OBVIOUS
<1>9. c = [at |-> pc, setup |-> shown, pushed |-> Kept(shown, T)]
  BY <1>5, <1>8 DEF CallSummary
<1>10. c.at = pc /\ c.setup = shown /\ c.pushed = Kept(shown, T)
  BY <1>9
<1>11. SetupBefore(k)' = SetupBefore(k)
  BY <1>1, <1>2, BeforeStays
<1>12. k + 1 <= Len(trail') /\ trail'[k + 1] = c.at
  <2>1. Len(Append(trail, pc)) = k + 1 /\ Append(trail, pc)[k + 1] = pc
    BY <1>2, AppendProperties
  <2> QED
    BY <1>10, <2>1
<1>13. ASSUME NEW i \in ToSet(c.setup)
       PROVE  i \in ToSet(c.pushed) <=> IsPushedConstant(program'[i])
  <2>1. i \in ToSet(shown)
    BY <1>10
  <2>2. i \in ToSet(context)
    <3>1. /\ IsSeq(LastOf(context, PreviewCap)) /\ Drop(Len(context), PreviewCap) \in 0 .. Len(context)
          /\ Len(LastOf(context, PreviewCap)) = Len(context) - Drop(Len(context), PreviewCap)
          /\ \A j \in 1 .. Len(LastOf(context, PreviewCap)) :
               LastOf(context, PreviewCap)[j] = context[Drop(Len(context), PreviewCap) + j]
      BY <1>4, ContextCapIs, LastOfIs
    <3>2. PICK d \in Nat, m \in Nat : /\ m = Len(context) /\ d = Drop(m, PreviewCap) /\ d <= m
                                      /\ DOMAIN context = 1 .. m
      BY <1>4, <3>1, SeqIs
    <3>3. IsSeq(shown) /\ Len(shown) = m - d /\ \A j \in 1 .. m - d : shown[j] = context[d + j]
      BY <1>5, <3>1, <3>2
    <3>4. PICK j \in 1 .. m - d : i = shown[j]
      <4>1. DOMAIN shown = 1 .. m - d
        BY <3>3, SeqIs
      <4> QED
        BY <2>1, <4>1 DEF ToSet
    <3>5. d + j \in DOMAIN context /\ i = context[d + j]
      BY <3>2, <3>3, <3>4
    <3> QED
      BY <3>5 DEF ToSet
  <2>3. \E S : shown \in Seq(S)
    BY <1>6 DEF IsLast, IsSeq
  <2>4. i \in ToSet(Kept(shown, T)) <=> i \in T
    BY <2>1, <2>3, KeptMembers
  <2>5. i \in T <=> IsPushedConstant(program[i])
    BY <1>8, <2>2
  <2>6. program'[i] = program[i]
    BY <1>1, <1>7, <2>2
  <2> QED
    BY <1>10, <2>4, <2>5, <2>6
<1>14. IsLast(c.setup, SetupBefore(k)', PreviewCap)
  BY <1>6, <1>10, <1>11
<1> QED
  BY <1>12, <1>13, <1>14 DEF CallRight

(* A step that goes on. *)
LEMMA GoesInv ==
  ASSUME EmulateInv, NEW ins \in Instructions, pc \in Places, aePc = "run",
         steps' \in 0 .. MaxSteps,
         program' = [program EXCEPT ![pc] = ins], program[pc] = Unknown \/ program[pc] = ins,
         NEW next \in 1 .. WindowSize + 1, Goes(pc, ins, next),
         calls' = IF ins.op = "call" THEN Append(calls, CallSummary(pc)) ELSE calls
  PROVE  EmulateInv'
<1>1. /\ context' = UpdateContext(pc, ins) /\ machine' = Step(machine, ins) /\ pc' = next
      /\ trail' = Append(trail, pc) /\ aePc' = aePc /\ unsupported' = unsupported
  BY DEF Goes
<1>2. /\ MachineInv /\ EndInv /\ TrailInv /\ ContextInv /\ CallsInv
  BY DEF EmulateInv
<1>3. /\ program' \in [Places -> Instructions \cup {Unknown}] /\ program'[pc] = ins
      /\ ins # Unknown
      /\ \A i \in ToSet(trail) : i \in Places /\ program'[i] = program[i] /\ program'[i] # Unknown
  BY <1>2, ProgramStays
<1>4. trail \in Seq(Places)
  BY <1>2 DEF TrailInv
<1>5. PICK n \in Nat : n = Len(trail)
  BY <1>4, LenProperties
<1>6. /\ trail' \in Seq(Places) /\ Len(trail') = n + 1 /\ trail'[n + 1] = pc
      /\ \A i \in 1 .. n : trail'[i] = trail[i]
  <2>1. /\ Append(trail, pc) \in Seq(Places) /\ Len(Append(trail, pc)) = n + 1
        /\ Append(trail, pc)[n + 1] = pc
        /\ \A i \in 1 .. n : Append(trail, pc)[i] = trail[i]
    BY <1>4, <1>5, AppendProperties
  <2> QED
    BY <1>1, <2>1
<1>7. MachineInv'
  <2>1. machine \in Machines
    BY <1>2 DEF MachineInv
  <2>2. Step(machine, ins) \in Machines
    BY <2>1, StepIsMachine
  <2> QED
    BY <1>1, <1>3, <2>2 DEF MachineInv
<1>8. EndInv'
  <2>1. aePc' = "run" /\ unsupported' = unsupported /\ "run" # "stopped"
    BY <1>1
  <2> QED
    BY <1>2, <2>1 DEF EndInv
<1>9. TrailInv'
  <2>1. ASSUME NEW x \in ToSet(trail') PROVE program'[x] # Unknown
    <3>1. DOMAIN trail' = 1 .. n + 1
      BY <1>6, LenProperties
    <3>2. PICK i \in 1 .. n + 1 : x = trail'[i]
      BY <3>1 DEF ToSet
    <3>3. CASE i = n + 1
      BY <1>3, <1>6, <3>2, <3>3
    <3>4. CASE i # n + 1
      <4>0. DOMAIN trail = 1 .. n
        BY <1>4, <1>5, LenProperties
      <4>1. i \in 1 .. n /\ DOMAIN trail = 1 .. n
        BY <3>4, <4>0
      <4>2. x \in ToSet(trail)
        BY <1>6, <3>2, <4>1 DEF ToSet
      <4> QED
        BY <1>3, <4>2
    <3> QED
      BY <3>3, <3>4
  <2> QED
    BY <1>6, <2>1 DEF TrailInv
<1>10. ContextInv'
  <2>1. SetupBefore(n + 1)' = IF IsSetup(program'[pc]) THEN Append(SetupBefore(n), pc)
                              ELSE SetupBefore(n)
    BY <1>1, <1>3, <1>4, <1>5, BeforeGrows
  <2>2. PICK b : b = SetupBefore(n)
    OBVIOUS
  <2>3. IsLast(context, b, ContextCap)
    BY <1>2, <1>5, <2>2 DEF ContextInv
  <2>4. IsSeq(b)
    BY <1>4, <1>5, <2>2, BeforeIsSeq DEF IsSeq
  <2>5. IsLast(context', SetupBefore(n + 1)', ContextCap)
    <3>1. CASE ~ IsSetup(ins)
      <4>1. context' = context
        BY <1>1, <3>1 DEF UpdateContext
      <4>2. SetupBefore(n + 1)' = b
        BY <1>3, <2>1, <2>2, <3>1
      <4> QED
        BY <2>3, <4>1, <4>2
    <3>2. CASE IsSetup(ins)
      <4>1. IsSeq(context) /\ Len(context) <= ContextCap
        <5>1. PICK lb \in Nat, cap \in Nat : lb = Len(b) /\ cap = ContextCap
          BY <2>4, SeqIs, ContextCapIs
        <5>2. Len(context) = lb - Drop(lb, cap)
          BY <2>3, <5>1 DEF IsLast
        <5>3. lb - Drop(lb, cap) <= cap
          BY <5>1 DEF Drop
        <5> QED
          BY <2>3, <5>1, <5>2, <5>3 DEF IsLast
      <4>2. context' = LastOf(Append(context, pc), ContextCap)
        BY <1>1, <3>2, <4>1, ContextMoves
      <4>3. SetupBefore(n + 1)' = Append(b, pc)
        BY <1>3, <2>1, <2>2, <3>2
      <4>4. PICK p : p = pc
        OBVIOUS
      <4>5. IsLast(LastOf(Append(context, p), ContextCap), Append(b, p), ContextCap)
        BY <2>3, <2>4, ContextCapIs, LastGrows
      <4> QED
        BY <4>2, <4>3, <4>4, <4>5
    <3> QED
      BY <3>1, <3>2
  <2> QED
    BY <1>6, <2>5 DEF ContextInv
<1>11. CallsInv'
  <2>1. PICK m \in Nat : m = Len(calls) /\ IsSeq(calls)
    BY <1>2, SeqIs DEF CallsInv
  <2>2. ASSUME NEW c, NEW k \in Nat, CallRight(c, k) PROVE CallRight(c, k)'
    BY <1>1, <1>2, <2>2, CallStays
  <2>3. \A i \in 1 .. m : \E k \in Nat : CallRight(calls[i], k)
    BY <1>2, <2>1 DEF CallsInv
  <2>4. \A i \in 1 .. m : \E c : c = calls[i] /\ \E k \in Nat : CallRight(c, k)'
    <3> TAKE i \in 1 .. m
    <3>1. PICK c : c = calls[i]
      OBVIOUS
    <3>2. PICK k \in Nat : CallRight(c, k)
      BY <2>3, <3>1
    <3>3. CallRight(c, k)'
      BY <2>2, <3>2
    <3> QED
      BY <3>1, <3>3
  <2>5. CASE ins.op # "call"
    <3>1. calls' = calls
      BY <2>5
    <3> QED
      BY <2>1, <2>4, <3>1 DEF CallsInv
  <2>6. CASE ins.op = "call"
    <3>1. PICK c : c = CallSummary(pc)
      OBVIOUS
    <3>2. CallRight(c, n)'
      BY <1>1, <1>5, <3>1, SummaryIsRight
    <3>3. calls' = Append(calls, c)
      BY <2>6, <3>1
    <3>4. /\ IsSeq(calls') /\ Len(calls') = m + 1 /\ calls'[m + 1] = c
          /\ \A i \in 1 .. m : calls'[i] = calls[i]
      BY <2>1, <3>3, IsSeqAppend
    <3>5. ASSUME NEW i \in 1 .. m + 1 PROVE \E k \in Nat : CallRight(calls[i], k)'
      <4>1. CASE i = m + 1
        BY <3>2, <3>4, <4>1
      <4>2. CASE i # m + 1
        BY <2>4, <3>4, <4>2
      <4> QED
        BY <4>1, <4>2
    <3> QED
      BY <3>4, <3>5 DEF CallsInv
  <2> QED
    BY <2>5, <2>6
<1> QED
  BY <1>7, <1>8, <1>9, <1>10, <1>11 DEF EmulateInv

(* A step that stops, or none: what was executed stays. *)
LEMMA RestsInv ==
  ASSUME EmulateInv, UNCHANGED <<trail, context, machine, pc>>,
         \/ UNCHANGED <<program, calls>>
         \/ /\ pc \in Places /\ UNCHANGED calls
            /\ \E ins \in Instructions : /\ program' = [program EXCEPT ![pc] = ins]
                                         /\ program[pc] = Unknown \/ program[pc] = ins
  PROVE  TrailInv' /\ ContextInv' /\ CallsInv' /\ program' \in [Places -> Instructions \cup {Unknown}]
<1>1. /\ MachineInv /\ EndInv /\ TrailInv /\ ContextInv /\ CallsInv
  BY DEF EmulateInv
<1>2. CASE UNCHANGED <<program, calls>>
  <2>1. TrailInv'
    BY <1>1, <1>2 DEF TrailInv
  <2>2. \A k : SetupBefore(k)' = SetupBefore(k)
    BY <1>2 DEF SetupBefore
  <2>3. ContextInv'
    BY <1>1, <2>2 DEF ContextInv
  <2>4. \A c, k : CallRight(c, k) => CallRight(c, k)'
    BY <1>2, <2>2 DEF CallRight
  <2>5. CallsInv'
    BY <1>1, <1>2, <2>4 DEF CallsInv
  <2> QED
    BY <1>1, <1>2, <2>1, <2>3, <2>5 DEF MachineInv
<1>3. ASSUME pc \in Places, UNCHANGED calls, NEW ins \in Instructions,
             program' = [program EXCEPT ![pc] = ins], program[pc] = Unknown \/ program[pc] = ins
      PROVE  TrailInv' /\ ContextInv' /\ CallsInv'
             /\ program' \in [Places -> Instructions \cup {Unknown}]
  <2>1. /\ program' \in [Places -> Instructions \cup {Unknown}]
        /\ \A i \in ToSet(trail) : i \in Places /\ program'[i] = program[i] /\ program'[i] # Unknown
    BY <1>1, <1>3, ProgramStays
  <2>2. trail \in Seq(Places)
    BY <1>1 DEF TrailInv
  <2>3. TrailInv'
    BY <1>1, <2>1 DEF TrailInv
  <2>4. ContextInv'
    <3>1. \A k \in Nat : k <= Len(trail) => SetupBefore(k)' = SetupBefore(k)
      BY <1>3, <2>1, <2>2, BeforeStays
    <3>2. Len(trail) \in Nat /\ Len(trail) <= Len(trail)
      BY <2>2, LenProperties
    <3> QED
      BY <1>1, <3>1, <3>2 DEF ContextInv
  <2>5. ASSUME NEW c, NEW k \in Nat, CallRight(c, k) PROVE CallRight(c, k)'
    BY <1>1, <1>3, <2>5, CallStays
  <2>6. CallsInv'
    BY <1>1, <1>3, <2>5 DEF CallsInv
  <2> QED
    BY <2>1, <2>3, <2>4, <2>6
<1> QED
  BY <1>2, <1>3

(* Every step keeps the invariant. *)
LEMMA EmulateStepInv ==
  ASSUME EmulateInv, [EmulateNext]_aeVars
  PROVE  EmulateInv'
<1>1. /\ MachineInv /\ EndInv
  BY DEF EmulateInv
<1>2. CASE EmulateStep
  <2>1. PICK ins \in Instructions :
          /\ pc \in Places /\ steps' \in 0 .. MaxSteps /\ aePc = "run"
          /\ program' = [program EXCEPT ![pc] = ins]
          /\ program[pc] = Unknown \/ program[pc] = ins
          /\ \/ /\ \E reason : Stop(pc, reason)
                /\ UNCHANGED calls
             \/ /\ \E next \in 1 .. WindowSize + 1 : Goes(pc, ins, next)
                /\ calls' = IF ins.op = "call" THEN Append(calls, CallSummary(pc))
                            ELSE calls
    BY <1>2, StepIs
  <2>2. ASSUME NEW reason, Stop(pc, reason), UNCHANGED calls
        PROVE  EmulateInv'
    <3>1. /\ aePc' = "stopped" /\ unsupported' = Append(unsupported, [at |-> pc, reason |-> reason])
          /\ UNCHANGED <<machine, context, pc, trail>>
      BY <2>2 DEF Stop
    <3>2. /\ TrailInv' /\ ContextInv' /\ CallsInv'
          /\ program' \in [Places -> Instructions \cup {Unknown}]
      BY <2>1, <2>2, <3>1, RestsInv
    <3>3. MachineInv'
      BY <1>1, <2>1, <3>1, <3>2 DEF MachineInv
    <3>4. EndInv'
      <4>1. IsSeq(unsupported) /\ Len(unsupported) = 0
        BY <1>1, <2>1 DEF EndInv
      <4>2. PICK row : unsupported' = Append(unsupported, row)
        BY <3>1
      <4>3. IsSeq(unsupported') /\ Len(unsupported') = 1
        <5>1. PICK u : u = unsupported /\ IsSeq(u) /\ Len(u) = 0
          BY <4>1
        <5>2. IsSeq(Append(u, row)) /\ Len(Append(u, row)) = Len(u) + 1
          BY <5>1, IsSeqAppend
        <5> QED
          BY <4>2, <5>1, <5>2
      <4> QED
        BY <3>1, <4>3 DEF EndInv
    <3> QED
      BY <3>2, <3>3, <3>4 DEF EmulateInv
  <2>3. ASSUME NEW next \in 1 .. WindowSize + 1, Goes(pc, ins, next),
               calls' = IF ins.op = "call" THEN Append(calls, CallSummary(pc)) ELSE calls
        PROVE  EmulateInv'
    BY <2>1, <2>3, GoesInv
  <2> QED
    BY <2>1, <2>2, <2>3
<1>3. CASE EmulateStart \/ EmulateEnds \/ UNCHANGED aeVars
  <2>1. /\ UNCHANGED <<program, pc, steps, machine, context, calls, unsupported, trail>>
        /\ \/ aePc' = "run" /\ aePc = "idle"
           \/ aePc' = "stopped" /\ aePc = "run" /\ (pc > WindowSize \/ steps >= MaxSteps)
           \/ aePc' = aePc
    BY <1>3 DEF EmulateStart, EmulateEnds, aeVars
  <2>2. TrailInv' /\ ContextInv' /\ CallsInv'
    BY <2>1, RestsInv
  <2>3. MachineInv'
    BY <1>1, <2>1 DEF MachineInv
  <2>4. EndInv'
    BY <1>1, <2>1 DEF EndInv
  <2> QED
    BY <2>2, <2>3, <2>4 DEF EmulateInv
<1> QED
  BY <1>2, <1>3 DEF EmulateNext

(* The invariant holds the properties that are checked of an emulation. *)
LEMMA EmulateInvIsEnough ==
  ASSUME EmulateInv
  PROVE  EmulateTypeOK /\ EarlyEndIsReported /\ CallsShowTheirSetup /\ PushPopRoundTrip
<1>1. /\ MachineInv /\ EndInv /\ TrailInv /\ ContextInv /\ CallsInv
  BY DEF EmulateInv
<1>2. PICK n \in Nat : n = Len(trail) /\ DOMAIN trail = 1 .. n /\ trail \in Seq(Places)
  BY <1>1, LenProperties DEF TrailInv
<1>3. EmulateTypeOK
  <2>1. machine \in Machines
    BY <1>1 DEF MachineInv
  <2>2. /\ machine.regs \in [Regs -> 0 .. Word - 1]
        /\ \A a \in DOMAIN machine.memory : machine.memory[a] \in 0 .. Base - 1
    BY <2>1, MachineIs DEF Words, Bytes
  <2>3. Len(context) <= ContextCap
    <3>1. IsLast(context, SetupBefore(n), ContextCap)
      BY <1>1, <1>2 DEF ContextInv
    <3>2. SetupBefore(n) \in Seq(Places)
      BY <1>2, BeforeIsSeq
    <3>3. PICK lb \in Nat, cap \in Nat : lb = Len(SetupBefore(n)) /\ cap = ContextCap
      BY <3>2, LenProperties, ContextCapIs
    <3>4. Len(context) = lb - Drop(lb, cap)
      BY <3>1, <3>3 DEF IsLast
    <3>5. lb - Drop(lb, cap) <= cap
      BY <3>3 DEF Drop
    <3> QED
      BY <3>3, <3>4, <3>5
  <2> QED
    BY <1>1, <2>2, <2>3 DEF MachineInv, EndInv, EmulateTypeOK
<1>4. EarlyEndIsReported
  <2> SUFFICES ASSUME aePc = "stopped", pc <= WindowSize
               PROVE  StepTruncated \/ unsupported # <<>>
    BY DEF EarlyEndIsReported
  <2>1. ~ (pc > WindowSize)
    BY <1>1, EmulatorAssumption DEF MachineInv
  <2>2. CASE Len(unsupported) = 1
    <3>1. unsupported = <<>> <=> Len(unsupported) = 0
      BY <1>1, SeqIs DEF EndInv
    <3>2. Len(unsupported) # 0
      BY <2>2
    <3> QED
      BY <3>1, <3>2
  <2> QED
    BY <1>1, <2>1, <2>2 DEF EndInv, StepTruncated
<1>5. CallsShowTheirSetup
  <2> SUFFICES ASSUME NEW at \in DOMAIN calls
               PROVE  \E k \in 0 .. Len(trail) :
                        LET setup  == calls[at].setup
                            before == SetupBefore(k)
                        IN  /\ Len(setup) = Min({PreviewCap, Len(before)})
                            /\ \A i \in DOMAIN setup :
                                 setup[i] = before[Len(before) - Len(setup) + i]
                            /\ k < Len(trail) => trail[k + 1] = calls[at].at
                            /\ \A i \in ToSet(setup) :
                                 i \in ToSet(calls[at].pushed) <=> IsPushedConstant(program[i])
    BY DEF CallsShowTheirSetup
  <2>0. PICK c : c = calls[at]
    OBVIOUS
  <2>1. PICK k \in Nat : c = calls[at] /\ CallRight(c, k)
    <3>1. at \in 1 .. Len(calls)
      BY <1>1, SeqIs DEF CallsInv
    <3> QED
      BY <1>1, <2>0, <3>1 DEF CallsInv
  <2>2. k + 1 <= n /\ trail[k + 1] = c.at
    BY <1>2, <2>1 DEF CallRight
  <2>3. PICK setup, before : setup = c.setup /\ before = SetupBefore(k)
    OBVIOUS
  <2>4. IsLast(setup, before, PreviewCap)
    BY <2>1, <2>3 DEF CallRight
  <2>5. before \in Seq(Places)
    BY <1>2, <2>2, <2>3, BeforeIsSeq
  <2>6. PICK lb \in Nat, ls \in Nat, cap \in Nat :
          /\ lb = Len(before) /\ ls = Len(setup) /\ cap = PreviewCap /\ DOMAIN setup = 1 .. ls
    BY <2>4, <2>5, LenProperties, SeqIs, ContextCapIs DEF IsLast
  <2>7. PICK d \in Nat : d = Drop(lb, cap) /\ ls = lb - d
    <3>1. Drop(lb, cap) \in Nat /\ ls = lb - Drop(lb, cap)
      BY <2>4, <2>6 DEF IsLast, Drop
    <3> QED
      BY <3>1
  <2>8. Len(setup) = Min({PreviewCap, Len(before)})
    <3> DEFINE T == {cap, lb}
    <3>1. T \subseteq Nat /\ ls \in T /\ \A x \in T : ls <= x
      BY <2>6, <2>7 DEF Drop
    <3>2. Min(T) \in T /\ \A x \in T : Min(T) <= x
      BY <3>1, MinIsLeast
    <3>3. PICK least \in Nat : least = Min(T) /\ ls <= least /\ least <= ls
      BY <3>1, <3>2
    <3>4. ls = Min(T)
      BY <3>3
    <3> QED
      BY <2>6, <3>4
  <2>9. \A i \in DOMAIN setup : setup[i] = before[Len(before) - Len(setup) + i]
    <3>1. \A i \in 1 .. ls : setup[i] = before[d + i]
      BY <2>4, <2>6, <2>7 DEF IsLast
    <3>2. lb - ls = d
      BY <2>7
    <3> QED
      BY <2>6, <3>1, <3>2
  <2>10. \A i \in ToSet(setup) : i \in ToSet(c.pushed) <=> IsPushedConstant(program[i])
    BY <2>1, <2>3 DEF CallRight
  <2>11. k \in 0 .. Len(trail)
    BY <1>2, <2>2
  <2> QED
    BY <2>1, <2>2, <2>3, <2>8, <2>9, <2>10, <2>11
<1>6. PushPopRoundTrip
  <2> SUFFICES ASSUME NEW ins \in Instructions, NEW r \in Regs \ {"esp"}, ins.op = "push"
               PROVE  LET dst   == [kind |-> "reg", reg |-> r, part |-> "full"]
                          after == PopStep(PushStep(machine, ins.src), dst)
                      IN  /\ Reg(after, dst) = EvalOperand(machine, ins.src)
                          /\ Reg(after, Esp) = Reg(machine, Esp)
    BY DEF PushPopRoundTrip
  <2>1. machine \in Machines /\ ins.src \in RegOperands \cup MemOperands \cup ImmOperands
    BY <1>1, InstructionAssumption DEF MachineInv
  <2>2. PICK dst : dst = [kind |-> "reg", reg |-> r, part |-> "full"]
    OBVIOUS
  <2> QED
    BY <2>1, <2>2, PushedIsPopped
<1> QED
  BY <1>3, <1>4, <1>5, <1>6

-----------------------------------------------------------------------------
(***************************************************************************)
(* ArtifactEmulator: the strings it left in memory.                        *)
(***************************************************************************)

(* From b on, n cells of good and no more. *)
MaximalRun(good, b, n) ==
  /\ b .. b + n - 1 \subseteq good
  /\ b - 1 \notin good /\ b + n \notin good

(* What a run from b is told as. *)
ToldAs(first, width, b, n) == <<first + width * (b - 1), n, width>>

(* What the end of a run before i adds. *)
ClosedAt(found, i, least, first, width) ==
  IF i - found.begin < least THEN found.hits
  ELSE found.hits \cup {<<first + width * (found.begin - 1), i - found.begin, width>>}

RunsBefore(hits, good, least, first, width, i) ==
  \A x : x \in hits <=> \E b \in Nat \ {0}, n \in Nat :
           /\ x = ToldAs(first, width, b, n) /\ n >= least
           /\ b + n <= i /\ MaximalRun(good, b, n)

(* The one run that ends before i is the one the loop is in. *)
LEMMA CloseRun ==
  ASSUME NEW i \in Nat \ {0}, NEW good, good \subseteq Nat \ {0}, NEW least \in Nat \ {0},
         NEW first, NEW width, NEW found, found.begin \in 1 .. i,
         found.begin .. i - 1 \subseteq good, found.begin - 1 \notin good, i \notin good,
         RunsBefore(found.hits, good, least, first, width, i - 1)
  PROVE  RunsBefore(ClosedAt(found, i, least, first, width), good, least, first, width, i)
<1>0. PICK hits : hits = found.hits
  OBVIOUS
<1>1. PICK c \in 1 .. i : c = found.begin /\ hits = found.hits
  BY <1>0
<1> DEFINE next == ClosedAt(found, i, least, first, width)
<1>2. next = IF i - c < least THEN hits ELSE hits \cup {ToldAs(first, width, c, i - c)}
  BY <1>1 DEF ClosedAt, ToldAs
<1> HIDE DEF next
<1>3. ASSUME NEW b \in Nat \ {0}, NEW n \in Nat, n >= least, b + n = i,
             MaximalRun(good, b, n)
      PROVE  b = c /\ n = i - c
  <2>1. b .. i - 1 \subseteq good /\ b - 1 \notin good /\ b <= i - 1
    BY <1>3 DEF MaximalRun
  <2>2. c .. i - 1 \subseteq good /\ c - 1 \notin good
    BY <1>1
  <2>3. CASE b < c
    <3>1. c - 1 \in b .. i - 1
      BY <2>1, <2>3
    <3> QED
      BY <2>1, <2>2, <3>1
  <2>4. CASE c < b
    <3>1. b - 1 \in c .. i - 1
      BY <2>1, <2>4
    <3> QED
      BY <2>1, <2>2, <3>1
  <2> QED
    BY <1>3, <2>3, <2>4
<1>4. ASSUME NEW x
      PROVE  x \in next <=> \E b \in Nat \ {0}, n \in Nat :
               /\ x = ToldAs(first, width, b, n) /\ n >= least
               /\ b + n <= i /\ MaximalRun(good, b, n)
  <2>1. x \in hits <=> \E b \in Nat \ {0}, n \in Nat :
           /\ x = ToldAs(first, width, b, n) /\ n >= least
           /\ b + n <= i - 1 /\ MaximalRun(good, b, n)
    BY <1>1 DEF RunsBefore
  <2>2. ASSUME x \in next
        PROVE  \E b \in Nat \ {0}, n \in Nat :
               /\ x = ToldAs(first, width, b, n) /\ n >= least
               /\ b + n <= i /\ MaximalRun(good, b, n)
    <3>1. CASE x \in hits
      BY <2>1, <3>1
    <3>2. CASE x \notin hits
      <4>1. i - c >= least /\ x = ToldAs(first, width, c, i - c)
        BY <1>2, <2>2, <3>2
      <4>2. c \in Nat \ {0} /\ i - c \in Nat /\ c + (i - c) = i
        BY <4>1
      <4>3. MaximalRun(good, c, i - c)
        BY <1>1, <4>2 DEF MaximalRun
      <4> QED
        BY <4>1, <4>2, <4>3
    <3> QED
      BY <3>1, <3>2
  <2>3. ASSUME NEW b \in Nat \ {0}, NEW n \in Nat, x = ToldAs(first, width, b, n),
               n >= least, b + n <= i, MaximalRun(good, b, n)
        PROVE  x \in next
    <3>1. CASE b + n = i
      <4>1. b = c /\ n = i - c
        BY <1>3, <2>3, <3>1
      <4>2. ~ (i - c < least)
        BY <2>3, <4>1
      <4> QED
        BY <1>2, <2>3, <4>1, <4>2
    <3>2. CASE b + n # i
      <4>1. b + n <= i - 1
        BY <2>3, <3>2
      <4>2. x \in hits
        BY <2>1, <2>3, <4>1
      <4> QED
        BY <1>2, <4>2
    <3> QED
      BY <3>1, <3>2
  <2> QED
    BY <2>2, <2>3
<1> QED
  BY <1>4 DEF RunsBefore, next

(* What the loop has found when i cells are read. *)
ReadUpTo(found, good, least, first, width, i) ==
  /\ found.begin \in 1 .. i + 1
  /\ found.begin .. i \subseteq good /\ found.begin - 1 \notin good
  /\ RunsBefore(found.hits, good, least, first, width, i)

(* A loop over cells characters finds every maximal run, and nothing else. *)
LEMMA RunsAreFound ==
  ASSUME NEW cells \in Nat, NEW good, good \subseteq 1 .. cells, NEW least \in Nat \ {0},
         NEW first, NEW width, NEW seen,
         seen[0] = [hits |-> {}, begin |-> 1],
         \A i \in 1 .. cells :
           seen[i] = IF i \in good THEN seen[i - 1]
                     ELSE [hits |-> ClosedAt(seen[i - 1], i, least, first, width),
                           begin |-> i + 1]
  PROVE  RunsBefore(ClosedAt(seen[cells], cells + 1, least, first, width),
                    good, least, first, width, cells + 1)
<1> DEFINE Right(i) == ReadUpTo(seen[i], good, least, first, width, i)
           S == {i \in 0 .. cells : Right(i)}
<1>1. Right(0)
  <2>1. seen[0].begin = 1 /\ seen[0].hits = {}
    OBVIOUS
  <2>2. ASSUME NEW x, NEW b \in Nat \ {0}, NEW n \in Nat, n >= least, b + n <= 0
        PROVE  FALSE
    BY <2>2
  <2>3. RunsBefore({}, good, least, first, width, 0)
    BY <2>2 DEF RunsBefore
  <2>4. 1 .. 0 = {} /\ 0 \notin good
    OBVIOUS
  <2> QED
    BY <2>1, <2>3, <2>4 DEF ReadUpTo
<1>2. ASSUME NEW i \in 1 .. cells, Right(i - 1)
      PROVE  Right(i)
  <2>1. PICK old : old = seen[i - 1]
    OBVIOUS
  <2>2. /\ old.begin \in 1 .. i
        /\ old.begin .. i - 1 \subseteq good /\ old.begin - 1 \notin good
        /\ RunsBefore(old.hits, good, least, first, width, i - 1)
    BY <1>2, <2>1 DEF ReadUpTo
  <2>3. CASE i \in good
    <3>1. seen[i] = old
      BY <2>1, <2>3
    <3>2. old.begin .. i \subseteq good
      BY <2>2, <2>3
    <3>3. ASSUME NEW b \in Nat, NEW n \in Nat, MaximalRun(good, b, n)
          PROVE  b + n <= i <=> b + n <= i - 1
      BY <2>3, <3>3 DEF MaximalRun
    <3>4. RunsBefore(old.hits, good, least, first, width, i)
      <4> SUFFICES ASSUME NEW x
                   PROVE  x \in old.hits <=> \E b \in Nat \ {0}, n \in Nat :
                            /\ x = ToldAs(first, width, b, n) /\ n >= least
                            /\ b + n <= i /\ MaximalRun(good, b, n)
        BY DEF RunsBefore
      <4>1. x \in old.hits <=> \E b \in Nat \ {0}, n \in Nat :
              /\ x = ToldAs(first, width, b, n) /\ n >= least
              /\ b + n <= i - 1 /\ MaximalRun(good, b, n)
        BY <2>2 DEF RunsBefore
      <4> QED
        BY <3>3, <4>1
    <3> QED
      BY <2>2, <3>1, <3>2, <3>4 DEF ReadUpTo
  <2>4. CASE i \notin good
    <3>1. seen[i] = [hits |-> ClosedAt(old, i, least, first, width), begin |-> i + 1]
      BY <2>1, <2>4
    <3>2. good \subseteq Nat \ {0} /\ i \in Nat \ {0}
      OBVIOUS
    <3>3. RunsBefore(ClosedAt(old, i, least, first, width), good, least, first, width, i)
      BY <2>2, <2>4, <3>2, CloseRun
    <3>4. i + 1 \in 1 .. i + 1 /\ (i + 1) .. i = {} /\ (i + 1) - 1 = i
      OBVIOUS
    <3> QED
      BY <2>4, <3>1, <3>3, <3>4 DEF ReadUpTo
  <2> QED
    BY <2>3, <2>4
<1> HIDE DEF Right
<1>3. 0 \in S /\ \A i \in 1 .. cells : i - 1 \in S => i \in S
  BY <1>1, <1>2
<1> HIDE DEF S
<1>4. cells \in S
  BY <1>3, ClimbTo
<1>5. Right(cells)
  BY <1>4 DEF S
<1>6. PICK last : last = seen[cells]
  OBVIOUS
<1>7. /\ last.begin \in 1 .. cells + 1
      /\ last.begin .. cells \subseteq good /\ last.begin - 1 \notin good
      /\ RunsBefore(last.hits, good, least, first, width, cells)
  BY <1>5, <1>6 DEF Right, ReadUpTo
<1>8. /\ cells + 1 \in Nat \ {0} /\ (cells + 1) - 1 = cells
      /\ good \subseteq Nat \ {0} /\ cells + 1 \notin good
  OBVIOUS
<1>9. RunsBefore(ClosedAt(last, cells + 1, least, first, width),
                 good, least, first, width, cells + 1)
  BY <1>7, <1>8, CloseRun
<1> QED
  BY <1>6, <1>9

-----------------------------------------------------------------------------
(* The strings of a range. *)

(* The characters of a range from a phase on, and those that are *)
(* printable.                                                    *)
CellCount(range, phase, width) == (range[2] - range[1] + 1 - phase) \div width

GoodCells(range, phase, width) ==
  {i \in 1 .. CellCount(range, phase, width) :
     Character(range[1] + phase + width * (i - 1), width) \in Printable}

LEMMA MinLengthIs == MinLength \in Nat \ {0}
BY EmulatorAssumption DEF MinLength

(* Scan finds the maximal runs of the printable characters of its range. *)
LEMMA ScanIs ==
  ASSUME NEW range, range[1] \in Int, range[2] \in Int, NEW phase \in Nat,
         NEW width \in {1, 2}, CellCount(range, phase, width) \in Nat
  PROVE  RunsBefore(Scan(range, phase, width), GoodCells(range, phase, width), MinLength,
                    range[1] + phase, width, CellCount(range, phase, width) + 1)
<1> DEFINE cells == (range[2] - range[1] + 1 - phase) \div width
           good == {i \in 1 .. cells :
                      Character(range[1] + phase + width * (i - 1), width) \in Printable}
           first == range[1] + phase
           Base0 == [hits |-> {}, begin |-> 1]
           End(v, k) == [hits |-> ClosedAt(v, k, MinLength, first, width), begin |-> k + 1]
           Onward(v, k) ==
             IF Character(range[1] + phase + width * (k - 1), width) \in Printable THEN v
             ELSE End(v, k)
           Upto(h) == [k \in 0 .. cells |-> IF k = 0 THEN Base0 ELSE Onward(h[k - 1], k)]
           M == CHOOSE h : h = Upto(h)
           V == [hits : SUBSET (Int \X Int \X Int), begin : Int]
<1>1. cells \in Nat /\ first \in Int /\ cells = CellCount(range, phase, width)
  BY DEF CellCount
<1>2. Scan(range, phase, width) = ClosedAt(M[cells], cells + 1, MinLength, first, width)
  BY DEF Scan, ClosedAt
<1>3. good \subseteq 1 .. cells /\ good = GoodCells(range, phase, width)
  BY DEF GoodCells, CellCount
<1>4. ASSUME NEW v \in V, NEW k \in 1 .. cells PROVE End(v, k) \in V
  <2>1. v.begin \in Int /\ v.hits \in SUBSET (Int \X Int \X Int) /\ k \in Int
    OBVIOUS
  <2>2. width * (v.begin - 1) \in Int
    BY <2>1
  <2>3. <<first + width * (v.begin - 1), k - v.begin, width>> \in Int \X Int \X Int
    BY <1>1, <2>1, <2>2
  <2>4. ClosedAt(v, k, MinLength, first, width) \in SUBSET (Int \X Int \X Int)
    BY <2>1, <2>3 DEF ClosedAt
  <2>5. k + 1 \in Int
    BY <2>1
  <2> QED
    BY <2>4, <2>5
<1>5. Base0 \in V
  OBVIOUS
<1>6. \A v \in V, k \in 1 .. cells : Onward(v, k) \in V
  <2> HIDE DEF End, V
  <2> QED
    BY <1>4
<1>7. \A v, k : k \in 1 .. cells => Onward(v, k) = IF k \in good THEN v ELSE End(v, k)
  <2> HIDE DEF End, cells
  <2> QED
    OBVIOUS
<1> HIDE DEF cells, first, Base0, End, Onward, V, good
<1>8. PICK f : /\ f \in [0 .. cells -> V] /\ f[0] = Base0
               /\ \A k \in 1 .. cells : f[k] = Onward(f[k - 1], k)
  <2> DEFINE step == [k \in 1 .. cells |-> [v \in V |-> Onward(v, k)]]
  <2>1. step \in [1 .. cells -> [V -> V]]
    BY <1>6
  <2>2. \A k \in 1 .. cells, v \in V : step[k][v] = Onward(v, k)
    OBVIOUS
  <2> HIDE DEF step
  <2>3. PICK f : Stepwise(f, cells, V, Base0, step)
    BY <1>1, <1>5, <2>1, StepByStep
  <2>4. /\ f \in [0 .. cells -> V] /\ f[0] = Base0
        /\ \A k \in 1 .. cells : f[k] = step[k][f[k - 1]]
    BY <2>3 DEF Stepwise
  <2>5. \A k \in 1 .. cells : f[k] = Onward(f[k - 1], k)
    <3> TAKE k \in 1 .. cells
    <3>1. k - 1 \in 0 .. cells
      BY <1>1
    <3>2. PICK v \in V : v = f[k - 1]
      BY <2>4, <3>1
    <3>3. step[k][v] = Onward(v, k)
      BY <2>2
    <3> QED
      BY <2>4, <3>2, <3>3
  <2> QED
    BY <2>4, <2>5
<1>9. f = Upto(f)
  <2>1. \A k \in 0 .. cells : f[k] = IF k = 0 THEN Base0 ELSE Onward(f[k - 1], k)
    <3> TAKE k \in 0 .. cells
    <3>1. CASE k = 0
      BY <1>8, <3>1
    <3>2. CASE k # 0
      <4>1. k \in 1 .. cells
        BY <1>1, <3>2
      <4> QED
        BY <1>8, <3>2, <4>1
    <3> QED
      BY <3>1, <3>2
  <2> QED
    BY <1>8, <2>1, Zenon
<1>10. M = Upto(M)
  <2> HIDE DEF Upto
  <2> QED
    BY <1>9
<1>11. PICK g : g = M
  OBVIOUS
<1>12. \A k \in 0 .. cells : g[k] = IF k = 0 THEN Base0 ELSE Onward(g[k - 1], k)
  <2>1. g = Upto(g)
    BY <1>10, <1>11
  <2> QED
    BY <2>1, Zenon
<1> HIDE DEF M
<1>13. g[0] = Base0 /\ \A k \in 1 .. cells : g[k] = Onward(g[k - 1], k)
  <2>1. 0 \in 0 .. cells /\ \A k \in 1 .. cells : k \in 0 .. cells /\ k # 0
    BY <1>1
  <2> QED
    BY <1>12, <2>1
<1>14. \A k \in 1 .. cells : g[k] = IF k \in good THEN g[k - 1] ELSE End(g[k - 1], k)
  BY <1>7, <1>13
<1>15. RunsBefore(ClosedAt(g[cells], cells + 1, MinLength, first, width),
                  good, MinLength, first, width, cells + 1)
  <2>1. PICK least \in Nat \ {0} : least = MinLength
    BY MinLengthIs
  <2>2. g[0] = [hits |-> {}, begin |-> 1]
    BY <1>13 DEF Base0
  <2>3. \A i \in 1 .. cells :
          g[i] = IF i \in good THEN g[i - 1]
                 ELSE [hits |-> ClosedAt(g[i - 1], i, least, first, width), begin |-> i + 1]
    BY <1>14, <2>1 DEF End
  <2>4. RunsBefore(ClosedAt(g[cells], cells + 1, least, first, width),
                   good, least, first, width, cells + 1)
    BY <1>1, <1>3, <2>2, <2>3, RunsAreFound
  <2> QED
    BY <2>1, <2>4
<1> QED
  BY <1>1, <1>2, <1>3, <1>11, <1>15 DEF first

-----------------------------------------------------------------------------
(* Where a text lies. *)

(* A byte in memory lies in a range that no byte makes longer: memory is *)
(* finite.                                                               *)
LEMMA RangeAround ==
  ASSUME NEW S \in FiniteInts, NEW a \in S
  PROVE  \E lo \in S, hi \in S :
           /\ lo <= a /\ a <= hi /\ lo .. hi \subseteq S
           /\ lo - 1 \notin S /\ hi + 1 \notin S
<1>1. S \subseteq Int /\ IsFiniteSet(S) /\ a \in Int
  BY DEF FiniteInts
<1>2. PICK c \in Nat : c = Cardinality(S)
  BY <1>1, FS_CardinalityType
<1>3. ASSUME NEW lo \in Int, NEW hi \in Int, lo .. hi \subseteq S PROVE hi - lo + 1 <= c
  <2>1. CASE lo > hi + 1
    BY <2>1
  <2>2. CASE lo <= hi + 1
    <3>1. Cardinality(lo .. hi) = hi - lo + 1
      <4>1. Cardinality(lo .. hi) = IF lo > hi THEN 0 ELSE hi - lo + 1
        BY FS_Interval
      <4> QED
        BY <2>2, <4>1
    <3>2. Cardinality(lo .. hi) <= Cardinality(S)
      BY <1>1, <1>3, FS_Subset
    <3> QED
      BY <1>2, <3>1, <3>2
  <2> QED
    BY <2>1, <2>2
<1> DEFINE Up == {k \in Nat : a + k \notin S}
           Down == {k \in Nat : a - k \notin S}
<1>4. Up # {}
  <2> SUFFICES ASSUME Up = {} PROVE FALSE
    OBVIOUS
  <2>1. \A k \in Nat : a + k \in S
    OBVIOUS
  <2>2. ASSUME NEW x \in a .. a + c PROVE x \in S
    <3>1. x - a \in Nat /\ a + (x - a) = x
      BY <1>1, <1>2
    <3> QED
      BY <2>1, <3>1
  <2>3. (a + c) - a + 1 <= c
    <3>1. a .. a + c \subseteq S /\ a + c \in Int
      BY <1>1, <1>2, <2>2
    <3> QED
      BY <1>1, <1>3, <3>1
  <2> QED
    BY <1>1, <1>2, <2>3
<1>5. Down # {}
  <2> SUFFICES ASSUME Down = {} PROVE FALSE
    OBVIOUS
  <2>1. \A k \in Nat : a - k \in S
    OBVIOUS
  <2>2. ASSUME NEW x \in (a - c) .. a PROVE x \in S
    <3>1. a - x \in Nat /\ a - (a - x) = x
      BY <1>1, <1>2
    <3> QED
      BY <2>1, <3>1
  <2>3. a - (a - c) + 1 <= c
    <3>1. (a - c) .. a \subseteq S /\ a - c \in Int
      BY <1>1, <1>2, <2>2
    <3> QED
      BY <1>1, <1>3, <3>1
  <2> QED
    BY <1>1, <1>2, <2>3
<1>6. PICK m \in Up : \A k \in Up : m <= k
  <2>1. Up \subseteq Nat
    OBVIOUS
  <2> HIDE DEF Up
  <2> QED
    BY <1>4, <2>1, LeastNatural
<1>7. PICK d \in Down : \A k \in Down : d <= k
  <2>1. Down \subseteq Nat
    OBVIOUS
  <2> HIDE DEF Down
  <2> QED
    BY <1>5, <2>1, LeastNatural
<1>8. /\ m \in Nat /\ a + m \notin S /\ \A k \in Nat : k < m => a + k \in S
      /\ d \in Nat /\ a - d \notin S /\ \A k \in Nat : k < d => a - k \in S
  BY <1>6, <1>7
<1> DEFINE lo == a - d + 1
           hi == a + m - 1
<1>9. m # 0 /\ d # 0
  BY <1>1, <1>8
<1>10. ASSUME NEW x \in lo .. hi PROVE x \in S
  <2>1. x \in Int
    BY <1>1, <1>8
  <2>2. CASE x >= a
    <3>1. x - a \in Nat /\ x - a < m /\ a + (x - a) = x
      BY <1>1, <1>8, <2>1, <2>2
    <3> QED
      BY <1>8, <3>1
  <2>3. CASE x < a
    <3>1. a - x \in Nat /\ a - x < d /\ a - (a - x) = x
      BY <1>1, <1>8, <2>1, <2>3
    <3> QED
      BY <1>8, <3>1
  <2> QED
    BY <1>1, <2>1, <2>2, <2>3
<1>11. lo \in Int /\ hi \in Int /\ lo <= a /\ a <= hi /\ lo - 1 = a - d /\ hi + 1 = a + m
  BY <1>1, <1>8, <1>9
<1> HIDE DEF lo, hi
<1>12. lo \in S /\ hi \in S
  <2>1. lo \in lo .. hi /\ hi \in lo .. hi
    BY <1>1, <1>11
  <2> QED
    BY <1>10, <2>1
<1> QED
  BY <1>8, <1>10, <1>11, <1>12

(* The characters of a range leave less than one character over. *)
LEMMA CellsFit ==
  ASSUME NEW range, range[1] \in Int, range[2] \in Int, range[1] <= range[2],
         NEW width \in {1, 2}, NEW phase \in 0 .. width - 1
  PROVE  /\ CellCount(range, phase, width) \in Nat
         /\ phase + width * CellCount(range, phase, width) <= range[2] - range[1] + 1
         /\ range[2] - range[1] + 1 < phase + width * CellCount(range, phase, width) + width
<1>0. PICK lo \in Int, hi \in Int : lo = range[1] /\ hi = range[2] /\ lo <= hi
  OBVIOUS
<1>1. PICK l \in Nat : l = hi - lo + 1 - phase
  BY <1>0
<1>2. CellCount(range, phase, width) = l \div width
  BY <1>0, <1>1 DEF CellCount
<1>3. CASE width = 1
  BY <1>0, <1>1, <1>2, <1>3
<1>4. CASE width = 2
  BY <1>0, <1>1, <1>2, <1>4
<1> QED
  BY <1>3, <1>4

LEMMA RangesAre ==
  ASSUME machine \in Machines, NEW r \in ContiguousRanges
  PROVE  /\ r[1] \in Int /\ r[2] \in Int /\ r = <<r[1], r[2]>> /\ r[1] <= r[2]
         /\ r[1] .. r[2] \subseteq DOMAIN machine.memory
         /\ r[1] - 1 \notin DOMAIN machine.memory /\ r[2] + 1 \notin DOMAIN machine.memory
<1>1. DOMAIN machine.memory \subseteq Int
  BY MachineIs
<1> QED
  BY <1>1 DEF ContiguousRanges

(* A text that no character before or after makes longer. *)
IsLongest(a, n, width) ==
  Text(a, n, width) /\ ~Text(a - width, n + 1, width) /\ ~Text(a, n + 1, width)

(* Printable characters that cannot be made longer in their range cannot *)
(* in memory.                                                            *)
LEMMA MaximalIsText ==
  ASSUME machine \in Machines, NEW range \in ContiguousRanges,
         NEW width \in {1, 2}, NEW phase \in 0 .. width - 1,
         NEW b \in Nat \ {0}, NEW n \in Nat \ {0}, b + n <= CellCount(range, phase, width) + 1,
         NEW a \in Int, a = range[1] + phase + width * (b - 1)
  PROVE  MaximalRun(GoodCells(range, phase, width), b, n) <=> IsLongest(a, n, width)
<1> DEFINE char(x) == Character(x, width) \in Printable
           cell(i) == range[1] + phase + width * (i - 1)
           good == GoodCells(range, phase, width)
           S == DOMAIN machine.memory
<1>0. PICK lo \in Int, hi \in Int :
        /\ lo = range[1] /\ hi = range[2] /\ lo <= hi
        /\ lo .. hi \subseteq S /\ lo - 1 \notin S /\ hi + 1 \notin S
  BY RangesAre
<1>01. a = lo + phase + width * (b - 1)
  BY <1>0
<1>1. PICK cells \in Nat : /\ cells = CellCount(range, phase, width)
                           /\ phase + width * cells <= hi - lo + 1
                           /\ hi - lo + 1 < phase + width * cells + width
  BY <1>0, CellsFit
<1>2. \A i \in Int : i \in good <=> i \in 1 .. cells /\ char(cell(i))
  BY <1>1 DEF GoodCells
<1>3. \A i \in Int : cell(i) \in Int /\ cell(i) = a + width * (i - b)
  <2>1. CASE width = 1
    BY <1>0, <1>01, <2>1
  <2>2. CASE width = 2
    BY <1>0, <1>01, <2>2
  <2> QED
    BY <2>1, <2>2
<1>4. \A i \in 1 .. cells : lo <= cell(i) /\ cell(i) + width - 1 <= hi
  <2> TAKE i \in 1 .. cells
  <2>1. CASE width = 1
    BY <1>0, <1>1, <2>1
  <2>2. CASE width = 2
    BY <1>0, <1>1, <2>2
  <2> QED
    BY <2>1, <2>2
<1>5. \A x, k : Text(x, k, width) <=> /\ x .. x + width * k - 1 \subseteq S
                                      /\ \A j \in 0 .. k - 1 : char(x + width * j)
  BY DEF Text
<1> HIDE DEF char, cell, good, S
<1>6. b \in 1 .. cells /\ b + n - 1 \in 1 .. cells
  BY <1>1
<1>7. cell(b) = a /\ cell(b + n - 1) + width - 1 = a + width * n - 1
  <2>1. cell(b) = a + width * (b - b) /\ cell(b + n - 1) = a + width * ((b + n - 1) - b)
    <3>1. b \in Int /\ b + n - 1 \in Int
      OBVIOUS
    <3>2. PICK last \in Int : last = b + n - 1
      BY <3>1
    <3>3. cell(b) = a + width * (b - b)
      BY <1>3, <3>1
    <3>4. cell(last) = a + width * (last - b)
      BY <1>3
    <3> QED
      BY <3>2, <3>3, <3>4
  <2>2. CASE width = 1
    BY <2>1, <2>2
  <2>3. CASE width = 2
    BY <2>1, <2>3
  <2> QED
    BY <2>2, <2>3
<1>8. lo <= a /\ a + width * n - 1 <= hi
  BY <1>4, <1>6, <1>7
<1>9. a .. a + width * n - 1 \subseteq S
  BY <1>0, <1>8
<1>10. b .. b + n - 1 \subseteq good <=> Text(a, n, width)
  <2>1. ASSUME b .. b + n - 1 \subseteq good, NEW j \in 0 .. n - 1
        PROVE  char(a + width * j)
    <3>1. b + j \in b .. b + n - 1 /\ (b + j) - b = j /\ b + j \in Int
      OBVIOUS
    <3>2. cell(b + j) = a + width * j
      BY <1>3, <3>1
    <3> QED
      BY <1>2, <2>1, <3>1, <3>2
  <2>2. ASSUME \A j \in 0 .. n - 1 : char(a + width * j), NEW i \in b .. b + n - 1
        PROVE  i \in good
    <3>1. i - b \in 0 .. n - 1 /\ i \in 1 .. cells /\ i \in Int
      BY <1>6
    <3>2. cell(i) = a + width * (i - b)
      BY <1>3, <3>1
    <3> QED
      BY <1>2, <2>2, <3>1, <3>2
  <2>3. Text(a, n, width) <=> \A j \in 0 .. n - 1 : char(a + width * j)
    BY <1>5, <1>9
  <2> QED
    BY <2>1, <2>2, <2>3
<1>11. ASSUME Text(a, n, width)
       PROVE  b - 1 \in good <=> Text(a - width, n + 1, width)
  <2>1. \A j \in 0 .. n - 1 : char(a + width * j)
    BY <1>5, <1>11
  <2>2. PICK e \in Int : e = a + width * n - 1
    BY <1>7, <1>8
  <2>3. (a - width) + width * (n + 1) - 1 = e
    <3>1. CASE width = 1
      BY <2>2, <3>1
    <3>2. CASE width = 2
      BY <2>2, <3>2
    <3> QED
      BY <3>1, <3>2
  <2>4. Text(a - width, n + 1, width) <=>
          /\ (a - width) .. e \subseteq S
          /\ \A j \in 0 .. (n + 1) - 1 : char((a - width) + width * j)
    BY <1>5, <2>3
  <2>5. CASE b = 1
    <3>1. a = lo + phase
      <4>1. b - 1 = 0 /\ width * 0 = 0
        BY <2>5
      <4> QED
        BY <1>01, <4>1
    <3>2. lo - 1 \in (a - width) .. e
      BY <1>8, <2>2, <3>1
    <3>3. b - 1 \notin good
      BY <1>2, <2>5
    <3> QED
      BY <1>0, <2>4, <3>2, <3>3
  <2>6. CASE b # 1
    <3>1. b - 1 \in 1 .. cells /\ b - 1 \in Int /\ (b - 1) - b = -1
      BY <1>6, <2>6
    <3>2. cell(b - 1) = a - width
      <4>1. cell(b - 1) = a + width * ((b - 1) - b)
        BY <1>3, <3>1
      <4>2. width * (-1) = -width
        OBVIOUS
      <4> QED
        BY <3>1, <4>1, <4>2
    <3>3. b - 1 \in good <=> char(a - width)
      BY <1>2, <3>1, <3>2
    <3>4. (a - width) .. e \subseteq S
      <4>1. lo <= a - width
        BY <1>4, <3>1, <3>2
      <4> QED
        BY <1>0, <1>8, <2>2, <4>1
    <3>5. (a - width) + width * 0 = a - width /\ 0 \in 0 .. (n + 1) - 1
      OBVIOUS
    <3>6. ASSUME NEW j \in 0 .. (n + 1) - 1, j # 0
          PROVE  char((a - width) + width * j)
      <4>1. j - 1 \in 0 .. n - 1
        BY <3>6
      <4>2. (a - width) + width * j = a + width * (j - 1)
        <5>1. CASE width = 1
          BY <5>1
        <5>2. CASE width = 2
          BY <5>2
        <5> QED
          BY <5>1, <5>2
      <4> QED
        BY <2>1, <4>1, <4>2
    <3> QED
      BY <2>4, <3>3, <3>4, <3>5, <3>6
  <2> QED
    BY <2>5, <2>6
<1>12. ASSUME Text(a, n, width)
       PROVE  b + n \in good <=> Text(a, n + 1, width)
  <2>1. \A j \in 0 .. n - 1 : char(a + width * j)
    BY <1>5, <1>12
  <2>2. PICK e \in Int : e = a + width * n - 1
    BY <1>7, <1>8
  <2>3. a + width * (n + 1) - 1 = e + width /\ a + width * n = e + 1
    <3>1. CASE width = 1
      BY <2>2, <3>1
    <3>2. CASE width = 2
      BY <2>2, <3>2
    <3> QED
      BY <3>1, <3>2
  <2>4. Text(a, n + 1, width) <=>
          /\ a .. e + width \subseteq S
          /\ \A j \in 0 .. (n + 1) - 1 : char(a + width * j)
    BY <1>5, <2>3
  <2>5. cell(b + n) = e + 1
    <3>1. b + n \in Int /\ (b + n) - b = n
      OBVIOUS
    <3>2. cell(b + n) = a + width * ((b + n) - b)
      BY <1>3, <3>1
    <3> QED
      BY <2>3, <3>1, <3>2
  <2>6. CASE b + n <= cells
    <3>1. b + n \in 1 .. cells
      BY <2>6
    <3>2. b + n \in good <=> char(e + 1)
      BY <1>2, <2>5, <3>1
    <3>3. e + width <= hi
      BY <1>4, <2>5, <3>1
    <3>4. a .. e + width \subseteq S
      BY <1>0, <1>8, <3>3
    <3>5. n \in 0 .. (n + 1) - 1 /\ \A j \in 0 .. (n + 1) - 1 : j = n \/ j \in 0 .. n - 1
      OBVIOUS
    <3> QED
      BY <2>1, <2>3, <2>4, <3>2, <3>4, <3>5
  <2>7. CASE ~ (b + n <= cells)
    <3>1. b + n = cells + 1
      BY <1>1, <2>7
    <3>2. b + n \notin good
      BY <1>2, <3>1
    <3>3. e + 1 = lo + phase + width * cells
      <4>1. range[1] = lo /\ (cells + 1) - 1 = cells
        BY <1>0
      <4>2. cell(cells + 1) = range[1] + phase + width * ((cells + 1) - 1)
        BY DEF cell
      <4> QED
        BY <2>5, <3>1, <4>1, <4>2
    <3>4. PICK p \in Nat : p = width * cells
      OBVIOUS
    <3>5. hi + 1 \in a .. e + width
      BY <1>1, <1>8, <2>2, <3>3, <3>4
    <3> QED
      BY <1>0, <2>4, <3>2, <3>5
  <2> QED
    BY <2>6, <2>7
<1> QED
  BY <1>10, <1>11, <1>12 DEF MaximalRun, IsLongest, good

(* A run of a range is a text that nothing makes longer. *)
LEMMA RunIsText ==
  ASSUME machine \in Machines, NEW r \in ContiguousRanges,
         NEW width \in {1, 2}, NEW phase \in 0 .. width - 1, NEW s
  PROVE  s \in Scan(r, phase, width) <=>
           \E b \in Nat \ {0}, n \in Nat \ {0} :
             /\ s = <<r[1] + phase + width * (b - 1), n, width>>
             /\ b + n <= CellCount(r, phase, width) + 1
             /\ IsMaximalText(r[1] + phase + width * (b - 1), n, width)
<1>1. /\ r[1] \in Int /\ r[2] \in Int /\ r = <<r[1], r[2]>> /\ r[1] <= r[2]
      /\ r[1] .. r[2] \subseteq DOMAIN machine.memory
      /\ r[1] - 1 \notin DOMAIN machine.memory /\ r[2] + 1 \notin DOMAIN machine.memory
  BY RangesAre
<1>5. CellCount(r, phase, width) \in Nat
  BY <1>1, CellsFit
<1>6. phase \in Nat
  OBVIOUS
<1>7. RunsBefore(Scan(r, phase, width), GoodCells(r, phase, width), MinLength,
                 r[1] + phase, width, CellCount(r, phase, width) + 1)
  BY <1>1, <1>5, <1>6, ScanIs
<1>8. s \in Scan(r, phase, width) <=> \E b \in Nat \ {0}, n \in Nat :
        /\ s = <<r[1] + phase + width * (b - 1), n, width>> /\ n >= MinLength
        /\ b + n <= CellCount(r, phase, width) + 1
        /\ MaximalRun(GoodCells(r, phase, width), b, n)
  BY <1>7 DEF RunsBefore, ToldAs
<1>9. ASSUME NEW b \in Nat \ {0}, NEW n \in Nat \ {0}, b + n <= CellCount(r, phase, width) + 1
      PROVE  MaximalRun(GoodCells(r, phase, width), b, n) /\ n >= MinLength
               <=> IsMaximalText(r[1] + phase + width * (b - 1), n, width)
  <2>1. PICK a \in Int : a = r[1] + phase + width * (b - 1)
    BY <1>1
  <2>2. MaximalRun(GoodCells(r, phase, width), b, n) <=> IsLongest(a, n, width)
    BY <1>9, <2>1, MaximalIsText
  <2> QED
    BY <2>1, <2>2 DEF IsMaximalText, IsLongest
<1>10. \A n \in Nat : n >= MinLength => n \in Nat \ {0}
  BY MinLengthIs
<1>11. \A b \in Nat \ {0}, n \in Nat \ {0} :
         b + n <= CellCount(r, phase, width) + 1 =>
           (MaximalRun(GoodCells(r, phase, width), b, n) /\ n >= MinLength
               <=> IsMaximalText(r[1] + phase + width * (b - 1), n, width))
  BY <1>9
<1> QED
  BY <1>8, <1>10, <1>11

(* Where the text at a lies in its range. *)
LiesInCells(range, width, a, n) ==
  \E phase \in 0 .. width - 1, b \in Nat \ {0} :
    /\ a = range[1] + phase + width * (b - 1)
    /\ b + n <= CellCount(range, phase, width) + 1

LEMMA TextIsInCells ==
  ASSUME NEW range, range[1] \in Int, range[2] \in Int, range[1] <= range[2],
         NEW width \in {1, 2}, NEW n \in Nat \ {0}, NEW a \in Int,
         range[1] <= a, a + width * n - 1 <= range[2]
  PROVE  LiesInCells(range, width, a, n)
<1>0. PICK lo \in Int, hi \in Int :
        lo = range[1] /\ hi = range[2] /\ lo <= hi /\ a + width * n - 1 <= hi
  OBVIOUS
<1>1. PICK d \in Nat : d = a - lo
  BY <1>0
<1>2. PICK phase \in 0 .. width - 1, q \in Nat : d = phase + width * q
  <2>1. CASE width = 1
    <3>1. 0 \in 0 .. width - 1 /\ d = 0 + width * d
      BY <2>1
    <3> QED
      BY <3>1
  <2>2. CASE width = 2
    <3>1. d % 2 \in 0 .. width - 1 /\ d \div 2 \in Nat /\ d = (d % 2) + width * (d \div 2)
      BY <2>2
    <3> QED
      BY <3>1
  <2> QED
    BY <2>1, <2>2
<1>3. q + 1 \in Nat \ {0} /\ (q + 1) - 1 = q
  OBVIOUS
<1>4. a = lo + phase + width * ((q + 1) - 1)
  <2>1. PICK p \in Nat : p = width * q
    OBVIOUS
  <2> QED
    BY <1>1, <1>2, <1>3, <2>1
<1>5. PICK cells \in Nat : /\ cells = CellCount(range, phase, width)
                           /\ hi - lo + 1 < phase + width * cells + width
  BY <1>0, CellsFit
<1>6. (q + 1) + n <= cells + 1
  <2>1. CASE width = 1
    BY <1>0, <1>1, <1>2, <1>5, <2>1
  <2>2. CASE width = 2
    BY <1>0, <1>1, <1>2, <1>5, <2>2
  <2> QED
    BY <2>1, <2>2
<1> QED
  BY <1>0, <1>3, <1>4, <1>5, <1>6 DEF LiesInCells

(* Every text in memory lies in one range, at one phase: so it is found. *)
LEMMA TextIsFound ==
  ASSUME machine \in Machines, NEW a \in Int, NEW n \in Nat, NEW width \in {1, 2},
         IsMaximalText(a, n, width)
  PROVE  <<a, n, width>> \in DecodedStrings
<1> DEFINE S == DOMAIN machine.memory
<1>1. S \in FiniteInts /\ S \subseteq Int
  BY MachineIs
<1>2. n \in Nat \ {0} /\ a .. a + width * n - 1 \subseteq S
  BY MinLengthIs DEF IsMaximalText, Text
<1>3. PICK e \in Int : e = a + width * n - 1
  OBVIOUS
<1>4. a <= e
  <2>1. CASE width = 1
    BY <1>2, <1>3, <2>1
  <2>2. CASE width = 2
    BY <1>2, <1>3, <2>2
  <2> QED
    BY <2>1, <2>2
<1>5. a \in S /\ a .. e \subseteq S
  <2>1. a \in a .. e
    BY <1>4
  <2> QED
    BY <1>2, <1>3, <2>1
<1> HIDE DEF S
<1>6. PICK lo \in S, hi \in S : /\ lo <= a /\ a <= hi /\ lo .. hi \subseteq S
                                /\ lo - 1 \notin S /\ hi + 1 \notin S
  BY <1>1, <1>5, RangeAround
<1>7. lo \in Int /\ hi \in Int
  BY <1>1
<1>8. e <= hi
  <2> SUFFICES ASSUME e > hi PROVE FALSE
    BY <1>3, <1>7
  <2>1. hi + 1 \in a .. e
    BY <1>3, <1>6, <1>7
  <2> QED
    BY <1>5, <1>6, <2>1
<1>9. PICK r : r = <<lo, hi>>
  OBVIOUS
<1>10. lo <= hi /\ r[1] = lo /\ r[2] = hi
  BY <1>6, <1>7, <1>9
<1>11. r \in ContiguousRanges
  <2>1. r \in S \X S
    BY <1>9
  <2> QED
    BY <1>6, <1>10, <2>1 DEF ContiguousRanges, S
<1>12. PICK phase \in 0 .. width - 1, b \in Nat \ {0} :
         /\ a = r[1] + phase + width * (b - 1)
         /\ b + n <= CellCount(r, phase, width) + 1
  <2>1. a + width * n - 1 <= r[2]
    BY <1>3, <1>8, <1>10
  <2>2. /\ r[1] <= a /\ r[1] <= r[2] /\ n \in Nat \ {0}
        /\ r[1] \in Int /\ r[2] \in Int
    BY <1>2, <1>6, <1>7, <1>10
  <2>3. LiesInCells(r, width, a, n)
    BY <2>1, <2>2, TextIsInCells
  <2> QED
    BY <2>3 DEF LiesInCells
<1>14. <<a, n, width>> \in Scan(r, phase, width)
  BY <1>2, <1>11, <1>12, RunIsText
<1>15. \/ width = 1 /\ phase = 0
       \/ width = 2 /\ phase = 0
       \/ width = 2 /\ phase = 1
  OBVIOUS
<1> QED
  BY <1>11, <1>14, <1>15 DEF DecodedStrings

(* What is found is a text in memory. *)
LEMMA StringIsText ==
  ASSUME machine \in Machines, NEW s \in DecodedStrings
  PROVE  \E a \in DOMAIN machine.memory, n \in 1 .. Cardinality(DOMAIN machine.memory),
            width \in {1, 2} : s = <<a, n, width>> /\ IsMaximalText(a, n, width)
<1> DEFINE S == DOMAIN machine.memory
<1>1. PICK r \in ContiguousRanges, width \in {1, 2}, phase \in Nat :
         phase \in 0 .. width - 1 /\ s \in Scan(r, phase, width)
  <2>1. PICK r \in ContiguousRanges : s \in Scan(r, 0, 1) \cup Scan(r, 0, 2) \cup Scan(r, 1, 2)
    BY DEF DecodedStrings
  <2>2. 0 \in 0 .. 1 - 1 /\ 0 \in 0 .. 2 - 1 /\ 1 \in 0 .. 2 - 1 /\ 1 \in {1, 2} /\ 2 \in {1, 2}
    OBVIOUS
  <2> QED
    BY <2>1, <2>2
<1>2. PICK b \in Nat \ {0}, n \in Nat \ {0} :
        /\ s = <<r[1] + phase + width * (b - 1), n, width>>
        /\ IsMaximalText(r[1] + phase + width * (b - 1), n, width)
  BY <1>1, RunIsText
<1>3. r[1] \in Int
  BY RangesAre
<1>4. PICK a \in Int : a = r[1] + phase + width * (b - 1)
  BY <1>3
<1>5. s = <<a, n, width>> /\ IsMaximalText(a, n, width)
  BY <1>2, <1>4
<1>6. a .. a + width * n - 1 \subseteq S
  BY <1>5 DEF IsMaximalText, Text
<1>7. a .. a + n - 1 \subseteq a .. a + width * n - 1
  <2>1. CASE width = 1
    BY <2>1
  <2>2. CASE width = 2
    BY <2>2
  <2> QED
    BY <2>1, <2>2
<1>8. a \in a .. a + n - 1 /\ Cardinality(a .. a + n - 1) = n
  <2>1. Cardinality(a .. a + n - 1) = IF a > a + n - 1 THEN 0 ELSE (a + n - 1) - a + 1
    BY FS_Interval
  <2> QED
    BY <2>1
<1>9. S \in FiniteInts
  BY MachineIs
<1> HIDE DEF S
<1>10. n <= Cardinality(S) /\ Cardinality(S) \in Nat
  <2>1. IsFiniteSet(S) /\ a .. a + n - 1 \subseteq S
    BY <1>6, <1>7, <1>9 DEF FiniteInts
  <2> QED
    BY <1>8, <2>1, FS_Subset, FS_CardinalityType
<1>11. a \in S /\ n \in 1 .. Cardinality(S)
  BY <1>6, <1>7, <1>8, <1>10
<1> QED
  BY <1>5, <1>11 DEF S

(* An answer leaves no string out before there are more than it shows. *)
LEMMA AllAreReported ==
  ASSUME IsFiniteSet(DecodedStrings), Cardinality(DecodedStrings) <= StringCap
  PROVE  ReportedStrings = DecodedStrings
<1> DEFINE D == DecodedStrings
           before(s) == {t \in D \ {s} : SortsBefore(t, s)}
<1>1. ReportedStrings = {s \in D : Cardinality(before(s)) < StringCap}
  BY DEF ReportedStrings
<1>2. \A s \in D : before(s) \subseteq D \ {s}
  OBVIOUS
<1> HIDE DEF D, before
<1>3. IsFiniteSet(D) /\ Cardinality(D) \in Nat /\ Cardinality(D) <= StringCap /\ StringCap \in Nat
  BY FS_CardinalityType, EmulatorAssumption DEF D
<1>4. ASSUME NEW s \in D
      PROVE  Cardinality(before(s)) < StringCap
  <2>1. IsFiniteSet(D \ {s}) /\ Cardinality(D \ {s}) = Cardinality(D) - 1
    BY <1>3, FS_RemoveElement
  <2>2. /\ Cardinality(before(s)) \in Nat
        /\ Cardinality(before(s)) <= Cardinality(D \ {s})
    <3>1. IsFiniteSet(before(s)) /\ Cardinality(before(s)) <= Cardinality(D \ {s})
      BY <1>2, <2>1, FS_Subset
    <3> QED
      BY <3>1, FS_CardinalityType
  <2> QED
    BY <1>3, <2>1, <2>2
<1> QED
  BY <1>1, <1>4 DEF D

LEMMA StringsAreRight ==
  ASSUME machine \in Machines
  PROVE  StringsAreMaximal
<1> DEFINE bytes == DOMAIN machine.memory
           Texts == {s \in bytes \X (1 .. Cardinality(bytes)) \X {1, 2} :
                       IsMaximalText(s[1], s[2], s[3])}
<1>1. bytes \subseteq Int
  BY MachineIs
<1>2. ASSUME NEW s \in DecodedStrings PROVE s \in Texts
  <2>1. PICK a \in bytes, n \in 1 .. Cardinality(bytes), width \in {1, 2} :
          s = <<a, n, width>> /\ IsMaximalText(a, n, width)
    BY StringIsText
  <2>2. s[1] = a /\ s[2] = n /\ s[3] = width
    BY <2>1
  <2> QED
    BY <2>1, <2>2
<1>3. ASSUME NEW s \in Texts PROVE s \in DecodedStrings
  <2>1. PICK a \in bytes, n \in 1 .. Cardinality(bytes), width \in {1, 2} :
          s = <<a, n, width>>
    OBVIOUS
  <2>2. s[1] = a /\ s[2] = n /\ s[3] = width
    BY <2>1
  <2>3. IsMaximalText(a, n, width)
    BY <2>2
  <2>4. a \in Int /\ n \in Nat
    BY <1>1
  <2> QED
    BY <2>1, <2>3, <2>4, TextIsFound
<1>4. DecodedStrings = Texts
  BY <1>2, <1>3
<1>5. IsFiniteSet(DecodedStrings)
  <2> DEFINE lengths == 1 .. Cardinality(bytes)
             all == bytes \X lengths \X {1, 2}
  <2>1. IsFiniteSet(bytes)
    <3>1. bytes \in FiniteInts
      BY MachineIs
    <3> QED
      BY <3>1 DEF FiniteInts
  <2>2. IsFiniteSet(lengths)
    <3>1. Cardinality(bytes) \in Int
      BY <2>1, FS_CardinalityType
    <3> QED
      BY <3>1, FS_Interval
  <2>3. IsFiniteSet({1, 2})
    <3>1. IsFiniteSet({1}) /\ IsFiniteSet({2})
      BY FS_Singleton
    <3> QED
      BY <3>1, FS_AddElement
  <2> DEFINE nested == (bytes \X lengths) \X {1, 2}
             f == [p \in nested |-> <<p[1][1], p[1][2], p[2]>>]
             flat == {f[p] : p \in nested}
  <2>4. IsFiniteSet(bytes \X lengths)
    BY <2>1, <2>2, FS_Product
  <2>5. IsFiniteSet(nested)
    BY <2>3, <2>4, FS_Product
  <2>6. \A a \in bytes, n \in lengths, width \in {1, 2} : <<a, n, width>> \in flat
    <3> TAKE a \in bytes, n \in lengths, width \in {1, 2}
    <3> DEFINE p == << <<a, n>>, width>>
    <3>1. p \in nested /\ p[1] = <<a, n>> /\ p[2] = width
      OBVIOUS
    <3>2. f[p] = <<a, n, width>>
      BY <3>1
    <3> QED
      BY <3>1, <3>2
  <2>7. IsFiniteSet(flat)
    <3>1. f \in [nested -> flat] /\ \A x \in flat : \E p \in nested : f[p] = x
      <4>1. \A p \in nested : f[p] \in flat
        OBVIOUS
      <4> HIDE DEF nested
      <4> QED
        BY <4>1
    <3> HIDE DEF f, flat, nested
    <3> QED
      BY <2>5, <3>1, FS_Surjection DEF Surjection
  <2>8. DecodedStrings \subseteq flat
    <3> HIDE DEF flat
    <3>1. ASSUME NEW s \in DecodedStrings PROVE s \in flat
      <4>1. PICK a \in bytes, n \in lengths, width \in {1, 2} : s = <<a, n, width>>
        BY StringIsText
      <4> QED
        BY <2>6, <4>1
    <3> QED
      BY <3>1
  <2> QED
    BY <2>7, <2>8, FS_Subset
<1>6. Cardinality(DecodedStrings) <= StringCap => ReportedStrings = DecodedStrings
  BY <1>5, AllAreReported
<1> QED
  BY <1>4, <1>6 DEF StringsAreMaximal

=============================================================================
