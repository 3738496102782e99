------------------------------ MODULE GlobMatch ------------------------------
(***************************************************************************)
(* glob_or_substring_match and glob_match (crates/rbm-r2/src/search.rs):   *)
(* what the filters of the tools compare names by.  A name that holds the  *)
(* pattern matches; else a loop matches the pattern's * and ?, with one    *)
(* remembered star to go back to.  The copy of the loop for bytes differs  *)
(* only in how it indexes.                                                 *)
(***************************************************************************)
EXTENDS Integers, SequencesExt

CONSTANTS
  Patterns,   \* the patterns, sequences of characters
  Names,      \* the names they are matched against
  Star, AnyOne,  \* the characters * and ?
  NoStar

ASSUME GlobAssumption ==
  /\ NoStar \notin Nat /\ Star # AnyOne
  /\ \A s \in Patterns \cup Names : s \in Seq(ToSet(s))

VARIABLES
  gmPc,      \* "idle", "match" or "done"
  pattern, text,
  pi, ti,    \* how much of each is behind
  star,      \* where the last * was met, or NoStar
  starT,     \* how much of the text that * was last tried up to
  verdict

gmVars == <<gmPc, pattern, text, pi, ti, star, starT, verdict>>

-----------------------------------------------------------------------------

Occurs(p, t) ==
  \E k \in 0 .. Len(t) - Len(p) : SubSeq(t, k + 1, k + Len(p)) = p

GlobStart ==
  /\ gmPc = "idle"
  /\ pattern' \in Patterns /\ text' \in Names
  /\ verdict' = Occurs(pattern', text')
  /\ gmPc' = IF verdict' THEN "done" ELSE "match"
  /\ UNCHANGED <<pi, ti, star, starT>>

AtChar == pi < Len(pattern) /\ (pattern[pi + 1] = AnyOne \/ pattern[pi + 1] = text[ti + 1])

AtStar == pi < Len(pattern) /\ pattern[pi + 1] = Star

(* A * of the pattern that meets a * of the name is taken for a character. *)
MatchChar ==
  /\ gmPc = "match" /\ ti < Len(text)
  /\ AtChar
  /\ pi' = pi + 1 /\ ti' = ti + 1
  /\ UNCHANGED <<gmPc, pattern, text, star, starT, verdict>>

(* Mutant of MeetStar: the first star is the one gone back to. *)
KeepFirstStar ==
  /\ gmPc = "match" /\ ti < Len(text)
  /\ ~AtChar /\ AtStar
  /\ star' = IF star = NoStar THEN pi ELSE star
  /\ starT' = ti
  /\ pi' = pi + 1
  /\ UNCHANGED <<gmPc, pattern, text, ti, verdict>>

MeetStar ==
  /\ gmPc = "match" /\ ti < Len(text)
  /\ ~AtChar /\ AtStar
  /\ star' = pi /\ starT' = ti
  /\ pi' = pi + 1
  /\ UNCHANGED <<gmPc, pattern, text, ti, verdict>>

(* Mutant of BackToStar: the star takes nothing more. *)
BackToSamePlace ==
  /\ gmPc = "match" /\ ti < Len(text)
  /\ ~AtChar /\ ~AtStar /\ star # NoStar
  /\ pi' = star + 1 /\ ti' = starT
  /\ UNCHANGED <<gmPc, pattern, text, star, starT, verdict>>

(* The star takes one character more. *)
BackToStar ==
  /\ gmPc = "match" /\ ti < Len(text)
  /\ ~AtChar /\ ~AtStar /\ star # NoStar
  /\ pi' = star + 1
  /\ starT' = starT + 1 /\ ti' = starT + 1
  /\ UNCHANGED <<gmPc, pattern, text, star, verdict>>

Mismatch ==
  /\ gmPc = "match" /\ ti < Len(text)
  /\ ~AtChar /\ ~AtStar /\ star = NoStar
  /\ gmPc' = "done" /\ verdict' = FALSE
  /\ UNCHANGED <<pattern, text, pi, ti, star, starT>>

(* Stars left over match nothing. *)
TextEnds ==
  /\ gmPc = "match" /\ ti = Len(text)
  /\ gmPc' = "done"
  /\ verdict' = \A i \in pi + 1 .. Len(pattern) : pattern[i] = Star
  /\ UNCHANGED <<pattern, text, pi, ti, star, starT>>

GlobInit ==
  /\ gmPc = "idle"
  /\ pattern = <<>> /\ text = <<>>
  /\ pi = 0 /\ ti = 0 /\ star = NoStar /\ starT = 0
  /\ verdict = FALSE

GlobStep == MatchChar \/ MeetStar \/ BackToStar \/ Mismatch \/ TextEnds

GlobNext == GlobStart \/ GlobStep

GlobSpec == GlobInit /\ [][GlobNext]_gmVars /\ WF_gmVars(GlobStep)

-----------------------------------------------------------------------------
(* What a glob means.  Matches(p, t)[i] is the set of the places in the    *)
(* text from which on the rest of it is matched by the pattern behind i.   *)

MatchesBehind(p, t, i, next) ==
  IF p[i + 1] = Star
  THEN {j \in 0 .. Len(t) : \E k \in next : j <= k}
  ELSE {j \in 0 .. Len(t) - 1 : /\ p[i + 1] \in {AnyOne, t[j + 1]}
                                /\ j + 1 \in next}

Matches(p, t) ==
  LET m[i \in 0 .. Len(p)] ==
        IF i = Len(p) THEN {Len(t)} ELSE MatchesBehind(p, t, i, m[i + 1])
  IN  m

Means(p, t) == Occurs(p, t) \/ 0 \in Matches(p, t)[0]

NamesAreStarFree == \A i \in DOMAIN text : text[i] # Star

GlobTypeOK ==
  /\ gmPc \in {"idle", "match", "done"}
  /\ pi \in 0 .. Len(pattern) /\ ti \in 0 .. Len(text) /\ starT \in 0 .. ti
  /\ star # NoStar => star < pi /\ pattern[star + 1] = Star

(***************************************************************************)
(* One remembered star is enough: whatever the loop has given up, the      *)
(* pattern matches from where it is, or from the last star with some more  *)
(* of the text taken by it, whenever it matches at all.  For names without *)
(* a *, see GlobIsRight.                                                   *)
(***************************************************************************)
BacktrackIsEnough ==
  (gmPc = "match" /\ NamesAreStarFree) =>
    LET m == Matches(pattern, text)
    IN  0 \in m[0] <=> \/ ti \in m[pi]
                       \/ star # NoStar /\ \E k \in m[star + 1] : k > starT

(***************************************************************************)
(* The verdict is what the glob means, for names without a *.              *)
(***************************************************************************)
StarFreeNamesAreRight ==
  (gmPc = "done" /\ NamesAreStarFree) => verdict = Means(pattern, text)

(***************************************************************************)
(* The loop ends.                                                          *)
(***************************************************************************)
GlobEnds == (gmPc = "match") ~> (gmPc = "done")

(***************************************************************************)
(* server.rs:504 says of r2_find that "Functions accept glob (*, ?) or     *)
(* substring": the verdict is what the glob means for every name, those    *)
(* with a * in them (operator*, char *) included.  A * that meets a * is   *)
(* taken for a character and not remembered.                               *)
(***************************************************************************)
GlobIsRight == gmPc = "done" => verdict = Means(pattern, text)

=============================================================================
