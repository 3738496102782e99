--------------------------- MODULE FunctionAnalysis ---------------------------
(***************************************************************************)
(* analyze_function (crates/rbm-r2/src/analyze.rs) and func_profile        *)
(* (func_profile.rs): one answer put together from many calls to radare2,  *)
(* some of which must succeed and some of which may fail; between them any *)
(* other handler may use the session.                                      *)
(*                                                                         *)
(* What radare2 answers is chosen when it is asked.  A call may also fail, *)
(* or run into its timeout: then radare2 is busy with it, and the calls    *)
(* that follow time out as well until it is done.                          *)
(***************************************************************************)
EXTENDS Integers, SequencesExt, FiniteSetsExt

CONSTANTS
  Plans,       \* "profile", "analyze" and "analyze_with_assembly", or some
  Texts,       \* what a decompiler prints: "code", "Cannot", "message", "short"
  RefLists,    \* answers to afxj and axfj: sequences of [type, target]
  Neighbours,  \* lengths of lists of callers
  MaxNeighbours,  \* MAX_NEIGHBOURS
  NameAnswers,       \* answers to fd and psz: names, "none" when there is none
  Absent

ASSUME AnalysisAssumption ==
  /\ Neighbours \subseteq Nat /\ MaxNeighbours \in Nat
  /\ Absent \notin Texts \cup {"note", "code", "Cannot"}
  /\ Plans \subseteq {"profile", "analyze", "analyze_with_assembly"}
  /\ RefLists \subseteq Seq([type : STRING, target : Nat])

VARIABLES
  faPc,      \* the call that comes next, or "idle", "missing", "done", "failed"
  plan,      \* "analyze", "analyze_with_assembly", "profile"
  radare,    \* "ready" or "busy"
  asked,     \* calls that have been answered: [call, outcome]
  pdg,       \* what pdg printed
  todo,      \* targets whose name or string is still to be read
  answer     \* the parts of the answer so far

faVars == <<faPc, plan, radare, asked, pdg, todo, answer>>

-----------------------------------------------------------------------------
(* The calls of a plan, in their order.  "strings" and "callees" are read  *)
(* item by item ("psz", "fd") before the next call of the plan.            *)

Calls(p) ==
  CASE p = "profile" ->
         <<"info", "blocks", "callers", "callee_info", "callees", "strings", "constants">>
    [] p = "analyze" ->
         <<"info", "plugins", "pdg", "pdd", "meta", "strings", "constants",
           "callers", "callee_info", "callees", "blocks", "refs">>
    [] p = "analyze_with_assembly" ->
         <<"info", "plugins", "pdg", "pdd", "meta", "assembly", "strings",
           "constants", "callers", "callee_info", "callees", "blocks", "refs">>

(* .ok() on what the call returns *)
Optional == {"plugins", "pdg", "pdd", "meta", "assembly", "refs"}

MayFail(c) == c \in Optional

After(c) ==
  LET cs == Calls(plan)
      i  == SelectInSeq(cs, LAMBDA x : x = c)
  IN  IF i = Len(cs) THEN "done" ELSE cs[i + 1]

(* Mutant of AfterDecompile: a failing decompiler skips the next part too. *)
SkipMetaToo == After("meta")

(* The rest of decompile is not run after one of its calls has failed. *)
AfterDecompile == After("pdd")

(* is_meaningful_decompile_output: neither too short nor a message that no
   decompiler is installed.  Of texts that are neither, "Cannot" is one with
   that word in it, for which decompile looks in what pdg printed only. *)
Meaningful(text) == text \in {"code", "Cannot"}

Printed(text) == text # "short"

(* Calls of type CALL (callees) or of type DATA and STRING (strings), each *)
(* target once, in the order they are met; a target 0 is no target.        *)

DistinctTargets(refs, types) ==
  LET distinct[n \in 0 .. Len(refs)] ==
        IF n = 0 THEN <<>>
        ELSE LET r == refs[n]
             IN  IF /\ r.type \in types /\ r.target # 0
                    /\ ~Contains(distinct[n - 1], r.target)
                 THEN Append(distinct[n - 1], r.target)
                 ELSE distinct[n - 1]
  IN  distinct[Len(refs)]

(* trim_neighbours *)

TrimNeighbours(n) == [shown |-> Min({n, MaxNeighbours}), count |-> n]

(* What an answer says of the callees when all of them have been named: an  *)
(* analysis shows the first of them and their number, a profile tells the   *)
(* number alone.                                                            *)
TrimmedCallees ==
  LET kept == TrimNeighbours(Len(answer.callees))
  IN  [shown |-> SubSeq(answer.callees, 1, kept.shown), count |-> kept.count]

-----------------------------------------------------------------------------

AnalysisStart ==
  /\ faPc = "idle"
  /\ plan' \in Plans
  /\ faPc' = "info"
  /\ UNCHANGED <<radare, asked, pdg, todo, answer>>

Answered(c) ==
  /\ faPc = c /\ radare = "ready"
  /\ asked' = Append(asked, [call |-> c, outcome |-> "ok"])
  /\ UNCHANGED <<plan, radare>>

(* No function at the address is an answer, not an error. *)
Info ==
  /\ Answered("info")
  /\ faPc' \in {After("info"), "missing"}
  /\ UNCHANGED <<pdg, todo, answer>>

(* decompile fails when no decompiler is listed. *)
Plugins ==
  /\ Answered("plugins")
  /\ faPc' \in {"pdg", AfterDecompile}
  /\ UNCHANGED <<pdg, todo, answer>>

Pdg ==
  /\ Answered("pdg")
  /\ \E text \in Texts :
       /\ pdg' = text
       /\ IF Meaningful(text) /\ text # "Cannot"
          THEN faPc' = AfterDecompile /\ answer' = [answer EXCEPT !.code = text]
          ELSE faPc' = "pdd" /\ UNCHANGED answer
  /\ UNCHANGED todo

(* When neither prints code, a note that says so is the answer. *)
Pdd ==
  /\ Answered("pdd")
  /\ \E text \in Texts :
       answer' = [answer EXCEPT !.code = IF Meaningful(text) THEN text ELSE "note"]
  /\ faPc' = AfterDecompile
  /\ UNCHANGED <<pdg, todo>>

(* The calls whose result is kept as it comes. *)
Part ==
  \E c \in {"meta", "assembly", "constants", "blocks", "refs"} :
    /\ Answered(c)
    /\ answer' = [answer EXCEPT !.parts = @ \cup {c}]
    /\ faPc' = After(c)
    /\ UNCHANGED <<pdg, todo>>

Callers ==
  /\ Answered("callers")
  /\ \E n \in Neighbours : answer' = [answer EXCEPT !.callers = TrimNeighbours(n)]
  /\ faPc' = After("callers")
  /\ UNCHANGED <<pdg, todo>>

(* A function without a start or a size has no callees. *)
CalleeInfo ==
  /\ Answered("callee_info")
  /\ faPc' \in {"callees", After("callees")}
  /\ UNCHANGED <<pdg, todo, answer>>

Callees ==
  /\ Answered("callees")
  /\ \E refs \in RefLists :
       LET ts == DistinctTargets(refs, {"CALL"})
       IN  /\ todo' = ts
           /\ answer' = [answer EXCEPT !.calleeRefs = refs]
           /\ faPc' = IF ts = <<>> THEN After("callees") ELSE "fd"
  /\ UNCHANGED pdg

Strings ==
  /\ Answered("strings")
  /\ \E refs \in RefLists :
       LET ts == DistinctTargets(refs, {"DATA", "STRING"})
       IN  /\ todo' = ts
           /\ answer' = [answer EXCEPT !.stringRefs = refs]
           /\ faPc' = IF ts = <<>> THEN After("strings") ELSE "psz"
  /\ UNCHANGED pdg

(* One name, or one string: those shorter than 4 are left out. *)
NameCallee ==
  /\ Answered("fd")
  /\ \E name \in NameAnswers :
       answer' = [answer EXCEPT !.callees = Append(@, [target |-> Head(todo), name |-> name])]
  /\ todo' = Tail(todo)
  /\ faPc' = IF Len(todo) = 1 THEN After("callees") ELSE "fd"
  /\ UNCHANGED pdg

ReadString ==
  /\ Answered("psz")
  /\ \E name \in NameAnswers :
       answer' = [answer EXCEPT !.strings =
                    IF name = "none" THEN @
                    ELSE Append(@, [target |-> Head(todo), name |-> name])]
  /\ todo' = Tail(todo)
  /\ faPc' = IF Len(todo) = 1 THEN After("strings") ELSE "psz"
  /\ UNCHANGED pdg

Waiting == faPc \notin {"idle", "missing", "done", "failed"}

(* A failure of a call that may fail leaves its part out. *)
CallFailsOrTimesOut ==
  /\ Waiting
  /\ \E outcome \in IF radare = "busy" THEN {"timeout"} ELSE {"error", "timeout"} :
       /\ asked' = Append(asked, [call |-> faPc, outcome |-> outcome])
       /\ radare' = IF outcome = "timeout" THEN "busy" ELSE radare
  /\ faPc' = IF ~MayFail(faPc) THEN "failed"
             ELSE IF faPc \in {"plugins", "pdg", "pdd"} THEN AfterDecompile
             ELSE After(faPc)
  /\ UNCHANGED <<plan, pdg, todo, answer>>

(* radare2 ends the call nobody waits for any more. *)
RadareIsDone ==
  /\ radare = "busy" /\ Waiting
  /\ radare' = "ready"
  /\ UNCHANGED <<faPc, plan, asked, pdg, todo, answer>>

AnalysisInit ==
  /\ faPc = "idle" /\ plan = "profile" /\ radare = "ready"
  /\ asked = <<>> /\ pdg = Absent /\ todo = <<>>
  /\ answer = [code |-> Absent, parts |-> {}, callers |-> Absent,
               calleeRefs |-> <<>>, stringRefs |-> <<>>,
               callees |-> <<>>, strings |-> <<>>]

AnalysisNext ==
  \/ AnalysisStart \/ Info \/ Plugins \/ Pdg \/ Pdd \/ Part \/ Callers
  \/ CalleeInfo \/ Callees \/ Strings \/ NameCallee \/ ReadString
  \/ CallFailsOrTimesOut \/ RadareIsDone

AnalysisSpec == AnalysisInit /\ [][AnalysisNext]_faVars

-----------------------------------------------------------------------------

AskedFor(c) == \E k \in 1 .. Len(asked) : asked[k].call = c

Failed(c) == \E k \in DOMAIN asked : asked[k].call = c /\ asked[k].outcome # "ok"

AnalysisTypeOK ==
  /\ radare \in {"ready", "busy"}
  /\ answer.code \in {Absent, "note"} \cup Texts
  /\ pdg \in {Absent} \cup Texts
  /\ answer.callers # Absent => answer.callers.shown <= MaxNeighbours

(***************************************************************************)
(* An analysis fails only when the last call did and is one of those it    *)
(* cannot do without; and it is answered only when all of those succeeded. *)
(***************************************************************************)
RequiredOrNothing ==
  /\ faPc = "failed" => /\ Last(asked).outcome # "ok"
                        /\ Last(asked).call \notin Optional
  /\ faPc = "done" => \A k \in DOMAIN asked :
                        asked[k].outcome # "ok" => asked[k].call \in Optional

(***************************************************************************)
(* A part is missing from an answer only when a call for it failed, or,    *)
(* for the code, when there is no decompiler.                              *)
(***************************************************************************)
AbsentMeansFailed ==
  faPc = "done" =>
    /\ \A k \in DOMAIN Calls(plan) :
         LET c == Calls(plan)[k]
         IN  c \in {"meta", "assembly", "constants", "blocks", "refs"} =>
               (c \in answer.parts <=> ~Failed(c))
    /\ (answer.code = Absent /\ plan # "profile") =>
         \/ \E c \in {"plugins", "pdg", "pdd"} : Failed(c)
         \/ \A k \in DOMAIN asked : asked[k].call # "pdg"

(***************************************************************************)
(* What is given as code is what pdg printed whenever that is code, and    *)
(* never a message that no decompiler is installed or a text too short.  A *)
(* text with "Cannot" in it is never pdg's; it is pdd's, in which decompile *)
(* does not look for the word.  A note of the server's own is given only   *)
(* when both have been asked.                                              *)
(***************************************************************************)
CodeIsMeaningful ==
  /\ answer.code \in {Absent, "note", "code", "Cannot"}
  /\ pdg = "code" => answer.code = "code"
  /\ answer.code \in {"note", "Cannot"} => pdg # "code" /\ AskedFor("pdd")

(***************************************************************************)
(* Each callee and each string is named once, those that share a target    *)
(* included, none of another type, and every callee is.  The number of     *)
(* callees given is that of all of them; those shown are the first, and    *)
(* some are left out only above MAX_NEIGHBOURS.                            *)
(***************************************************************************)
TargetsNamedOnce ==
  /\ \A list \in {answer.callees, answer.strings} : \A j, k \in DOMAIN list :
       list[j].target = list[k].target => j = k
  /\ faPc = "done" =>
       LET called == {r.target : r \in {x \in ToSet(answer.calleeRefs) :
                                          x.type = "CALL" /\ x.target # 0}}
           given  == TrimmedCallees
       IN  /\ {answer.callees[k].target : k \in DOMAIN answer.callees} = called
           /\ given.count = Cardinality(called)
           /\ IsPrefix(given.shown, answer.callees)
           /\ given.shown # answer.callees => Len(given.shown) = MaxNeighbours
  /\ \A k \in DOMAIN answer.strings : answer.strings[k].name # "none"

=============================================================================
