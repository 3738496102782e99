--------------------------- MODULE SessionManager ---------------------------
(***************************************************************************)
(* The session manager (SessionManager in crates/rbm-r2/src/session.rs):   *)
(* the map from canonical binary paths to sessions, the alias map, and the *)
(* requests that open, use, reload and close sessions, each a task of its  *)
(* own (crates/rbm-server/src/server.rs).                                  *)
(*                                                                         *)
(* A request is cut where the code awaits or leaves a map's lock; every    *)
(* step between two cuts is one action.  Each request spawns at most one   *)
(* session, which bears the request's name.                                *)
(*                                                                         *)
(* What happens in a session's channel is R2Session's business: here a     *)
(* session's worker serves until it has been sent Shutdown or nobody       *)
(* refers to its channel any more, and then stops.                         *)
(***************************************************************************)
EXTENDS Integers

CONSTANTS
  Requests,    \* the requests
  Paths,       \* path strings
  Kinds,       \* the kinds of request there are, of AllKinds
  FileStates,  \* the states of the file system: functions from Paths
  StartupCommands,  \* the length of STARTUP_ANALYSIS_COMMANDS, 3 in the code
  None

AllKinds == {"tool", "open", "reload", "close"}

(***************************************************************************)
(* fs[p] is what fs::canonicalize(p) returns, None for an error.  A        *)
(* canonical path is its own canonical path.                               *)
(***************************************************************************)
ASSUME ManagerAssumption ==
  /\ Kinds \subseteq AllKinds
  /\ None \notin Requests
  /\ None \notin Paths
  /\ FileStates \subseteq [Paths -> Paths \cup {None}]
  /\ \A f \in FileStates, p \in Paths : f[p] # None => f[f[p]] = f[p]
  /\ StartupCommands \in Nat \ {0}

VARIABLES
  fs,        \* the file system
  sessions,  \* sessions[k]: the session cached for canonical path k, or None
  aliases,   \* aliases[p]: the canonical path p was opened as, or None
  kind,      \* kind[r]: what request r asks for
  input,     \* input[r]: the path request r names
  pc,        \* where request r is
  key,       \* key[r]: the canonical path r works on
  hold,      \* hold[r]: the sessions r holds an Arc or the sender of
  got,       \* got[r]: the session handed to request r, or None
  worker,    \* worker[s]: the worker thread of session s
  attempt,   \* attempt[s]: which start-up command the thread of s is at
  init,      \* init[s]: what the thread has sent on the init channel of s
  told       \* told[s]: SessionCmd::Shutdown has been sent by Session::shutdown

(* History: sessions ever put in the map, sessions taken out of it by a
   close, and for each request the sessions spawned before it arrived. *)
VARIABLES installed, removed, before

mapVars     == <<sessions, aliases, installed, removed>>
requestVars == <<kind, input, key, hold, got, before>>
threadVars  == <<worker, attempt, init, told>>
vars        == <<fs, mapVars, requestVars, pc, threadVars>>

Goto(r, label) == pc' = [pc EXCEPT ![r] = label]

Holding(r, set) == hold' = [hold EXCEPT ![r] = set]

(* A task ends: its locals go, and with them the Arcs it holds. *)
End(r) ==
  /\ Goto(r, "done")
  /\ Holding(r, {})
  /\ kind' = [kind EXCEPT ![r] = None]
  /\ input' = [input EXCEPT ![r] = None]
  /\ key' = [key EXCEPT ![r] = None]
  /\ got' = [got EXCEPT ![r] = None]
  /\ before' = [before EXCEPT ![r] = {}]

Mapped(s) == \E k \in Paths : sessions[k] = s

Referenced(s) == Mapped(s) \/ \E r \in Requests : s \in hold[r]

-----------------------------------------------------------------------------
(* Requests and their environment                                          *)

(* Files come and go, links are changed. *)
FilesChange ==
  /\ fs' \in FileStates
  /\ fs' # fs
  /\ UNCHANGED <<mapVars, requestVars, pc, threadVars>>

(* The server starts a task for a request: r2_close and r2_open with
   force_reload begin with SessionManager::close, the others with
   ensure_session. *)
Arrive(r, what, p) ==
  /\ pc[r] = "idle"
  /\ kind' = [kind EXCEPT ![r] = what]
  /\ input' = [input EXCEPT ![r] = p]
  /\ before' = [before EXCEPT ![r] = {s \in Requests : worker[s] # "none"}]
  /\ Goto(r, IF what \in {"reload", "close"} THEN "close" ELSE "canonicalize")
  /\ UNCHANGED <<fs, mapVars, key, hold, got, threadVars>>

-----------------------------------------------------------------------------
(* ensure_session                                                          *)

Canonicalize(r) ==
  /\ pc[r] = "canonicalize"
  /\ IF fs[input[r]] = None
     THEN End(r)
     ELSE /\ Goto(r, "lookup")
          /\ key' = [key EXCEPT ![r] = fs[input[r]]]
          /\ UNCHANGED <<kind, input, hold, got, before>>
  /\ UNCHANGED <<fs, mapVars, threadVars>>

(* Hand session s to r.  A clone of a session r spawned itself is kept until
   ensure_session returns. *)
Take(r, s) ==
  /\ got' = [got EXCEPT ![r] = s]
  /\ Holding(r, hold[r] \cup {s})

Lookup(r) ==
  /\ pc[r] = "lookup"
  /\ LET s == sessions[key[r]] IN
     IF s = None
     THEN /\ Goto(r, "spawn")
          /\ UNCHANGED <<got, hold>>
     ELSE /\ Goto(r, "remember")
          /\ Take(r, s)
  /\ UNCHANGED <<fs, mapVars, kind, input, key, before, threadVars>>

(* Session::spawn up to its await: the channels and the thread are made. *)
Spawn(r) ==
  /\ pc[r] = "spawn"
  /\ worker' = [worker EXCEPT ![r] = "starting"]
  /\ attempt' = [attempt EXCEPT ![r] = 1]
  /\ Holding(r, {r})
  /\ Goto(r, "init")
  /\ UNCHANGED <<fs, mapVars, kind, input, key, got, before, init, told>>

(* "failed to spawn session worker thread" *)
SpawnFails(r) ==
  /\ pc[r] = "spawn"
  /\ End(r)
  /\ UNCHANGED <<fs, mapVars, threadVars>>

(* Mutant of Initialised: whatever the thread sent counts as a start. *)
InitialisedAnyway(r) ==
  /\ pc[r] = "init"
  /\ init[r] # "pending"
  /\ Goto(r, "install")
  /\ UNCHANGED <<requestVars, fs, mapVars, threadVars>>

(* init_rx resolves. *)
Initialised(r) ==
  /\ pc[r] = "init"
  /\ init[r] # "pending"
  /\ IF init[r] = "ok"
     THEN Goto(r, "install") /\ UNCHANGED requestVars
     ELSE End(r)
  /\ UNCHANGED <<fs, mapVars, threadVars>>

(* open_timeout elapses: the spawn future is dropped, with it init_rx and the
   only sender of the channel.  The thread is not told anything else. *)
OpenTimesOut(r) ==
  /\ pc[r] = "init"
  /\ End(r)
  /\ UNCHANGED <<fs, mapVars, threadVars>>

(* Mutant of Install: an entry made since the lookup is overwritten. *)
InstallOverwrites(r) ==
  /\ pc[r] = "install"
  /\ sessions' = [sessions EXCEPT ![key[r]] = r]
  /\ installed' = installed \cup {r}
  /\ got' = [got EXCEPT ![r] = r]
  /\ Goto(r, "remember")
  /\ UNCHANGED <<fs, aliases, removed, kind, input, key, hold, before,
                 threadVars>>

(* try_install: the map's entry is locked from the test to the insertion. *)
Install(r) ==
  /\ pc[r] = "install"
  /\ IF sessions[key[r]] = None
     THEN /\ sessions' = [sessions EXCEPT ![key[r]] = r]
          /\ installed' = installed \cup {r}
          /\ got' = [got EXCEPT ![r] = r]
          /\ Goto(r, "remember")
     ELSE /\ Goto(r, "raced")
          /\ UNCHANGED <<sessions, installed, got>>
  /\ UNCHANGED <<fs, aliases, removed, kind, input, key, hold, before,
                 threadVars>>

(* Mutant of LookupRaced: it waits for the session that won. *)
LookupRacedWaits(r) ==
  /\ pc[r] = "raced"
  /\ LET s == sessions[key[r]] IN
     /\ s # None
     /\ Goto(r, "remember")
     /\ Take(r, s)
  /\ UNCHANGED <<kind, input, key, before, fs, mapVars, threadVars>>

(* The session that won is looked up again; "session raced and vanished". *)
LookupRaced(r) ==
  /\ pc[r] = "raced"
  /\ LET s == sessions[key[r]] IN
     IF s = None
     THEN End(r)
     ELSE /\ Goto(r, "remember")
          /\ Take(r, s)
          /\ UNCHANGED <<kind, input, key, before>>
  /\ UNCHANGED <<fs, mapVars, threadVars>>

(* remember_alias, and ensure_session returns. *)
Remember(r) ==
  /\ pc[r] = "remember"
  /\ aliases' = [aliases EXCEPT ![input[r]] = key[r]]
  /\ Holding(r, {got[r]})
  /\ Goto(r, "use")
  /\ UNCHANGED <<fs, sessions, installed, removed, kind, input, key, got,
                 before, threadVars>>

(* The handler has made its calls ("ij" for r2_open), with whatever result,
   and drops the session. *)
Finish(r) ==
  /\ pc[r] = "use"
  /\ End(r)
  /\ UNCHANGED <<fs, mapVars, threadVars>>

-----------------------------------------------------------------------------
(* SessionManager::close                                                   *)

(* resolve_close_key: the canonical path if there is one, else the alias. *)
ResolveCloseKey(r) ==
  /\ pc[r] = "close"
  /\ IF fs[input[r]] = None
     THEN /\ Goto(r, "alias")
          /\ UNCHANGED key
     ELSE /\ Goto(r, "find")
          /\ key' = [key EXCEPT ![r] = fs[input[r]]]
  /\ UNCHANGED <<fs, mapVars, kind, input, hold, got, before, threadVars>>

ResolveAlias(r) ==
  /\ pc[r] = "alias"
  /\ key' = [key EXCEPT ![r] = IF aliases[input[r]] = None
                               THEN input[r] ELSE aliases[input[r]]]
  /\ Goto(r, "find")
  /\ UNCHANGED <<fs, mapVars, kind, input, hold, got, before, threadVars>>

Find(r) ==
  /\ pc[r] = "find"
  /\ LET s == sessions[key[r]] IN
     IF s = None
     THEN /\ Goto(r, "remove")
          /\ UNCHANGED hold
     ELSE /\ Goto(r, "tell")
          /\ Holding(r, {s})
  /\ UNCHANGED <<fs, mapVars, kind, input, key, got, before, threadVars>>

(* Mutant of Tell: the close returns once the session has been told. *)
TellAndReturn(r) ==
  /\ pc[r] = "tell"
  /\ told' = [s \in Requests |-> told[s] \/ s \in hold[r]]
  /\ End(r)
  /\ UNCHANGED <<fs, mapVars, worker, attempt, init>>

(* Session::shutdown; the clone is dropped. *)
Tell(r) ==
  /\ pc[r] = "tell"
  /\ told' = [s \in Requests |-> told[s] \/ s \in hold[r]]
  /\ Holding(r, {})
  /\ Goto(r, "remove")
  /\ UNCHANGED <<fs, mapVars, kind, input, key, got, before, worker, attempt,
                 init>>

(* r2_open with force_reload ignores what close returned and goes on with
   ensure_session. *)
AfterClose(r) ==
  IF kind[r] = "reload"
  THEN /\ Goto(r, "canonicalize")
       /\ Holding(r, {})
       /\ UNCHANGED <<kind, input, key, got, before>>
  ELSE End(r)

(* sessions.remove: whatever session the key has by now. *)
Remove(r) ==
  /\ pc[r] = "remove"
  /\ LET s == sessions[key[r]] IN
     IF s = None
     THEN /\ AfterClose(r)
          /\ UNCHANGED <<sessions, removed>>
     ELSE /\ sessions' = [sessions EXCEPT ![key[r]] = None]
          /\ removed' = removed \cup {s}
          /\ Holding(r, {s})
          /\ Goto(r, "forget")
          /\ UNCHANGED <<kind, input, key, got, before>>
  /\ UNCHANGED <<fs, aliases, installed, threadVars>>

(* forget_aliases; the Arc taken out of the map is dropped on return. *)
Forget(r) ==
  /\ pc[r] = "forget"
  /\ aliases' = [p \in Paths |-> IF aliases[p] = key[r] THEN None
                                 ELSE aliases[p]]
  /\ AfterClose(r)
  /\ UNCHANGED <<fs, sessions, installed, removed, threadVars>>

-----------------------------------------------------------------------------
(* Worker threads                                                          *)

(* spawn_once succeeds.  If init_rx is gone the pipe is closed at once. *)
StartSucceeds(s) ==
  /\ worker[s] = "starting"
  /\ IF pc[s] = "init"
     THEN /\ worker' = [worker EXCEPT ![s] = "serving"]
          /\ init' = [init EXCEPT ![s] = "ok"]
     ELSE /\ worker' = [worker EXCEPT ![s] = "stopped"]
          /\ UNCHANGED init
  /\ UNCHANGED <<fs, mapVars, requestVars, pc, attempt, told>>

(* Mutant of StartFails: the command after the last one is tried too. *)
StartFailsOffByOne(s) ==
  /\ worker[s] = "starting"
  /\ IF attempt[s] <= StartupCommands
     THEN /\ attempt' = [attempt EXCEPT ![s] = attempt[s] + 1]
          /\ UNCHANGED <<worker, init>>
     ELSE /\ worker' = [worker EXCEPT ![s] = "stopped"]
          /\ init' = [init EXCEPT ![s] = "err"]
          /\ UNCHANGED attempt
  /\ UNCHANGED <<fs, mapVars, requestVars, pc, told>>

(* spawn_once fails and closes its pipe: the next command is tried, even if
   nobody waits any more. *)
StartFails(s) ==
  /\ worker[s] = "starting"
  /\ IF attempt[s] < StartupCommands
     THEN /\ attempt' = [attempt EXCEPT ![s] = attempt[s] + 1]
          /\ UNCHANGED <<worker, init>>
     ELSE /\ worker' = [worker EXCEPT ![s] = "stopped"]
          /\ init' = [init EXCEPT ![s] = "err"]
          /\ UNCHANGED attempt
  /\ UNCHANGED <<fs, mapVars, requestVars, pc, told>>

(* Mutant of Stop: without Drop, the worker stops only when told. *)
StopIfTold(s) ==
  /\ worker[s] = "serving"
  /\ told[s]
  /\ worker' = [worker EXCEPT ![s] = "stopped"]
  /\ UNCHANGED <<fs, mapVars, requestVars, pc, attempt, init, told>>

(* The loop ends on Shutdown, sent by Session::shutdown or by Drop when the
   last Arc goes, or on the end of the channel; the pipe is closed. *)
Stop(s) ==
  /\ worker[s] = "serving"
  /\ told[s] \/ ~Referenced(s)
  /\ worker' = [worker EXCEPT ![s] = "stopped"]
  /\ UNCHANGED <<fs, mapVars, requestVars, pc, attempt, init, told>>

-----------------------------------------------------------------------------

Init ==
  /\ fs \in FileStates
  /\ sessions = [k \in Paths |-> None]
  /\ aliases = [p \in Paths |-> None]
  /\ kind = [r \in Requests |-> None]
  /\ input = [r \in Requests |-> None]
  /\ pc = [r \in Requests |-> "idle"]
  /\ key = [r \in Requests |-> None]
  /\ hold = [r \in Requests |-> {}]
  /\ got = [r \in Requests |-> None]
  /\ worker = [s \in Requests |-> "none"]
  /\ attempt = [s \in Requests |-> 0]
  /\ init = [s \in Requests |-> "pending"]
  /\ told = [s \in Requests |-> FALSE]
  /\ installed = {}
  /\ removed = {}
  /\ before = [r \in Requests |-> {}]

Ensure(r) ==
  \/ Canonicalize(r)
  \/ Lookup(r)
  \/ Spawn(r)
  \/ SpawnFails(r)
  \/ Initialised(r)
  \/ Install(r)
  \/ LookupRaced(r)
  \/ Remember(r)

Close(r) ==
  \/ ResolveCloseKey(r)
  \/ ResolveAlias(r)
  \/ Find(r)
  \/ Tell(r)
  \/ Remove(r)
  \/ Forget(r)

Step(r) == Ensure(r) \/ Finish(r) \/ Close(r)

Thread(s) == StartSucceeds(s) \/ StartFails(s) \/ Stop(s)

Next ==
  \/ FilesChange
  \/ \E r \in Requests, what \in Kinds, p \in Paths : Arrive(r, what, p)
  \/ \E r \in Requests : Step(r) \/ OpenTimesOut(r)
  \/ \E s \in Requests : Thread(s)

(***************************************************************************)
(* The runtime polls every task that can go on, every thread is scheduled, *)
(* and r2's start-up commands and its close return.  The open timer need   *)
(* not fire.                                                               *)
(***************************************************************************)
Fairness == \A r \in Requests : WF_vars(Step(r)) /\ WF_vars(Thread(r))

Spec == Init /\ [][Next]_vars /\ Fairness

-----------------------------------------------------------------------------
(* Properties                                                              *)

Labels ==
  {"idle", "canonicalize", "lookup", "spawn", "init", "install", "raced",
   "remember", "use", "close", "alias", "find", "tell", "remove", "forget",
   "done"}

(* Every variable has its type. *)
TypeOK ==
  /\ fs \in FileStates
  /\ sessions \in [Paths -> Requests \cup {None}]
  /\ aliases \in [Paths -> Paths \cup {None}]
  /\ kind \in [Requests -> Kinds \cup {None}]
  /\ input \in [Requests -> Paths \cup {None}]
  /\ pc \in [Requests -> Labels]
  /\ key \in [Requests -> Paths \cup {None}]
  /\ hold \in [Requests -> SUBSET Requests]
  /\ got \in [Requests -> Requests \cup {None}]
  /\ worker \in [Requests -> {"none", "starting", "serving", "stopped"}]
  /\ attempt \in [Requests -> 0 .. StartupCommands]
  /\ init \in [Requests -> {"pending", "ok", "err"}]
  /\ told \in [Requests -> BOOLEAN]
  /\ installed \in SUBSET Requests
  /\ removed \in SUBSET Requests
  /\ before \in [Requests -> SUBSET Requests]

(* A session a handler works with is the one cached for its binary, or has
   been taken out of the map by a close: the session of an opener that lost
   the race to install serves nobody, and no handler works with a session
   r2_close can never have reached. *)
InUseIsClosable ==
  \A r \in Requests : pc[r] = "use" =>
    sessions[key[r]] = got[r] \/ got[r] \in removed

(* A cached session has a started worker, and one that has stopped was told
   to: openers never install a session whose start-up failed. *)
CachedIsStarted ==
  \A k \in Paths : LET s == sessions[k] IN
    s # None => \/ worker[s] = "serving"
                \/ worker[s] = "stopped" /\ told[s]

(* A cached session that has been told to stop is on its way out: some close
   of its binary is about to remove the entry, so the cache never keeps
   handing out a dead session. *)
StoppingHasCloser ==
  \A k \in Paths :
    (sessions[k] # None /\ told[sessions[k]]) =>
      \E r \in Requests : pc[r] = "remove" /\ key[r] = k

(* Every worker whose session nobody refers to any more stops: that of an
   open that timed out, of one that lost the race, of a closed session. *)
NoLeakedWorker ==
  \A s \in Requests :
    (worker[s] \in {"starting", "serving"} /\ ~Referenced(s))
      ~> (worker[s] = "stopped")

(* Every request ends, whatever the others do and however files change. *)
EveryRequestEnds ==
  \A r \in Requests : (pc[r] # "idle") ~> (pc[r] = "done")

(* Session::shutdown's comment: r2_close can stop a session even if concurrent
   tool handlers still hold cloned Arc<Session> references.  So a session a
   close has removed is told to stop, or no handler works with it. *)
CloseStopsSession ==
  \A s \in removed :
    told[s] \/ \A r \in Requests : pc[r] = "use" => got[r] # s

(* force_reload, as the tool describes it: close an existing session and
   re-open, so the session it serves was not spawned before the request. *)
ReloadServesFresh ==
  \A r \in Requests :
    (kind[r] = "reload" /\ pc[r] = "use") => got[r] \notin before[r]
=============================================================================
