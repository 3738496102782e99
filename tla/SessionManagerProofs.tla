------------------------ MODULE SessionManagerProofs ------------------------
(***************************************************************************)
(* Proofs about SessionManager for any set of requests, any paths and any  *)
(* ways the file system may look.                                          *)
(***************************************************************************)
EXTENDS SessionManager, TLAPS

(* The labels at which a request has not put its session in the map. *)
Uninstalled == Labels \ {"raced", "remember", "use", "done"}

Unspawned == Uninstalled \ {"init", "install"}

(* The labels at which a request has settled on a canonical path. *)
Keyed ==
  {"lookup", "spawn", "init", "install", "raced", "remember", "use",
   "find", "tell", "remove", "forget"}

(* A request's locals have been assigned where they are used. *)
Locals ==
  \A r \in Requests :
    /\ pc[r] \notin {"idle", "done"} => input[r] \in Paths /\ kind[r] \in Kinds
    /\ pc[r] \in Keyed => key[r] \in Paths
    /\ pc[r] \in {"remember", "use"} => got[r] \in Requests

(* A session enters the map once, under one path, and is told to stop only
   after that. *)
InstalledOnce ==
  /\ \A r \in Requests : pc[r] \in Uninstalled => r \notin installed
  /\ \A k \in Paths : sessions[k] # None => sessions[k] \in installed
  /\ \A k, l \in Paths :
       (sessions[k] # None /\ sessions[k] = sessions[l]) => k = l
  /\ \A s \in Requests : told[s] => s \in installed

(* A close about to tell a session found it under its own key, where it
   still is if it is in the map at all. *)
TellsItsOwn ==
  \A r \in Requests : pc[r] = "tell" =>
    /\ hold[r] \subseteq installed
    /\ \A k \in Paths : sessions[k] \in hold[r] => k = key[r]

(* An opener keeps the session it waits for alive, and installs it only with
   a worker that serves. *)
OpenerServes ==
  \A r \in Requests :
    /\ pc[r] \in Unspawned => worker[r] = "none" /\ init[r] = "pending"
    /\ pc[r] \in {"init", "install"} => r \in hold[r]
    /\ pc[r] = "init" /\ init[r] = "ok" => worker[r] = "serving"
    /\ pc[r] = "install" => worker[r] = "serving"

(* What a request was handed is cached, or a close has taken it out. *)
Handed ==
  \A r \in Requests : pc[r] \in {"remember", "use"} =>
    sessions[key[r]] = got[r] \/ got[r] \in removed

IInv ==
  /\ TypeOK
  /\ Locals
  /\ InstalledOnce
  /\ TellsItsOwn
  /\ OpenerServes
  /\ Handed
  /\ CachedIsStarted
  /\ StoppingHasCloser

(***************************************************************************)
(* Every step keeps the invariant: one lemma per action, one step per      *)
(* conjunct.                                                               *)
(***************************************************************************)

(* Files come and go. *)
LEMMA FilesChangeStep ==
  ASSUME IInv, FilesChange
  PROVE  IInv'
<1> USE DEF FilesChange, mapVars, requestVars, threadVars, Labels, Uninstalled, Unspawned, Keyed
<1>1. TypeOK'
  BY DEF IInv, TypeOK
<1>2. Locals'
  BY DEF IInv, Locals
<1>3. InstalledOnce'
  BY DEF IInv, InstalledOnce
<1>4. TellsItsOwn'
  BY DEF IInv, TellsItsOwn
<1>5. OpenerServes'
  BY DEF IInv, OpenerServes
<1>6. Handed'
  BY DEF IInv, Handed
<1>7. CachedIsStarted'
  BY DEF IInv, CachedIsStarted
<1>8. StoppingHasCloser'
  BY DEF IInv, StoppingHasCloser
<1>9. QED
  BY <1>1, <1>2, <1>3, <1>4, <1>5, <1>6, <1>7, <1>8 DEF IInv

(* A request arrives. *)
LEMMA ArriveStep ==
  ASSUME IInv, NEW r \in Requests, NEW what \in Kinds, NEW p \in Paths,
         Arrive(r, what, p)
  PROVE  IInv'
<1> USE DEF Arrive, mapVars, threadVars, Goto, Labels, Uninstalled, Unspawned, Keyed
<1>1. TypeOK'
  BY DEF IInv, TypeOK
<1>2. Locals'
  BY DEF IInv, Locals, TypeOK
<1>3. InstalledOnce'
  BY DEF IInv, InstalledOnce
<1>4. TellsItsOwn'
  BY DEF IInv, TellsItsOwn
<1>5. OpenerServes'
  BY DEF IInv, OpenerServes
<1>6. Handed'
  BY DEF IInv, Handed
<1>7. CachedIsStarted'
  BY DEF IInv, CachedIsStarted
<1>8. StoppingHasCloser'
  BY DEF IInv, StoppingHasCloser
<1>9. QED
  BY <1>1, <1>2, <1>3, <1>4, <1>5, <1>6, <1>7, <1>8 DEF IInv

(* ensure_session resolves the path, or ends the request. *)
LEMMA CanonicalizeStep ==
  ASSUME IInv, NEW r \in Requests, Canonicalize(r)
  PROVE  IInv'
<1> USE DEF Canonicalize, mapVars, threadVars, Goto, Holding, End, Labels, Uninstalled, Unspawned, Keyed
<1>1. TypeOK'
  <2>1. fs[input[r]] \in Paths \cup {None}
    BY ManagerAssumption DEF IInv, TypeOK, Locals
  <2>2. CASE fs[input[r]] = None
    BY <2>2 DEF IInv, TypeOK
  <2>3. CASE fs[input[r]] # None
    BY <2>1, <2>3 DEF IInv, TypeOK
  <2>4. QED
    BY <2>2, <2>3
<1>2. Locals'
  BY ManagerAssumption DEF IInv, Locals, TypeOK
<1>3. InstalledOnce'
  BY DEF IInv, InstalledOnce, TypeOK
<1>4. TellsItsOwn'
  BY DEF IInv, TellsItsOwn, TypeOK
<1>5. OpenerServes'
  BY DEF IInv, OpenerServes, TypeOK
<1>6. Handed'
  BY DEF IInv, Handed, TypeOK
<1>7. CachedIsStarted'
  BY DEF IInv, CachedIsStarted
<1>8. StoppingHasCloser'
  BY DEF IInv, StoppingHasCloser, TypeOK
<1>9. QED
  BY <1>1, <1>2, <1>3, <1>4, <1>5, <1>6, <1>7, <1>8 DEF IInv

(* A request finds a cached session or goes on to spawn one. *)
LEMMA LookupStep ==
  ASSUME IInv, NEW r \in Requests, Lookup(r)
  PROVE  IInv'
<1> USE DEF Lookup, mapVars, threadVars, Goto, Holding, Take, Labels, Uninstalled, Unspawned, Keyed
<1>1. TypeOK'
  BY DEF IInv, TypeOK, Locals
<1>2. Locals'
  BY DEF IInv, Locals, TypeOK
<1>3. InstalledOnce'
  BY DEF IInv, InstalledOnce, TypeOK
<1>4. TellsItsOwn'
  BY DEF IInv, TellsItsOwn, TypeOK
<1>5. OpenerServes'
  BY DEF IInv, OpenerServes, TypeOK
<1>6. Handed'
  BY DEF IInv, Handed, TypeOK
<1>7. CachedIsStarted'
  BY DEF IInv, CachedIsStarted
<1>8. StoppingHasCloser'
  BY DEF IInv, StoppingHasCloser, TypeOK
<1>9. QED
  BY <1>1, <1>2, <1>3, <1>4, <1>5, <1>6, <1>7, <1>8 DEF IInv

(* A request makes its session's channels and thread. *)
LEMMA SpawnStep ==
  ASSUME IInv, NEW r \in Requests, Spawn(r)
  PROVE  IInv'
<1> USE DEF Spawn, mapVars, Goto, Holding, Labels, Uninstalled, Unspawned, Keyed
<1>1. TypeOK'
  BY ManagerAssumption DEF IInv, TypeOK
<1>2. Locals'
  BY DEF IInv, Locals
<1>3. InstalledOnce'
  BY DEF IInv, InstalledOnce
<1>4. TellsItsOwn'
  BY DEF IInv, TellsItsOwn
<1>5. OpenerServes'
  BY DEF IInv, OpenerServes, TypeOK
<1>6. Handed'
  BY DEF IInv, Handed
<1>7. CachedIsStarted'
  BY DEF IInv, CachedIsStarted, InstalledOnce
<1>8. StoppingHasCloser'
  BY DEF IInv, StoppingHasCloser
<1>9. QED
  BY <1>1, <1>2, <1>3, <1>4, <1>5, <1>6, <1>7, <1>8 DEF IInv

(* The thread could not be made. *)
LEMMA SpawnFailsStep ==
  ASSUME IInv, NEW r \in Requests, SpawnFails(r)
  PROVE  IInv'
<1> USE DEF SpawnFails, mapVars, threadVars, Goto, Holding, End, Labels, Uninstalled, Unspawned, Keyed
<1>1. TypeOK'
  BY DEF IInv, TypeOK
<1>2. Locals'
  BY DEF IInv, Locals, TypeOK
<1>3. InstalledOnce'
  BY DEF IInv, InstalledOnce
<1>4. TellsItsOwn'
  BY DEF IInv, TellsItsOwn
<1>5. OpenerServes'
  BY DEF IInv, OpenerServes
<1>6. Handed'
  BY DEF IInv, Handed
<1>7. CachedIsStarted'
  BY DEF IInv, CachedIsStarted
<1>8. StoppingHasCloser'
  BY DEF IInv, StoppingHasCloser
<1>9. QED
  BY <1>1, <1>2, <1>3, <1>4, <1>5, <1>6, <1>7, <1>8 DEF IInv

(* The thread has told how the start-up went. *)
LEMMA InitialisedStep ==
  ASSUME IInv, NEW r \in Requests, Initialised(r)
  PROVE  IInv'
<1> USE DEF Initialised, mapVars, requestVars, threadVars, Goto, Holding, End, Labels, Uninstalled, Unspawned, Keyed
<1>1. TypeOK'
  <2>1. CASE init[r] = "ok"
    BY <2>1 DEF IInv, TypeOK
  <2>2. CASE init[r] # "ok"
    BY <2>2 DEF IInv, TypeOK
  <2>3. QED
    BY <2>1, <2>2
<1>2. Locals'
  BY DEF IInv, Locals, TypeOK
<1>3. InstalledOnce'
  BY DEF IInv, InstalledOnce, TypeOK
<1>4. TellsItsOwn'
  BY DEF IInv, TellsItsOwn, TypeOK
<1>5. OpenerServes'
  BY DEF IInv, OpenerServes, TypeOK
<1>6. Handed'
  BY DEF IInv, Handed, TypeOK
<1>7. CachedIsStarted'
  BY DEF IInv, CachedIsStarted
<1>8. StoppingHasCloser'
  BY DEF IInv, StoppingHasCloser, TypeOK
<1>9. QED
  BY <1>1, <1>2, <1>3, <1>4, <1>5, <1>6, <1>7, <1>8 DEF IInv

(* The open timer drops the spawn. *)
LEMMA OpenTimesOutStep ==
  ASSUME IInv, NEW r \in Requests, OpenTimesOut(r)
  PROVE  IInv'
<1> USE DEF OpenTimesOut, mapVars, threadVars, Goto, Holding, End, Labels, Uninstalled, Unspawned, Keyed
<1>1. TypeOK'
  BY DEF IInv, TypeOK
<1>2. Locals'
  BY DEF IInv, Locals, TypeOK
<1>3. InstalledOnce'
  BY DEF IInv, InstalledOnce
<1>4. TellsItsOwn'
  BY DEF IInv, TellsItsOwn
<1>5. OpenerServes'
  BY DEF IInv, OpenerServes, TypeOK
<1>6. Handed'
  BY DEF IInv, Handed
<1>7. CachedIsStarted'
  BY DEF IInv, CachedIsStarted
<1>8. StoppingHasCloser'
  BY DEF IInv, StoppingHasCloser
<1>9. QED
  BY <1>1, <1>2, <1>3, <1>4, <1>5, <1>6, <1>7, <1>8 DEF IInv

(* try_install fills an empty entry only. *)
LEMMA InstallStep ==
  ASSUME IInv, NEW r \in Requests, Install(r)
  PROVE  IInv'
<1> USE DEF Install, threadVars, Goto, Labels, Uninstalled, Unspawned, Keyed
<1>1. TypeOK'
  BY DEF IInv, TypeOK
<1>2. Locals'
  BY DEF IInv, Locals, TypeOK
<1>3. InstalledOnce'
  BY DEF IInv, InstalledOnce, TypeOK, Locals, TellsItsOwn
<1>4. TellsItsOwn'
  BY DEF IInv, TellsItsOwn, TypeOK, InstalledOnce
<1>5. OpenerServes'
  BY DEF IInv, OpenerServes, TypeOK
<1>6. Handed'
  BY ManagerAssumption DEF IInv, Handed, TypeOK, Locals
<1>7. CachedIsStarted'
  BY DEF IInv, CachedIsStarted, TypeOK, OpenerServes
<1>8. StoppingHasCloser'
  BY DEF IInv, StoppingHasCloser, TypeOK, InstalledOnce
<1>9. QED
  BY <1>1, <1>2, <1>3, <1>4, <1>5, <1>6, <1>7, <1>8 DEF IInv

(* The loser of the race takes the winner's session, if it is still there. *)
LEMMA LookupRacedStep ==
  ASSUME IInv, NEW r \in Requests, LookupRaced(r)
  PROVE  IInv'
<1> USE DEF LookupRaced, mapVars, threadVars, Goto, Holding, End, Take, Labels, Uninstalled, Unspawned, Keyed
<1>1. TypeOK'
  BY ManagerAssumption DEF IInv, TypeOK, Locals
<1>2. Locals'
  BY DEF IInv, Locals, TypeOK
<1>3. InstalledOnce'
  BY DEF IInv, InstalledOnce, TypeOK
<1>4. TellsItsOwn'
  BY ManagerAssumption DEF IInv, TellsItsOwn, TypeOK, Locals, InstalledOnce
<1>5. OpenerServes'
  BY DEF IInv, OpenerServes, TypeOK
<1>6. Handed'
  BY DEF IInv, Handed, TypeOK
<1>7. CachedIsStarted'
  BY DEF IInv, CachedIsStarted
<1>8. StoppingHasCloser'
  BY DEF IInv, StoppingHasCloser, TypeOK
<1>9. QED
  BY <1>1, <1>2, <1>3, <1>4, <1>5, <1>6, <1>7, <1>8 DEF IInv

(* ensure_session returns. *)
LEMMA RememberStep ==
  ASSUME IInv, NEW r \in Requests, Remember(r)
  PROVE  IInv'
<1> USE DEF Remember, threadVars, Goto, Holding, Labels, Uninstalled, Unspawned, Keyed
<1>1. TypeOK'
  BY DEF IInv, TypeOK, Locals
<1>2. Locals'
  BY DEF IInv, Locals
<1>3. InstalledOnce'
  BY DEF IInv, InstalledOnce
<1>4. TellsItsOwn'
  BY DEF IInv, TellsItsOwn
<1>5. OpenerServes'
  BY DEF IInv, OpenerServes
<1>6. Handed'
  BY DEF IInv, Handed
<1>7. CachedIsStarted'
  BY DEF IInv, CachedIsStarted
<1>8. StoppingHasCloser'
  BY DEF IInv, StoppingHasCloser
<1>9. QED
  BY <1>1, <1>2, <1>3, <1>4, <1>5, <1>6, <1>7, <1>8 DEF IInv

(* A handler ends. *)
LEMMA FinishStep ==
  ASSUME IInv, NEW r \in Requests, Finish(r)
  PROVE  IInv'
<1> USE DEF Finish, mapVars, threadVars, Goto, Holding, End, Labels, Uninstalled, Unspawned, Keyed
<1>1. TypeOK'
  BY DEF IInv, TypeOK
<1>2. Locals'
  BY DEF IInv, Locals, TypeOK
<1>3. InstalledOnce'
  BY DEF IInv, InstalledOnce
<1>4. TellsItsOwn'
  BY DEF IInv, TellsItsOwn
<1>5. OpenerServes'
  BY DEF IInv, OpenerServes
<1>6. Handed'
  BY DEF IInv, Handed, TypeOK
<1>7. CachedIsStarted'
  BY DEF IInv, CachedIsStarted
<1>8. StoppingHasCloser'
  BY DEF IInv, StoppingHasCloser
<1>9. QED
  BY <1>1, <1>2, <1>3, <1>4, <1>5, <1>6, <1>7, <1>8 DEF IInv

(* A close resolves the path it was given. *)
LEMMA ResolveCloseKeyStep ==
  ASSUME IInv, NEW r \in Requests, ResolveCloseKey(r)
  PROVE  IInv'
<1> USE DEF ResolveCloseKey, mapVars, threadVars, Goto, Labels, Uninstalled, Unspawned, Keyed
<1>1. TypeOK'
  BY ManagerAssumption DEF IInv, TypeOK, Locals
<1>2. Locals'
  BY ManagerAssumption DEF IInv, Locals, TypeOK
<1>3. InstalledOnce'
  BY DEF IInv, InstalledOnce, TypeOK
<1>4. TellsItsOwn'
  BY DEF IInv, TellsItsOwn, TypeOK
<1>5. OpenerServes'
  BY DEF IInv, OpenerServes, TypeOK
<1>6. Handed'
  BY ManagerAssumption DEF IInv, Handed, TypeOK, Locals, InstalledOnce
<1>7. CachedIsStarted'
  BY DEF IInv, CachedIsStarted
<1>8. StoppingHasCloser'
  BY DEF IInv, StoppingHasCloser, TypeOK
<1>9. QED
  BY <1>1, <1>2, <1>3, <1>4, <1>5, <1>6, <1>7, <1>8 DEF IInv

(* A close resolves a path that has vanished by its alias. *)
LEMMA ResolveAliasStep ==
  ASSUME IInv, NEW r \in Requests, ResolveAlias(r)
  PROVE  IInv'
<1> USE DEF ResolveAlias, mapVars, threadVars, Goto, Labels, Uninstalled, Unspawned, Keyed
<1>1. TypeOK'
  BY DEF IInv, TypeOK, Locals
<1>2. Locals'
  BY DEF IInv, Locals, TypeOK
<1>3. InstalledOnce'
  BY DEF IInv, InstalledOnce
<1>4. TellsItsOwn'
  BY DEF IInv, TellsItsOwn
<1>5. OpenerServes'
  BY DEF IInv, OpenerServes
<1>6. Handed'
  BY DEF IInv, Handed
<1>7. CachedIsStarted'
  BY DEF IInv, CachedIsStarted
<1>8. StoppingHasCloser'
  BY DEF IInv, StoppingHasCloser
<1>9. QED
  BY <1>1, <1>2, <1>3, <1>4, <1>5, <1>6, <1>7, <1>8 DEF IInv

(* A close looks its session up. *)
LEMMA FindStep ==
  ASSUME IInv, NEW r \in Requests, Find(r)
  PROVE  IInv'
<1> USE DEF Find, mapVars, threadVars, Goto, Holding, Labels, Uninstalled, Unspawned, Keyed
<1>1. TypeOK'
  BY DEF IInv, TypeOK, Locals
<1>2. Locals'
  BY DEF IInv, Locals, TypeOK
<1>3. InstalledOnce'
  BY DEF IInv, InstalledOnce, TypeOK
<1>4. TellsItsOwn'
  BY DEF IInv, TellsItsOwn, TypeOK, Locals, InstalledOnce
<1>5. OpenerServes'
  BY DEF IInv, OpenerServes, TypeOK
<1>6. Handed'
  BY DEF IInv, Handed, TypeOK
<1>7. CachedIsStarted'
  BY DEF IInv, CachedIsStarted
<1>8. StoppingHasCloser'
  BY DEF IInv, StoppingHasCloser, TypeOK
<1>9. QED
  BY <1>1, <1>2, <1>3, <1>4, <1>5, <1>6, <1>7, <1>8 DEF IInv

(* Session::shutdown is called on the session found. *)
LEMMA TellStep ==
  ASSUME IInv, NEW r \in Requests, Tell(r)
  PROVE  IInv'
<1> USE DEF Tell, mapVars, Goto, Holding, Labels, Uninstalled, Unspawned, Keyed
<1>1. TypeOK'
  BY DEF IInv, TypeOK
<1>2. Locals'
  BY DEF IInv, Locals
<1>3. InstalledOnce'
  BY DEF IInv, InstalledOnce, TypeOK, TellsItsOwn
<1>4. TellsItsOwn'
  BY DEF IInv, TellsItsOwn
<1>5. OpenerServes'
  BY DEF IInv, OpenerServes
<1>6. Handed'
  BY DEF IInv, Handed
<1>7. CachedIsStarted'
  BY DEF IInv, CachedIsStarted, TypeOK
<1>8. StoppingHasCloser'
  BY DEF IInv, StoppingHasCloser, TypeOK, TellsItsOwn
<1>9. QED
  BY <1>1, <1>2, <1>3, <1>4, <1>5, <1>6, <1>7, <1>8 DEF IInv

(* A close takes out whatever session its key has. *)
LEMMA RemoveStep ==
  ASSUME IInv, NEW r \in Requests, Remove(r)
  PROVE  IInv'
<1> USE DEF Remove, threadVars, Goto, Holding, End, AfterClose, Labels, Uninstalled, Unspawned, Keyed
<1>1. TypeOK'
  <2>1. CASE sessions[key[r]] = None
    BY <2>1 DEF IInv, TypeOK
  <2>2. CASE sessions[key[r]] # None
    <3>1. key[r] \in Paths /\ sessions[key[r]] \in Requests
      BY <2>2 DEF IInv, TypeOK, Locals
    <3>2. QED
      BY <2>2, <3>1 DEF IInv, TypeOK
  <2>3. QED
    BY <2>1, <2>2
<1>2. Locals'
  BY DEF IInv, Locals, TypeOK
<1>3. InstalledOnce'
  <2>1. UNCHANGED <<installed, told>>
    OBVIOUS
  <2>2. \A q \in Requests : pc'[q] \in Uninstalled => pc[q] \in Uninstalled
    BY DEF IInv, TypeOK
  <2>3. \A k \in Paths : sessions'[k] # None => sessions'[k] = sessions[k]
    BY DEF IInv, TypeOK
  <2>4. QED
    BY <2>1, <2>2, <2>3 DEF IInv, InstalledOnce
<1>4. TellsItsOwn'
  <2>1. \A q \in Requests : pc'[q] = "tell" => pc[q] = "tell" /\ hold'[q] = hold[q]
    BY DEF IInv, TypeOK
  <2>2. UNCHANGED <<installed, key>> \/ (UNCHANGED installed /\ \A q \in Requests : pc'[q] = "tell" => key'[q] = key[q])
    BY DEF IInv, TypeOK
  <2>3. QED
    BY <2>1, <2>2, ManagerAssumption DEF IInv, TellsItsOwn, TypeOK, Locals
<1>5. OpenerServes'
  BY DEF IInv, OpenerServes, TypeOK
<1>6. Handed'
  BY DEF IInv, Handed, TypeOK, Locals
<1>7. CachedIsStarted'
  BY DEF IInv, CachedIsStarted, TypeOK
<1>8. StoppingHasCloser'
  BY DEF IInv, StoppingHasCloser, TypeOK
<1>9. QED
  BY <1>1, <1>2, <1>3, <1>4, <1>5, <1>6, <1>7, <1>8 DEF IInv

(* A close forgets the aliases of its key. *)
LEMMA ForgetStep ==
  ASSUME IInv, NEW r \in Requests, Forget(r)
  PROVE  IInv'
<1> USE DEF Forget, threadVars, Goto, Holding, End, AfterClose, Labels, Uninstalled, Unspawned, Keyed
<1>1. TypeOK'
  <2>1. aliases' \in [Paths -> Paths \cup {None}]
    BY DEF IInv, TypeOK
  <2>2. CASE kind[r] = "reload"
    BY <2>1, <2>2 DEF IInv, TypeOK
  <2>3. CASE kind[r] # "reload"
    BY <2>1, <2>3 DEF IInv, TypeOK
  <2>4. QED
    BY <2>2, <2>3
<1>2. Locals'
  BY DEF IInv, Locals, TypeOK
<1>3. InstalledOnce'
  BY DEF IInv, InstalledOnce, TypeOK
<1>4. TellsItsOwn'
  BY DEF IInv, TellsItsOwn, TypeOK
<1>5. OpenerServes'
  BY DEF IInv, OpenerServes, TypeOK
<1>6. Handed'
  BY DEF IInv, Handed, TypeOK
<1>7. CachedIsStarted'
  BY DEF IInv, CachedIsStarted
<1>8. StoppingHasCloser'
  BY DEF IInv, StoppingHasCloser, TypeOK
<1>9. QED
  BY <1>1, <1>2, <1>3, <1>4, <1>5, <1>6, <1>7, <1>8 DEF IInv

(* A thread's r2 has started. *)
LEMMA StartSucceedsStep ==
  ASSUME IInv, NEW s \in Requests, StartSucceeds(s)
  PROVE  IInv'
<1> USE DEF StartSucceeds, mapVars, requestVars, Labels, Uninstalled, Unspawned, Keyed
<1>1. TypeOK'
  BY DEF IInv, TypeOK
<1>2. Locals'
  BY DEF IInv, Locals
<1>3. InstalledOnce'
  BY DEF IInv, InstalledOnce
<1>4. TellsItsOwn'
  BY DEF IInv, TellsItsOwn
<1>5. OpenerServes'
  BY DEF IInv, OpenerServes, TypeOK
<1>6. Handed'
  BY DEF IInv, Handed
<1>7. CachedIsStarted'
  BY DEF IInv, CachedIsStarted, TypeOK
<1>8. StoppingHasCloser'
  BY DEF IInv, StoppingHasCloser
<1>9. QED
  BY <1>1, <1>2, <1>3, <1>4, <1>5, <1>6, <1>7, <1>8 DEF IInv

(* One start-up command of a thread has failed. *)
LEMMA StartFailsStep ==
  ASSUME IInv, NEW s \in Requests, StartFails(s)
  PROVE  IInv'
<1> USE DEF StartFails, mapVars, requestVars, Labels, Uninstalled, Unspawned, Keyed
<1>1. TypeOK'
  <2>1. attempt' \in [Requests -> 0 .. StartupCommands]
    BY ManagerAssumption DEF IInv, TypeOK
  <2>2. QED
    BY <2>1 DEF IInv, TypeOK
<1>2. Locals'
  BY DEF IInv, Locals
<1>3. InstalledOnce'
  BY DEF IInv, InstalledOnce
<1>4. TellsItsOwn'
  BY DEF IInv, TellsItsOwn
<1>5. OpenerServes'
  BY DEF IInv, OpenerServes, TypeOK
<1>6. Handed'
  BY DEF IInv, Handed
<1>7. CachedIsStarted'
  BY DEF IInv, CachedIsStarted, TypeOK
<1>8. StoppingHasCloser'
  BY DEF IInv, StoppingHasCloser
<1>9. QED
  BY <1>1, <1>2, <1>3, <1>4, <1>5, <1>6, <1>7, <1>8 DEF IInv

(* A worker ends. *)
LEMMA StopStep ==
  ASSUME IInv, NEW s \in Requests, Stop(s)
  PROVE  IInv'
<1> USE DEF Stop, mapVars, requestVars, Labels, Uninstalled, Unspawned, Keyed
<1>1. TypeOK'
  BY DEF IInv, TypeOK
<1>2. Locals'
  BY DEF IInv, Locals
<1>3. InstalledOnce'
  BY DEF IInv, InstalledOnce
<1>4. TellsItsOwn'
  BY DEF IInv, TellsItsOwn
<1>5. OpenerServes'
  BY DEF IInv, OpenerServes, InstalledOnce, Referenced
<1>6. Handed'
  BY DEF IInv, Handed
<1>7. CachedIsStarted'
  BY DEF IInv, CachedIsStarted, Referenced, Mapped
<1>8. StoppingHasCloser'
  BY DEF IInv, StoppingHasCloser
<1>9. QED
  BY <1>1, <1>2, <1>3, <1>4, <1>5, <1>6, <1>7, <1>8 DEF IInv

(***************************************************************************)
(* The invariant, and what it promises                                     *)
(***************************************************************************)

(* It holds at the start: nothing is cached, spawned or asked for. *)
LEMMA InitInv == Init => IInv
<1> SUFFICES ASSUME Init PROVE IInv
  OBVIOUS
<1> USE ManagerAssumption DEF Init, Labels
<1>1. TypeOK
  BY DEF TypeOK
<1>2. Locals /\ InstalledOnce /\ TellsItsOwn /\ Handed
  BY DEF Locals, InstalledOnce, TellsItsOwn, Handed, Keyed, Uninstalled
<1>3. OpenerServes /\ CachedIsStarted /\ StoppingHasCloser
  BY DEF OpenerServes, CachedIsStarted, StoppingHasCloser, Unspawned, Uninstalled
<1>4. QED
  BY <1>1, <1>2, <1>3 DEF IInv

(* A step that changes nothing keeps it. *)
LEMMA StutterStep ==
  ASSUME IInv, UNCHANGED vars
  PROVE  IInv'
<1> USE DEF vars, mapVars, requestVars, threadVars
<1>1. TypeOK' /\ Locals' /\ InstalledOnce' /\ TellsItsOwn' /\ Handed'
  BY DEF IInv, TypeOK, Locals, InstalledOnce, TellsItsOwn, Handed
<1>2. OpenerServes' /\ CachedIsStarted' /\ StoppingHasCloser'
  BY DEF IInv, OpenerServes, CachedIsStarted, StoppingHasCloser
<1>3. QED
  BY <1>1, <1>2 DEF IInv

(* Every step keeps it. *)
LEMMA NextInv == IInv /\ [Next]_vars => IInv'
<1> SUFFICES ASSUME IInv, [Next]_vars PROVE IInv'
  OBVIOUS
<1>1. ASSUME FilesChange PROVE IInv'
  BY <1>1, FilesChangeStep
<1>2. ASSUME NEW r \in Requests, NEW what \in Kinds, NEW p \in Paths,
             Arrive(r, what, p)
      PROVE  IInv'
  BY <1>2, ArriveStep
<1>3. ASSUME NEW r \in Requests, Ensure(r) PROVE IInv'
  BY <1>3, CanonicalizeStep, LookupStep, SpawnStep, SpawnFailsStep,
     InitialisedStep, InstallStep, LookupRacedStep, RememberStep DEF Ensure
<1>4. ASSUME NEW r \in Requests, Close(r) PROVE IInv'
  BY <1>4, ResolveCloseKeyStep, ResolveAliasStep, FindStep, TellStep,
     RemoveStep, ForgetStep DEF Close
<1>5. ASSUME NEW r \in Requests, Finish(r) PROVE IInv'
  BY <1>5, FinishStep
<1>6. ASSUME NEW r \in Requests, OpenTimesOut(r) PROVE IInv'
  BY <1>6, OpenTimesOutStep
<1>7. ASSUME NEW s \in Requests, Thread(s) PROVE IInv'
  BY <1>7, StartSucceedsStep, StartFailsStep, StopStep DEF Thread
<1>8. ASSUME UNCHANGED vars PROVE IInv'
  BY <1>8, StutterStep
<1>9. QED
  BY <1>1, <1>2, <1>3, <1>4, <1>5, <1>6, <1>7, <1>8 DEF Next, Step

(* Every behaviour of the manager keeps the invariant. *)
LEMMA SpecInv == Spec => []IInv
<1>1. QED
  BY InitInv, NextInv, PTL DEF Spec

(* The manager's maps, its requests and its sessions are well formed,
   whatever is opened, closed and renamed. *)
THEOREM ManagerType == Spec => []TypeOK
<1>1. IInv => TypeOK
  BY DEF IInv
<1>2. QED
  BY <1>1, SpecInv, PTL

(* SessionManager::open hands out the session that won the race to install:
   what a handler works with is cached, or a close has taken it out. *)
THEOREM ManagerInUseIsClosable == Spec => []InUseIsClosable
<1>1. IInv => InUseIsClosable
  BY DEF IInv, Handed, InUseIsClosable
<1>2. QED
  BY <1>1, SpecInv, PTL

(* SessionManager::open caches started sessions only: a timeout, a failed
   start-up or a lost race never leaves another behind. *)
THEOREM ManagerCachedIsStarted == Spec => []CachedIsStarted
<1>1. IInv => CachedIsStarted
  BY DEF IInv
<1>2. QED
  BY <1>1, SpecInv, PTL

(* SessionManager::close removes what it has told to stop: a stopping session
   is never left in the cache for later requests. *)
THEOREM ManagerStoppingHasCloser == Spec => []StoppingHasCloser
<1>1. IInv => StoppingHasCloser
  BY DEF IInv
<1>2. QED
  BY <1>1, SpecInv, PTL

-----------------------------------------------------------------------------
(* Requests and threads only go forward                                    *)

(***************************************************************************)
(* What is behind EveryRequestEnds and NoLeakedWorker: no request and no   *)
(* worker thread ever goes back.  Turn numbers the awaits of a request in  *)
(* the order they can come in, close before ensure_session as r2_open with *)
(* force_reload calls them, and Age the life of a thread.                  *)
(***************************************************************************)
Turn(label) ==
  CASE label = "idle" -> 0
    [] label = "close" -> 1
    [] label = "alias" -> 2
    [] label = "find" -> 3
    [] label = "tell" -> 4
    [] label = "remove" -> 5
    [] label = "forget" -> 6
    [] label = "canonicalize" -> 7
    [] label = "lookup" -> 8
    [] label = "spawn" -> 9
    [] label = "init" -> 10
    [] label = "install" -> 11
    [] label = "raced" -> 12
    [] label = "remember" -> 13
    [] label = "use" -> 14
    [] label = "done" -> 15

Age(s) ==
  CASE worker[s] = "none" -> 0
    [] worker[s] = "starting" -> attempt[s]
    [] worker[s] = "serving" -> StartupCommands + 1
    [] worker[s] = "stopped" -> StartupCommands + 2

(***************************************************************************)
(* Every step but one of the file system takes a request or a thread       *)
(* further and none back.                                                  *)
(***************************************************************************)
OnlyForward ==
  /\ \A r \in Requests : Turn(pc[r]) <= Turn(pc'[r])
  /\ \A s \in Requests : Age(s) <= Age(s)'
  /\ \/ fs' # fs
     \/ \E r \in Requests : Turn(pc[r]) < Turn(pc'[r])
     \/ \E s \in Requests : Age(s) < Age(s)'

(***************************************************************************)
(* A session enters the cache once: an entry is never replaced by another, *)
(* and what try_install puts in has not been there before.                 *)
(***************************************************************************)
EntersOnce ==
  \A k \in Paths : sessions'[k] # sessions[k] =>
    \/ sessions[k] # None /\ sessions'[k] = None
    \/ sessions[k] = None /\ sessions'[k] \in Requests \ installed

(* A request moves on. *)
LEMMA RequestMoves ==
  ASSUME IInv, NEW r \in Requests, NEW label \in Labels, pc' = [pc EXCEPT ![r] = label],
         Turn(pc[r]) < Turn(label), \A s \in Requests : Age(s) <= Age(s)'
  PROVE  OnlyForward
<1>1. pc'[r] = label /\ \A q \in Requests \ {r} : pc'[q] = pc[q]
  BY DEF IInv, TypeOK
<1>2. \A q \in Requests : Turn(pc[q]) \in Nat
  BY DEF IInv, TypeOK, Turn, Labels
<1>3. Turn(label) \in Nat
  BY DEF Turn, Labels
<1> HIDE DEF Turn, Age
<1> QED
  BY <1>1, <1>2, <1>3 DEF OnlyForward

(* Each step of a request takes it to a label that comes later.            *)
LEMMA StepMoves ==
  ASSUME IInv, NEW r \in Requests, Step(r) \/ OpenTimesOut(r), Next
  PROVE  \E label \in Labels : pc' = [pc EXCEPT ![r] = label] /\ Turn(pc[r]) < Turn(label)
<1> USE DEF Goto, Labels, Turn
<1>1. CASE Ensure(r)
  <2>1. CASE Canonicalize(r) \/ Lookup(r) \/ Spawn(r) \/ SpawnFails(r)
    BY <2>1 DEF Canonicalize, Lookup, Spawn, SpawnFails, End
  <2>2. CASE Initialised(r) \/ Install(r) \/ LookupRaced(r) \/ Remember(r)
    BY <2>2 DEF Initialised, Install, LookupRaced, Remember, End
  <2> QED
    BY <1>1, <2>1, <2>2 DEF Ensure
<1>2. CASE Close(r)
  <2>1. CASE ResolveCloseKey(r) \/ ResolveAlias(r) \/ Find(r) \/ Tell(r)
    BY <2>1 DEF ResolveCloseKey, ResolveAlias, Find, Tell
  <2>2. CASE Remove(r) \/ Forget(r)
    BY <2>2 DEF Remove, Forget, AfterClose, End
  <2> QED
    BY <1>2, <2>1, <2>2 DEF Close
<1>3. CASE Finish(r) \/ OpenTimesOut(r)
  BY <1>3 DEF Finish, OpenTimesOut, End
<1> QED
  BY <1>1, <1>2, <1>3 DEF Step

(* Only Spawn does anything to a thread but the thread itself. *)
LEMMA StepLeavesThreads ==
  ASSUME IInv, NEW r \in Requests, Step(r) \/ OpenTimesOut(r)
  PROVE  \/ UNCHANGED <<worker, attempt>>
         \/ Spawn(r)
  BY DEF Step, Ensure, Close, OpenTimesOut, Canonicalize, Lookup, SpawnFails, Initialised,
         Install, LookupRaced, Remember, Finish, ResolveCloseKey, ResolveAlias, Find, Tell,
         Remove, Forget, threadVars

(* Threads nobody touches stay as old as they were.                        *)
LEMMA AgesSame ==
  ASSUME IInv, UNCHANGED <<worker, attempt>>
  PROVE  \A s \in Requests : Age(s) <= Age(s)'
<1> TAKE s \in Requests
<1>1. Age(s) \in Nat
  BY ManagerAssumption DEF IInv, TypeOK, Age
<1>2. Age(s)' = Age(s)
  BY DEF Age
<1> HIDE DEF Age
<1> QED
  BY <1>1, <1>2

(* One thread ages and the others stay as they are. *)
LEMMA ThreadAges ==
  ASSUME IInv, NEW s \in Requests, Thread(s) \/ Spawn(s)
  PROVE  Age(s) < Age(s)' /\ \A q \in Requests : Age(q) <= Age(q)'
<1>1. ASSUME NEW q \in Requests \ {s} PROVE Age(q)' = Age(q) /\ Age(q) \in Nat
  <2>1. worker'[q] = worker[q] /\ attempt'[q] = attempt[q]
    BY DEF Thread, StartSucceeds, StartFails, Stop, Spawn, IInv, TypeOK
  <2> QED
    BY <2>1, ManagerAssumption DEF IInv, TypeOK, Age
<1>2. Age(s) < Age(s)' /\ Age(s) \in Nat /\ Age(s)' \in Nat
  <2>0. /\ attempt[s] \in 0 .. StartupCommands /\ StartupCommands \in Nat \ {0}
        /\ worker[s] \in {"none", "starting", "serving", "stopped"}
        /\ worker \in [Requests -> {"none", "starting", "serving", "stopped"}]
        /\ attempt \in [Requests -> 0 .. StartupCommands]
    BY ManagerAssumption DEF IInv, TypeOK
  <2>1. CASE StartSucceeds(s)
    BY <2>0, <2>1 DEF StartSucceeds, Age
  <2>2. CASE StartFails(s)
    BY <2>0, <2>2 DEF StartFails, Age
  <2>3. CASE Stop(s)
    BY <2>0, <2>3 DEF Stop, Age
  <2>4. CASE Spawn(s)
    <3>1. worker[s] = "none"
      BY <2>4 DEF Spawn, IInv, OpenerServes, Unspawned, Uninstalled, Labels
    <3> QED
      BY <2>0, <2>4, <3>1 DEF Spawn, Age
  <2> QED
    BY <2>1, <2>2, <2>3, <2>4 DEF Thread
<1> HIDE DEF Age
<1> QED
  BY <1>1, <1>2

(* So does each step of the manager, whoever takes it.                    *)
LEMMA NextGoesForward ==
  ASSUME IInv, [Next]_vars, vars' # vars
  PROVE  OnlyForward
<1>0. Next
  OBVIOUS
<1>1. ASSUME UNCHANGED pc PROVE \A r \in Requests : Turn(pc[r]) <= Turn(pc'[r])
  <2>1. \A r \in Requests : Turn(pc[r]) \in Nat
    BY DEF IInv, TypeOK, Turn, Labels
  <2> HIDE DEF Turn
  <2> QED
    BY <1>1, <2>1
<1>2. CASE FilesChange
  BY <1>1, <1>2, AgesSame DEF FilesChange, threadVars, OnlyForward
<1>3. ASSUME NEW r \in Requests, NEW what \in Kinds, NEW p \in Paths, Arrive(r, what, p)
      PROVE  OnlyForward
  <2>1. PICK label \in Labels : pc' = [pc EXCEPT ![r] = label] /\ Turn(pc[r]) < Turn(label)
    <3> DEFINE first == IF what \in {"reload", "close"} THEN "close" ELSE "canonicalize"
    <3>1. pc[r] = "idle" /\ pc' = [pc EXCEPT ![r] = first]
      BY <1>3 DEF Arrive, Goto
    <3>2. first \in Labels /\ Turn("idle") < Turn(first)
      BY DEF Labels, Turn
    <3> QED
      BY <3>1, <3>2
  <2>2. \A s \in Requests : Age(s) <= Age(s)'
    BY <1>3, AgesSame DEF Arrive, threadVars
  <2> QED
    BY <2>1, <2>2, RequestMoves
<1>4. ASSUME NEW r \in Requests, Step(r) \/ OpenTimesOut(r)
      PROVE  OnlyForward
  <2>1. PICK label \in Labels : pc' = [pc EXCEPT ![r] = label] /\ Turn(pc[r]) < Turn(label)
    BY <1>0, <1>4, StepMoves
  <2>2. \A s \in Requests : Age(s) <= Age(s)'
    BY <1>4, StepLeavesThreads, AgesSame, ThreadAges
  <2> QED
    BY <2>1, <2>2, RequestMoves
<1>5. ASSUME NEW s \in Requests, Thread(s)
      PROVE  OnlyForward
  <2>1. UNCHANGED pc
    BY <1>5 DEF Thread, StartSucceeds, StartFails, Stop
  <2> QED
    BY <1>1, <1>5, <2>1, ThreadAges DEF OnlyForward
<1> QED
  BY <1>0, <1>2, <1>3, <1>4, <1>5 DEF Next

(* Only try_install puts a session in, and only its own request's.         *)
LEMMA NextEntersOnce ==
  ASSUME IInv, [Next]_vars
  PROVE  EntersOnce
<1>1. ASSUME NEW r \in Requests, Install(r)
      PROVE  EntersOnce
  <2>1. r \notin installed /\ key[r] \in Paths
    BY <1>1 DEF Install, IInv, InstalledOnce, Uninstalled, Labels, Locals, Keyed
  <2> QED
    BY <1>1, <2>1 DEF Install, EntersOnce, IInv, TypeOK
<1>2. ASSUME NEW r \in Requests, Remove(r)
      PROVE  EntersOnce
  BY <1>2 DEF Remove, EntersOnce, IInv, TypeOK
<1>3. ASSUME UNCHANGED sessions
      PROVE  EntersOnce
  BY <1>3 DEF EntersOnce
<1>4. \/ UNCHANGED sessions
      \/ \E r \in Requests : Install(r) \/ Remove(r)
  BY DEF Next, Step, Ensure, Close, OpenTimesOut, Canonicalize, Lookup, Spawn, SpawnFails,
         Initialised, LookupRaced, Remember, Finish, ResolveCloseKey, ResolveAlias, Find,
         Tell, Forget, Arrive, FilesChange, Thread, StartSucceeds, StartFails, Stop,
         mapVars, vars
<1> QED
  BY <1>1, <1>2, <1>3, <1>4

(* A request or a worker thread takes one step more and never one back,    *)
(* and the file system apart no step is in vain: with StartupCommands and  *)
(* the awaits of the code bounded, a request cannot go on for ever.        *)
THEOREM ManagerGoesForward == Spec => [][OnlyForward]_vars
<1>1. IInv /\ [Next]_vars => [OnlyForward]_vars
  BY NextGoesForward
<1> QED
  BY <1>1, SpecInv, PTL DEF Spec

(* try_install never overwrites an entry, and a session closed, raced out  *)
(* or given up never comes back into the cache.                            *)
THEOREM ManagerEntersOnce == Spec => [][EntersOnce]_vars
<1>1. IInv /\ [Next]_vars => EntersOnce
  BY NextEntersOnce
<1> QED
  BY <1>1, SpecInv, PTL DEF Spec

=============================================================================
