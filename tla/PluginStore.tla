----------------------------- MODULE PluginStore -----------------------------
(***************************************************************************)
(* The plugin store on disk (plugins/store.py, plugins/remote.py): one     *)
(* GitHub plugin, its package in the install directory, its record in      *)
(* memory and in the state file, and the generation that is active.        *)
(*                                                                         *)
(* An installation is staged in a hidden directory, and an update moves    *)
(* the old package aside, moves the staged one in its place and only then  *)
(* writes the state file.  These are single calls of one event-loop step;  *)
(* they are steps here because the process may die between two of them.    *)
(* Everything before them and after them awaits, and may be cancelled.     *)
(* The package may be edited at any moment: a watcher reloads what changed. *)
(***************************************************************************)
EXTENDS Integers

CONSTANTS
    Clients,        \* management requests, one operation each
    Watcher,        \* the watcher task, and the start of the store
    NoHolder,       \* nobody holds _lock and runtime_lock
    None,           \* no package, no record, no generation
    Settings,       \* plugin options; Off is the disabled plugin
    Off,
    MaxCommit,      \* the GitHub ref points to commits 1..MaxCommit
    MaxEdits,       \* bound of the local edits
    MaxCrashes,     \* bound of the deaths of the process
    MayCancel       \* the requests that may be cancelled

ASSUME StoreAssumption ==
    /\ NoHolder \notin Clients \cup {Watcher}
    /\ Watcher \notin Clients
    /\ Off \in Settings
    /\ MaxCommit \in Nat \ {0}
    /\ MaxEdits \in Nat
    /\ MaxCrashes \in Nat
    /\ MayCancel \subseteq Clients

(* A package: the commit it was fetched from, as .gateway-source.json says, *)
(* and what was edited since.  Its fingerprint is the package itself.      *)
Packages == [commit : 1..MaxCommit, text : 0..1]
Records == [options : Settings, commit : 1..MaxCommit]
Contents == Packages \cup {None}
Entries == Records \cup {None}
Kinds == {"install", "update", "put", "delete", "reload"}

ASSUME NoneAssumption == None \notin Packages \cup Records

Stages == {"idle", "begun", "loading", "preparing", "aside", "replaced",
           "saved", "closing", "cleanup"}
Requests == [stage : {"idle", "read", "ready", "done"}, kind : Kinds,
             options : Settings, revision : Nat, saw : Entries]
Operations == [stage : Stages, staged : Contents, backup : Contents,
               scanned : Contents, loaded : Contents]

VARIABLES
    up,         \* the process runs
    record,     \* PluginManager._records[id]
    saved,      \* the record in the state file
    revision,   \* PluginManager.revision
    active,     \* _active[id]: what it was loaded from
    attempted,  \* _attempted[id]: the fingerprint
    error,      \* _errors has an entry
    package,    \* install_directory/id
    remote,     \* the commit the ref points to
    holder,     \* who has the locks
    op,         \* the locals of the operation that has the locks
    client,     \* the requests
    edits, crashes,
    torn,       \* ghost: an interrupted operation left package and record
                \* as they were between two of its steps
    missed,     \* ghost: fingerprints noted as attempted for which no load
                \* of that content was ever finished
    strays      \* ghost: hidden directories nobody will remove

memoryVars == <<record, revision, active, attempted, error>>
diskVars == <<saved, package>>
clientVars == <<holder, client>>
worldVars == <<remote, edits, crashes>>
ghosts == <<torn, missed, strays>>
vars == <<up, memoryVars, diskVars, op, clientVars, worldVars, ghosts>>

NoOp == [stage |-> "idle", staged |-> None, backup |-> None,
         scanned |-> None, loaded |-> None]

Kind == IF holder \in Clients THEN client[holder].kind ELSE "reload"
Fetches == Kind \in {"install", "update"}
Wanted == IF Kind = "reload" THEN record.options ELSE client[holder].options
Loads == Kind # "delete" /\ Wanted # Off

To(stage) == op' = [op EXCEPT !.stage = stage]

(* The locks are given back.                                               *)
Ends ==
    /\ holder' = NoHolder
    /\ op' = NoOp
    /\ client' = IF holder \in Clients
                 THEN [client EXCEPT ![holder].stage = "done"] ELSE client

-----------------------------------------------------------------------------
(* A request before it has the locks.                                      *)

(* GET: the revision and the record a client acts upon, under _lock.       *)
Read(c) ==
    /\ up /\ holder = NoHolder
    /\ client[c].stage = "idle"
    /\ \E k \in Kinds : \E o \in IF k \in {"install", "put"} THEN Settings ELSE {Off} :
          client' = [client EXCEPT ![c] = [stage |-> "read", kind |-> k,
              options |-> o, revision |-> revision, saw |-> record]]
    /\ UNCHANGED <<up, memoryVars, diskVars, op, holder, worldVars, ghosts>>

(* update_github: the saved options and ref are looked up before the lock. *)
Lookup(c) ==
    /\ up
    /\ client[c].stage = "read" /\ client[c].kind = "update"
    /\ client' = IF record = None THEN [client EXCEPT ![c].stage = "done"]
                 ELSE [client EXCEPT ![c].stage = "ready",
                                     ![c].options = record.options]
    /\ UNCHANGED <<up, memoryVars, diskVars, op, holder, worldVars, ghosts>>

(* Mutant: the revision a request was sent with is not compared.           *)
AcquireUnchecked(c) ==
    /\ up /\ holder = NoHolder
    /\ client[c].stage = IF client[c].kind = "update" THEN "ready" ELSE "read"
    /\ holder' = c
    /\ op' = [NoOp EXCEPT !.stage = "begun"]
    /\ UNCHANGED <<up, client, memoryVars, diskVars, worldVars, ghosts>>

(* The locks are taken and the revision compared (_check_revision).        *)
Acquire(c) ==
    /\ up /\ holder = NoHolder
    /\ client[c].stage = IF client[c].kind = "update" THEN "ready" ELSE "read"
    /\ IF client[c].revision = revision
       THEN holder' = c /\ op' = [NoOp EXCEPT !.stage = "begun"] /\ UNCHANGED client
       ELSE client' = [client EXCEPT ![c].stage = "done"] /\ UNCHANGED <<holder, op>>
    /\ UNCHANGED <<up, memoryVars, diskVars, worldVars, ghosts>>

-----------------------------------------------------------------------------
(* The operations, up to the new generation.                               *)

(* Not found, or in conflict: nothing was touched.                         *)
Refused ==
    \/ Kind = "install" /\ (record # None \/ package # None)
    \/ Kind \in {"delete", "reload"} /\ record = None
    \/ Kind = "put" /\ package = None /\ (Wanted # Off \/ record = None)

(* _reload notes the fingerprint before it loads.                          *)
BeginReload ==
    IF package = None
    THEN /\ error' = TRUE
         /\ Ends
         /\ UNCHANGED attempted
    ELSE /\ attempted' = package
         /\ op' = [op EXCEPT !.stage = "loading", !.scanned = package]
         /\ UNCHANGED <<error, clientVars>>

(* The directory is scanned (for an installation: after the fetch, which   *)
(* may fail) and the request checked against it.                           *)
Begin ==
    /\ up /\ op.stage = "begun"
    /\ \/ /\ Refused
          /\ Ends
          /\ UNCHANGED <<revision, attempted, error>>
       \/ /\ Fetches
          /\ Ends
          /\ UNCHANGED <<revision, attempted, error>>
       \/ /\ ~Refused
          /\ Kind = "reload"
          /\ IF record.options = Off
             THEN Ends /\ revision' = revision + 1 /\ UNCHANGED <<attempted, error>>
             ELSE BeginReload /\ UNCHANGED revision
       \/ /\ ~Refused
          /\ Kind # "reload"
          /\ LET new == IF Fetches THEN [commit |-> remote, text |-> 0] ELSE package
             IN  op' = [op EXCEPT !.stage = IF Loads THEN "loading" ELSE "preparing",
                                  !.staged = IF Fetches THEN new ELSE None,
                                  !.scanned = new]
          /\ UNCHANGED <<revision, attempted, error, clientVars>>
    /\ UNCHANGED <<up, record, active, diskVars, worldVars, ghosts>>

(* load_plugin reads the package again, as it is now.                      *)
Source == IF Fetches THEN op.staged ELSE package

Load ==
    /\ up /\ op.stage = "loading" /\ Source # None
    /\ op' = [op EXCEPT !.stage = "preparing", !.loaded = Source]
    /\ UNCHANGED <<up, memoryVars, diskVars, clientVars, worldVars, ghosts>>

(* The plugin cannot be loaded, or the providers cannot be prepared with   *)
(* it.  (Nothing is loaded when a plugin is disabled: the preparation may  *)
(* still fail.)                                                            *)
LoadFails ==
    /\ up /\ op.stage \in {"loading", "preparing"}
    /\ To("cleanup")
    /\ UNCHANGED <<up, memoryVars, diskVars, clientVars, worldVars, ghosts>>

-----------------------------------------------------------------------------
(* The package is replaced and the record written: one event-loop step     *)
(* without an await, in which the process may die.                         *)

SetAside ==
    /\ up /\ op.stage = "preparing" /\ Fetches
    /\ op' = [op EXCEPT !.stage = "aside", !.backup = package]
    /\ package' = None
    /\ UNCHANGED <<up, memoryVars, saved, clientVars, worldVars, ghosts>>

Replace ==
    /\ up /\ op.stage = "aside"
    /\ op' = [op EXCEPT !.stage = "replaced", !.staged = None]
    /\ package' = op.staged
    /\ UNCHANGED <<up, memoryVars, saved, clientVars, worldVars, ghosts>>

(* An installation records where it came from, a change of the options     *)
(* keeps that, or takes it over from a package found on disk.              *)
NewRecord ==
    IF Kind = "delete" THEN None
    ELSE [options |-> Wanted,
          commit |-> IF Fetches \/ record = None THEN op.scanned.commit
                     ELSE record.commit]

(* _persist.  If the state file cannot be written, all is undone.          *)
Persist ==
    /\ up
    /\ op.stage = IF Fetches THEN "replaced" ELSE "preparing"
    /\ Kind # "reload"
    /\ \/ saved' = NewRecord /\ To("saved")
       \/ To("cleanup") /\ UNCHANGED saved
    /\ UNCHANGED <<up, memoryVars, package, clientVars, worldVars, ghosts>>

(* What is known to be loaded when op.loaded is made active.               *)
NowMissed ==
    IF op.loaded = None THEN missed
    ELSE (missed \ {op.loaded}) \cup ({op.scanned} \ {op.loaded})

(* The record and the generation are published; closing the old one        *)
(* awaits.  A change of the options notes its package before that.         *)
Commit ==
    /\ up /\ op.stage = "saved"
    /\ record' = saved
    /\ revision' = revision + 1
    /\ active' = op.loaded
    /\ op' = [op EXCEPT !.stage = "closing", !.loaded = active]
    /\ error' = (error /\ Kind # "put")
    /\ attempted' = IF Kind = "put" /\ op.scanned # None THEN op.scanned ELSE attempted
    /\ missed' = NowMissed
    /\ UNCHANGED <<up, diskVars, clientVars, worldVars, torn, strays>>

(* A reload publishes the generation only.                                 *)
PublishReload ==
    /\ up /\ op.stage = "preparing" /\ Kind = "reload"
    /\ active' = op.loaded
    /\ op' = [op EXCEPT !.stage = "closing", !.loaded = active]
    /\ missed' = NowMissed
    /\ UNCHANGED <<up, record, revision, attempted, error, diskVars,
                   clientVars, worldVars, torn, strays>>

(* Mutant: an installation notes what is on disk when it ends, not what it *)
(* loaded.                                                                 *)
FinishNotingCurrent ==
    /\ up /\ op.stage = "closing"
    /\ error' = FALSE
    /\ attempted' = CASE Kind = "delete" -> None
                      [] Fetches -> package
                      [] OTHER -> attempted
    /\ package' = IF Kind = "delete" THEN None ELSE package
    /\ revision' = IF Kind = "reload" /\ holder # Watcher THEN revision + 1 ELSE revision
    /\ torn' = (torn /\ Kind \in {"put", "reload"})
    /\ Ends
    /\ UNCHANGED <<up, record, active, saved, worldVars, missed, strays>>

(* The old generation is closed; an installation notes what it loaded and  *)
(* drops the old package, an uninstallation removes the package.           *)
Finish ==
    /\ up /\ op.stage = "closing"
    /\ error' = FALSE
    /\ attempted' = CASE Kind = "delete" -> None
                      [] Fetches -> op.scanned
                      [] OTHER -> attempted
    /\ package' = IF Kind = "delete" THEN None ELSE package
    /\ revision' = IF Kind = "reload" /\ holder # Watcher THEN revision + 1 ELSE revision
    /\ torn' = (torn /\ Kind \in {"put", "reload"})
    /\ Ends
    /\ UNCHANGED <<up, record, active, saved, worldVars, missed, strays>>

-----------------------------------------------------------------------------
(* Failure and cancellation.                                               *)

(* Mutant: the old package is restored only over a missing one.            *)
CleanupKeepingNew ==
    /\ up /\ op.stage = "cleanup"
    /\ error' = (error \/ Kind = "reload")
    /\ package' = IF Fetches /\ package = None THEN op.backup ELSE package
    /\ Ends
    /\ UNCHANGED <<up, record, revision, active, attempted, saved, worldVars, ghosts>>

(* The generation that was loaded is closed, what was staged is removed,   *)
(* and a package that was already replaced is put back.                    *)
Cleanup ==
    /\ up /\ op.stage = "cleanup"
    /\ error' = (error \/ Kind = "reload")
    /\ package' = IF Fetches /\ op.staged = None THEN op.backup ELSE package
    /\ Ends
    /\ UNCHANGED <<up, record, revision, active, attempted, saved, worldVars, ghosts>>

(* Package and record agree.                                               *)
Matches(r, p) ==
    IF r = None THEN p = None ELSE p # None /\ p.commit = r.commit

(* A reload that is given up has noted a fingerprint it never loaded.      *)
GivenUp == IF Kind = "reload" THEN missed \cup ({op.scanned} \ {None}) ELSE missed

(* Cancelled before anything was moved: only an installation closes what   *)
(* it loaded.                                                              *)
Cancel ==
    /\ up /\ holder \in MayCancel
    /\ op.stage \in {"begun", "loading", "preparing"}
    /\ IF Fetches /\ op.loaded # None THEN To("cleanup") /\ UNCHANGED clientVars ELSE Ends
    /\ missed' = GivenUp
    /\ UNCHANGED <<up, memoryVars, diskVars, worldVars, torn, strays>>

(* Cancelled while it closes a generation: what comes after that is not    *)
(* done.  (A finally drops the backup of an installation that is           *)
(* committed; one that failed leaves what it staged and set aside.  What   *)
(* is noted stays that of the generation an installation has replaced.)    *)
CancelClose ==
    /\ up /\ holder \in MayCancel
    /\ op.stage \in {"closing", "cleanup"} /\ op.loaded # None
    /\ strays' = IF op.stage = "cleanup"
                 THEN strays \cup ({op.staged, op.backup} \ {None}) ELSE strays
    /\ torn' = (torn \/ ~Matches(saved, package))
    /\ missed' = IF op.stage = "cleanup" THEN GivenUp
                 ELSE IF Fetches THEN missed \cup ({attempted} \ {None}) ELSE missed
    /\ Ends
    /\ UNCHANGED <<up, memoryVars, diskVars, worldVars>>

-----------------------------------------------------------------------------
(* The process, its watcher, and the world.                                *)

Crash ==
    /\ up /\ crashes < MaxCrashes
    /\ crashes' = crashes + 1
    /\ up' = FALSE
    /\ holder' = NoHolder
    /\ op' = NoOp
    /\ client' = [c \in Clients |-> IF c = holder \/ client[c].stage = "ready"
                     THEN [client[c] EXCEPT !.stage = "done"] ELSE client[c]]
    /\ strays' = strays \cup ({op.staged, op.backup} \ {None})
    /\ torn' = (torn \/ ~Matches(saved, package))
    /\ UNCHANGED <<memoryVars, diskVars, remote, edits, missed>>

(* __init__ and start: the state file is read, and an enabled plugin       *)
(* loaded before requests are served.                                      *)
Restart ==
    /\ ~up
    /\ up' = TRUE
    /\ record' = saved
    /\ revision' = revision + 1
    /\ active' = None
    /\ LET enabled == saved # None /\ saved.options # Off
           found == enabled /\ package # None
       IN  /\ error' = (enabled /\ package = None)
           /\ attempted' = IF found THEN package ELSE None
           /\ holder' = IF found THEN Watcher ELSE NoHolder
           /\ op' = IF found THEN [NoOp EXCEPT !.stage = "loading", !.scanned = package]
                    ELSE NoOp
    /\ missed' = {}
    /\ UNCHANGED <<client, diskVars, worldVars, torn, strays>>

(* _watch: a turn that changes something.                                  *)
Watch ==
    /\ up /\ holder = NoHolder
    /\ record # None /\ record.options # Off
    /\ \/ /\ package = None /\ ~error
          /\ error' = TRUE
          /\ UNCHANGED <<attempted, holder, op>>
       \/ /\ package # None /\ attempted # package
          /\ attempted' = package
          /\ holder' = Watcher
          /\ op' = [NoOp EXCEPT !.stage = "loading", !.scanned = package]
          /\ UNCHANGED error
       \/ /\ package # None /\ attempted = package /\ active = package /\ error
          /\ error' = FALSE
          /\ UNCHANGED <<attempted, holder, op>>
    /\ UNCHANGED <<up, record, revision, active, client, diskVars, worldVars, ghosts>>

(* A developer edits the package, or takes an edit back.                   *)
Edit ==
    /\ package # None /\ edits < MaxEdits
    /\ edits' = edits + 1
    /\ package' = [package EXCEPT !.text = 1 - @]
    /\ UNCHANGED <<up, memoryVars, saved, op, clientVars, remote, crashes, ghosts>>

(* The ref moves on.                                                       *)
Push ==
    /\ remote < MaxCommit
    /\ remote' = remote + 1
    /\ UNCHANGED <<up, memoryVars, diskVars, op, clientVars, edits, crashes, ghosts>>

-----------------------------------------------------------------------------
(* The specification.                                                      *)

NotAsked == [stage |-> "idle", kind |-> "install", options |-> Off,
             revision |-> 0, saw |-> None]

(* Nothing installed, or a package that is and is running.                 *)
Init ==
    /\ up = TRUE
    /\ record \in {None} \cup [options : Settings, commit : {1}]
    /\ saved = record
    /\ package = IF record = None THEN None ELSE [commit |-> 1, text |-> 0]
    /\ active = IF record # None /\ record.options # Off THEN package ELSE None
    /\ attempted = package
    /\ error = FALSE
    /\ revision = 0
    /\ remote = 1
    /\ holder = NoHolder /\ op = NoOp
    /\ client = [c \in Clients |-> NotAsked]
    /\ edits = 0 /\ crashes = 0
    /\ torn = FALSE /\ missed = {} /\ strays = {}

Work ==
    \/ Begin \/ Load \/ LoadFails
    \/ SetAside \/ Replace \/ Persist \/ Commit \/ PublishReload
    \/ Finish \/ Cleanup

Next ==
    \/ \E c \in Clients : Read(c) \/ Lookup(c) \/ Acquire(c)
    \/ Work
    \/ Cancel \/ CancelClose
    \/ Crash \/ Restart \/ Watch
    \/ Edit \/ Push

Spec == Init /\ [][Next]_vars

(* Every await of an operation is bounded (git, loading, closing), and the *)
(* watcher polls.  Nobody has to start the process again.                  *)
FairSpec == Spec /\ WF_vars(Work) /\ WF_vars(Watch)

-----------------------------------------------------------------------------
(* Properties.                                                             *)

TypeOK ==
    /\ up \in BOOLEAN /\ error \in BOOLEAN /\ torn \in BOOLEAN
    /\ record \in Entries /\ saved \in Entries
    /\ package \in Contents /\ active \in Contents /\ attempted \in Contents
    /\ missed \subseteq Packages /\ strays \subseteq Packages
    /\ remote \in 1..MaxCommit /\ revision \in Nat
    /\ client \in [Clients -> Requests]
    /\ holder \in Clients \cup {Watcher, NoHolder}
    /\ op \in Operations
    /\ (holder = NoHolder) <=> (op.stage = "idle")

(* What an operation holds while it is at each of its steps: an            *)
(* installation stages what it scanned and has it moved in place before    *)
(* the record is written, and nothing is loaded that was not scanned.      *)
OperationSound ==
    /\ ~up => op.stage = "idle"
    /\ op.stage \in {"idle", "begun"} => op = [NoOp EXCEPT !.stage = op.stage]
    /\ op.stage \in {"loading", "preparing"} =>
          /\ op.backup = None
          /\ Fetches <=> op.staged # None
    /\ op.stage \in {"loading", "preparing", "aside"} /\ Fetches =>
          op.scanned # None /\ op.staged # None /\ op.staged.commit = op.scanned.commit
    /\ op.stage \in {"loading", "preparing"} /\ Kind = "put" /\ record = None =>
          op.scanned # None /\ package # None /\ package.commit = op.scanned.commit
    /\ op.stage = "loading" => op.scanned # None
    /\ op.stage # "closing" /\ op.loaded # None => op.scanned # None
    /\ op.stage \in {"aside", "replaced"} => Fetches
    /\ op.stage = "replaced" =>
          op.scanned # None /\ package # None /\ package.commit = op.scanned.commit
    /\ op.stage \in {"replaced", "saved", "closing"} => op.staged = None
    /\ op.stage = "saved" => Kind # "reload"
    /\ op.stage \in {"saved", "closing"} =>
          /\ Kind = "delete" => saved = None
          /\ Fetches => saved # None /\ package # None /\ package.commit = saved.commit

(* The package as it was before the operation: what a failure puts back.   *)
Original ==
    IF \/ op.stage \in {"aside", "replaced"}
       \/ op.stage = "cleanup" /\ Fetches /\ op.staged = None
    THEN op.backup ELSE package

(* The original is the recorded package, unless an interrupted operation   *)
(* left it otherwise or a deletion has dropped the record; then a copy of  *)
(* the recorded one was left behind.  Memory is the state file, but for    *)
(* the moment between the two writes.                                      *)
OriginalKept ==
    /\ saved # None => \E x \in ({Original} \cup strays) \ {None} : x.commit = saved.commit
    /\ \/ torn
       \/ op.stage \in {"saved", "closing"} /\ Kind = "delete"
       \/ Matches(saved, Original)
    /\ up /\ op.stage # "saved" => record = saved

(* A request whose revision is the current one saw the current record, and *)
(* the one that has the locks is such a request until it commits.          *)
RequestsCurrent ==
    /\ \A c \in Clients : client[c].stage \in {"read", "ready"} =>
          /\ client[c].revision <= revision
          /\ client[c].revision = revision =>
                /\ client[c].saw = record
                /\ client[c].stage = "ready" =>
                      record # None /\ client[c].options = record.options
    /\ holder \in Clients =>
          /\ client[holder].stage = IF Kind = "update" THEN "ready" ELSE "read"
          /\ op.stage # "closing" => client[holder].revision = revision

(* The package the state file records is on disk at every moment, in its   *)
(* place or in a hidden directory, wherever the process dies.              *)
RecordedOnDisk ==
    saved # None =>
        \E x \in ({package, op.staged, op.backup} \cup strays) \ {None} :
            x.commit = saved.commit

(* Between operations the package is the one that is recorded, whether the *)
(* last one succeeded, failed at any of its steps or was cancelled before  *)
(* it moved anything; and memory is what the state file says.              *)
RecordedInPlace ==
    up /\ holder = NoHolder =>
        record = saved /\ (torn \/ Matches(record, package))

(* Installing, updating and failing to do so keep package, record and      *)
(* state file together (install_github).                                   *)
PackagesKept ==
    /\ TypeOK
    /\ OperationSound
    /\ OriginalKept
    /\ RequestsCurrent
    /\ RecordedOnDisk
    /\ RecordedInPlace

(* A change is made over the record its sender saw: an update that looked  *)
(* the options up before it had the lock writes no older ones back         *)
(* (update_github, _check_revision).                                       *)
ChangesSeenRecord ==
    [][saved' # saved =>
          /\ client[holder].saw = record
          /\ Kind = "update" => saved'.options = record.options]_vars

(* A package that is edited, updated or repaired is loaded in the end, or  *)
(* the store shows an error for this very content, unless it is one that   *)
(* was noted as attempted without having been loaded (_watch).             *)
EditsPickedUp ==
    []<>(up /\ record # None /\ record.options # Off
            /\ package # None /\ package \notin missed
         => active = package \/ (error /\ attempted = package))
=============================================================================
