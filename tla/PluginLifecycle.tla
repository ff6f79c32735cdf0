--------------------------- MODULE PluginLifecycle ---------------------------
(***************************************************************************)
(* Plugin generations while the gateway runs: publication by the plugin    *)
(* store (plugins/store.py), leases by requests (plugins/runtime.py), pins *)
(* by accepted tasks (services.py) and closing (plugins/loader.py).        *)
(*                                                                         *)
(* A generation is one loaded instance of a plugin.  A mutation (install,  *)
(* configure, reload, uninstall, or a turn of the watcher) loads a new     *)
(* one, prepares the providers, publishes both in one event-loop step and  *)
(* retires the old one, which is closed by whoever leaves it last: the     *)
(* mutation itself if nobody uses it, else a request or a finished task.   *)
(* Closing awaits the plugin's code and is bounded by a timeout.           *)
(*                                                                         *)
(* At shutdown the services stop their monitors and release the pins that  *)
(* are left, and the store closes every generation, leased or not: calls   *)
(* of MCP sessions may still run then, as the watcher may.                 *)
(***************************************************************************)
EXTENDS Integers, FiniteSets

CONSTANTS
    Plugins,        \* plugin ids
    Gens,           \* generations that may ever be loaded
    NoGen,          \* no generation
    PluginOf,       \* the plugin of a generation
    Started,        \* the generations that are loaded at the start
    Requests,       \* requests that lease plugins
    Matching,       \* the plugins a request leases (a create leases all)
    Creates,        \* the requests that may have a task accepted
    Mutations,      \* mutations of the store
    Target,         \* the plugin of a mutation
    NoMutation,     \* nobody has the lock
    MayCancel,      \* requests and mutations that may be cancelled again
                    \* while they release, load or close
    Late            \* MCP calls and turns of the watcher: what may still
                    \* run when the gateway shuts down

ASSUME PluginAssumption ==
    /\ NoGen \notin Gens
    /\ NoMutation \notin Mutations
    /\ PluginOf \in [Gens -> Plugins]
    /\ Started \subseteq Gens
    /\ \A g, h \in Started : PluginOf[g] = PluginOf[h] => g = h
    /\ Matching \in [Requests -> SUBSET Plugins]
    /\ Creates \subseteq Requests
    /\ Target \in [Mutations -> Plugins]
    /\ MayCancel \subseteq Requests \cup Mutations
    /\ Late \subseteq Requests \cup Mutations
    /\ Late \cap Mutations \subseteq MayCancel
    /\ IsFiniteSet(Requests)

VARIABLES
    active,     \* PluginManager._active
    waiting,    \* PluginManager._retired
    retired,    \* LoadedPlugin.retired
    state,      \* LoadedPlugin: unused, loaded, closing (closed is set), closed
    users,      \* LoadedPlugin.users
    rstage,     \* where a request is
    lease,      \* the generations it has still to release
    leaving,    \* the one it is closing
    pin,        \* _plugin_pins: the generation of the request's task
    pstage,     \* the task: none, running, released (its release is
                \* scheduled), closing, done; cut (its monitor was stopped),
                \* stranded (no monitor took it)
    mstage,     \* where a mutation is
    lock,       \* the mutation that has _lock and runtime_lock
    new,        \* the generation it loads
    old,        \* the generation it retires, or is closing
    shutdown,   \* "up", or where the shutdown is
    dying       \* the generation it is closing

generationVars == <<active, waiting, retired, state, users>>
requestVars == <<rstage, lease, leaving>>
taskVars == <<pin, pstage>>
mutationVars == <<mstage, lock, new, old>>
shutdownVars == <<shutdown, dying>>
vars == <<generationVars, requestVars, taskVars, mutationVars, shutdownVars>>

-----------------------------------------------------------------------------
(* Release.                                                                *)

Dropped(X) == [g \in Gens |-> IF g \in X THEN users[g] - 1 ELSE users[g]]

(* Leaving g closes it, and awaits that.                                   *)
Closes(g) == g \in retired /\ users[g] = 1 /\ state[g] = "loaded"

(* PluginManager.lease and lease_extensions, finally: the generations are  *)
(* left one after the other, up to the first that has to be closed.  (The  *)
(* order, that of the installations, is left open.)                        *)
Leave(r) ==
    /\ rstage[r] = "releasing"
    /\ LET closers == {g \in lease[r] : Closes(g)}
       IN  \/ /\ closers = {}
              /\ users' = Dropped(lease[r])
              /\ lease' = [lease EXCEPT ![r] = {}]
              /\ rstage' = [rstage EXCEPT ![r] = "done"]
              /\ UNCHANGED <<state, leaving>>
           \/ \E g \in closers, X \in SUBSET (lease[r] \ closers) :
              /\ users' = Dropped(X \cup {g})
              /\ lease' = [lease EXCEPT ![r] = @ \ (X \cup {g})]
              /\ leaving' = [leaving EXCEPT ![r] = g]
              /\ state' = [state EXCEPT ![g] = "closing"]
              /\ rstage' = [rstage EXCEPT ![r] = "closing"]
    /\ UNCHANGED <<active, waiting, retired, taskVars, mutationVars, shutdownVars>>

(* The generation the request was closing is closed, and the loop goes on. *)
Left(r) ==
    /\ rstage[r] = "closing"
    /\ state' = [state EXCEPT ![leaving[r]] = "closed"]
    /\ waiting' = waiting \ {leaving[r]}
    /\ leaving' = [leaving EXCEPT ![r] = NoGen]
    /\ rstage' = [rstage EXCEPT ![r] = "releasing"]
    /\ UNCHANGED <<active, retired, users, lease, taskVars, mutationVars, shutdownVars>>

-----------------------------------------------------------------------------
(* The steps of a request.                                                 *)

(* Reading _active and counting is one step.                               *)
Lease(r) ==
    /\ rstage[r] = "idle"
    /\ shutdown = "up"
    /\ lease' = [lease EXCEPT ![r] = {active[p] : p \in Matching[r]} \ {NoGen}]
    /\ users' = [g \in Gens |-> users[g] + IF g \in lease'[r] THEN 1 ELSE 0]
    /\ rstage' = [rstage EXCEPT ![r] = "using"]
    /\ UNCHANGED <<active, waiting, retired, state, leaving, taskVars, mutationVars, shutdownVars>>

(* _start_monitor: a task of a plugin's provider was accepted.  The plan,  *)
(* made under the lease, names providers of leased generations only.  The  *)
(* pin is taken before a supervisor that is closed refuses the task.       *)
Accept(r) ==
    /\ r \in Creates
    /\ rstage[r] = "using"
    /\ pstage[r] = "none"
    /\ shutdown # "pins"
    /\ \E g \in lease[r] :
          /\ pin' = [pin EXCEPT ![r] = g]
          /\ users' = [users EXCEPT ![g] = @ + 1]
    /\ pstage' = [pstage EXCEPT ![r] = CASE shutdown = "up" -> "running"
                                         [] shutdown = "stopping" -> "cut"
                                         [] OTHER -> "stranded"]
    /\ UNCHANGED <<active, waiting, retired, state, requestVars, mutationVars, shutdownVars>>

(* The request is answered, fails, or is cancelled.                        *)
EndUse(r) ==
    /\ rstage[r] = "using"
    /\ rstage' = [rstage EXCEPT ![r] = "releasing"]
    /\ UNCHANGED <<generationVars, lease, leaving, taskVars, mutationVars, shutdownVars>>

(* A cancellation while the request closes a generation: aclose's finally  *)
(* runs, the error leaves the loop, and what comes after is not released.  *)
CancelRelease(r) ==
    /\ r \in MayCancel
    /\ rstage[r] = "closing"
    /\ state' = [state EXCEPT ![leaving[r]] = "closed"]
    /\ leaving' = [leaving EXCEPT ![r] = NoGen]
    /\ rstage' = [rstage EXCEPT ![r] = "done"]
    /\ UNCHANGED <<active, waiting, retired, users, lease, taskVars, mutationVars, shutdownVars>>

-----------------------------------------------------------------------------
(* The steps of an accepted task.                                          *)

(* on_terminal: the release is scheduled as a task of its own.             *)
Terminal(r) ==
    /\ pstage[r] = "running"
    /\ pstage' = [pstage EXCEPT ![r] = "released"]
    /\ UNCHANGED <<generationVars, requestVars, pin, mutationVars, shutdownVars>>

(* Mutant: the task's release does not close a retired generation.         *)
UnpinLeavingOpen(r) ==
    /\ pstage[r] = "released"
    /\ users' = Dropped({pin[r]})
    /\ pstage' = [pstage EXCEPT ![r] = "done"]
    /\ UNCHANGED <<active, waiting, retired, state, pin, requestVars, mutationVars, shutdownVars>>

(* PluginExtensions.release                                                *)
Unpin(r) ==
    /\ pstage[r] = "released"
    /\ users' = Dropped({pin[r]})
    /\ IF Closes(pin[r])
       THEN /\ state' = [state EXCEPT ![pin[r]] = "closing"]
            /\ pstage' = [pstage EXCEPT ![r] = "closing"]
       ELSE /\ pstage' = [pstage EXCEPT ![r] = "done"]
            /\ UNCHANGED state
    /\ UNCHANGED <<active, waiting, retired, pin, requestVars, mutationVars, shutdownVars>>

Unpinned(r) ==
    /\ pstage[r] = "closing"
    /\ state' = [state EXCEPT ![pin[r]] = "closed"]
    /\ waiting' = waiting \ {pin[r]}
    /\ pstage' = [pstage EXCEPT ![r] = "done"]
    /\ UNCHANGED <<active, retired, users, pin, requestVars, mutationVars, shutdownVars>>

-----------------------------------------------------------------------------
(* The steps of a mutation, from its lock to its end.                      *)

Unlock(m) ==
    /\ mstage' = [mstage EXCEPT ![m] = "done"]
    /\ lock' = NoMutation

(* The revision and the package are in order: a new generation is loaded,  *)
(* or none, to disable or uninstall the plugin.                            *)
Begin(m) ==
    /\ mstage[m] = "idle"
    /\ lock = NoMutation
    /\ shutdown = "up"
    /\ lock' = m
    /\ \/ \E g \in Gens :
             /\ state[g] = "unused"
             /\ PluginOf[g] = Target[m]
             /\ new' = [new EXCEPT ![m] = g]
             /\ mstage' = [mstage EXCEPT ![m] = "loading"]
       \/ /\ active[Target[m]] # NoGen
          /\ mstage' = [mstage EXCEPT ![m] = "preparing"]
          /\ UNCHANGED new
    /\ UNCHANGED <<generationVars, requestVars, taskVars, old, shutdownVars>>

(* load_plugin returns, or cleans up after itself and raises.              *)
Load(m) ==
    /\ mstage[m] = "loading"
    /\ \/ /\ state' = [state EXCEPT ![new[m]] = "loaded"]
          /\ mstage' = [mstage EXCEPT ![m] = "preparing"]
          /\ UNCHANGED lock
       \/ /\ state' = [state EXCEPT ![new[m]] = "closed"]
          /\ Unlock(m)
    /\ UNCHANGED <<active, waiting, retired, users, requestVars, taskVars, new, old, shutdownVars>>

(* Mutant: the old generation is closed whether it is used or not.         *)
PublishClosing(m) ==
    LET previous == active[Target[m]]
    IN  /\ mstage[m] = "preparing"
        /\ active' = [active EXCEPT ![Target[m]] = new[m]]
        /\ IF previous = NoGen
           THEN Unlock(m) /\ UNCHANGED <<retired, state, old>>
           ELSE /\ retired' = retired \cup {previous}
                /\ state' = [state EXCEPT ![previous] = "closing"]
                /\ old' = [old EXCEPT ![m] = previous]
                /\ mstage' = [mstage EXCEPT ![m] = "closing"]
                /\ UNCHANGED lock
        /\ UNCHANGED <<waiting, users, requestVars, taskVars, new, shutdownVars>>

(* Mutant: the old generation is dropped without being retired.            *)
PublishForgetting(m) ==
    /\ mstage[m] = "preparing"
    /\ active' = [active EXCEPT ![Target[m]] = new[m]]
    /\ Unlock(m)
    /\ UNCHANGED <<waiting, retired, state, users, requestVars, taskVars, new, old, shutdownVars>>

(* _publish and _retire: the providers are prepared and the records are    *)
(* written; requests see the new generation from here on.                  *)
Publish(m) ==
    LET previous == active[Target[m]]
    IN  /\ mstage[m] = "preparing"
        /\ active' = [active EXCEPT ![Target[m]] = new[m]]
        /\ IF previous = NoGen
           THEN Unlock(m) /\ UNCHANGED <<waiting, retired, state, old>>
           ELSE /\ retired' = retired \cup {previous}
                /\ IF users[previous] > 0
                   THEN /\ waiting' = waiting \cup {previous}
                        /\ Unlock(m)
                        /\ UNCHANGED <<state, old>>
                   ELSE /\ state' = [state EXCEPT ![previous] = "closing"]
                        /\ old' = [old EXCEPT ![m] = previous]
                        /\ mstage' = [mstage EXCEPT ![m] = "closing"]
                        /\ UNCHANGED <<waiting, lock>>
        /\ UNCHANGED <<users, requestVars, taskVars, new, shutdownVars>>

(* Mutant: the new generation is made active before the records are        *)
(* written, which fails.                                                   *)
PrepareFailsActive(m) ==
    /\ mstage[m] = "preparing"
    /\ active' = [active EXCEPT ![Target[m]] = new[m]]
    /\ IF new[m] = NoGen
       THEN Unlock(m) /\ UNCHANGED <<state, old>>
       ELSE /\ state' = [state EXCEPT ![new[m]] = "closing"]
            /\ old' = [old EXCEPT ![m] = new[m]]
            /\ mstage' = [mstage EXCEPT ![m] = "closing"]
            /\ UNCHANGED lock
    /\ UNCHANGED <<waiting, retired, users, requestVars, taskVars, new, shutdownVars>>

(* The providers cannot be built, or the records cannot be written: the    *)
(* new generation is closed and the old one stays.                         *)
PrepareFails(m) ==
    /\ mstage[m] = "preparing"
    /\ IF new[m] = NoGen
       THEN Unlock(m) /\ UNCHANGED <<state, old>>
       ELSE /\ state' = [state EXCEPT ![new[m]] = "closing"]
            /\ old' = [old EXCEPT ![m] = new[m]]
            /\ mstage' = [mstage EXCEPT ![m] = "closing"]
            /\ UNCHANGED lock
    /\ UNCHANGED <<active, waiting, retired, users, requestVars, taskVars, new, shutdownVars>>

(* The end of aclose, which bounds each wait and swallows every error.     *)
Closed(m) ==
    /\ mstage[m] = "closing"
    /\ state' = [state EXCEPT ![old[m]] = "closed"]
    /\ Unlock(m)
    /\ UNCHANGED <<active, waiting, retired, users, requestVars, taskVars, new, old, shutdownVars>>

(* A cancelled mutation gives up its locks.  A generation that is being    *)
(* loaded or closed is cleaned up; one that is loaded already is not, as   *)
(* the handlers of put and _reload that would close it catch Exception     *)
(* only.  (install_github closes it in a finally, which is PrepareFails.)  *)
CancelMutation(m) ==
    /\ m \in MayCancel
    /\ mstage[m] \in {"loading", "preparing", "closing"}
    /\ state' = CASE mstage[m] = "loading"   -> [state EXCEPT ![new[m]] = "closed"]
                  [] mstage[m] = "closing"   -> [state EXCEPT ![old[m]] = "closed"]
                  [] mstage[m] = "preparing" -> state
    /\ Unlock(m)
    /\ UNCHANGED <<active, waiting, retired, users, requestVars, taskVars, new, old, shutdownVars>>

-----------------------------------------------------------------------------
(* Shutdown: the end of the lifespan (server/app.py).                      *)

(* HTTP requests have been served; the supervisors are closed, which stops *)
(* every monitor.  A pin whose release is scheduled has left the table.    *)
StopMonitors ==
    /\ shutdown = "up"
    /\ \A r \in Requests \ Late : rstage[r] \in {"idle", "done"}
    /\ \A m \in Mutations \ Late : mstage[m] \in {"idle", "done"}
    /\ shutdown' = "stopping"
    /\ pstage' = [r \in Requests |-> IF pstage[r] = "running" THEN "cut" ELSE pstage[r]]
    /\ UNCHANGED <<generationVars, requestVars, pin, mutationVars, dying>>

Pinned(X, g) == Cardinality({r \in X : pin[r] = g})

(* Releasing the pins X closes g.                                          *)
EndsWith(X, g) ==
    g \in retired /\ state[g] = "loaded" /\ Pinned(X, g) = users[g] /\ users[g] > 0

Unpins(X) ==
    /\ users' = [g \in Gens |-> users[g] - Pinned(X, g)]
    /\ pstage' = [r \in Requests |-> IF r \in X THEN "done" ELSE pstage[r]]

(* aclose of the services: the pins in the table are released one after    *)
(* the other, up to the first whose generation has to be closed.           *)
ReleasePins ==
    /\ shutdown \in {"stopping", "pins"}
    /\ LET cut == {r \in Requests : pstage[r] = "cut"}
       IN  \/ /\ \A g \in Gens : ~EndsWith(cut, g)
              /\ Unpins(cut)
              /\ shutdown' = "manager"
              /\ UNCHANGED <<state, dying>>
           \/ \E r \in cut, X \in SUBSET cut :
              /\ r \in X
              /\ EndsWith(X, pin[r])
              /\ \A g \in Gens \ {pin[r]} : ~EndsWith(X, g)
              /\ Unpins(X)
              /\ state' = [state EXCEPT ![pin[r]] = "closing"]
              /\ dying' = pin[r]
              /\ shutdown' = "closing pin"
    /\ UNCHANGED <<active, waiting, retired, pin, requestVars, mutationVars>>

(* The loop over the table goes on.  A pin that was added to it while it   *)
(* awaited makes the iteration raise, and the lifespan ends there.         *)
PinClosed ==
    /\ shutdown = "closing pin"
    /\ state' = [state EXCEPT ![dying] = "closed"]
    /\ waiting' = waiting \ {dying}
    /\ dying' = NoGen
    /\ shutdown' = IF \E r \in Requests : pstage[r] = "stranded" THEN "broken" ELSE "pins"
    /\ UNCHANGED <<active, retired, users, requestVars, taskVars, mutationVars>>

(* PluginManager.aclose: once the watcher has ended, cancelled if it was   *)
(* in the middle of a turn, all generations are closed in turn.            *)
CloseGeneration ==
    /\ shutdown = "manager" /\ lock = NoMutation /\ dying = NoGen
    /\ \E g \in waiting \cup {active[p] : p \in Plugins} :
          /\ g # NoGen /\ state[g] = "loaded"
          /\ state' = [state EXCEPT ![g] = "closing"]
          /\ dying' = g
    /\ UNCHANGED <<active, waiting, retired, users, requestVars, taskVars,
                   mutationVars, shutdown>>

GenerationClosed ==
    /\ shutdown = "manager" /\ dying # NoGen
    /\ state' = [state EXCEPT ![dying] = "closed"]
    /\ dying' = NoGen
    /\ UNCHANGED <<active, waiting, retired, users, requestVars, taskVars,
                   mutationVars, shutdown>>

AllClosed ==
    /\ shutdown = "manager" /\ lock = NoMutation /\ dying = NoGen
    /\ \A g \in waiting \cup {active[p] : p \in Plugins} :
          g # NoGen => state[g] # "loaded"
    /\ active' = [p \in Plugins |-> NoGen]
    /\ waiting' = {}
    /\ shutdown' = "down"
    /\ UNCHANGED <<retired, state, users, requestVars, taskVars, mutationVars, dying>>

-----------------------------------------------------------------------------
(* start() has loaded the plugins that are enabled.                        *)
Init ==
    /\ active = [p \in Plugins |->
                    IF \E g \in Started : PluginOf[g] = p
                    THEN CHOOSE g \in Started : PluginOf[g] = p ELSE NoGen]
    /\ waiting = {}
    /\ retired = {}
    /\ state = [g \in Gens |-> IF g \in Started THEN "loaded" ELSE "unused"]
    /\ users = [g \in Gens |-> 0]
    /\ rstage = [r \in Requests |-> "idle"]
    /\ lease = [r \in Requests |-> {}]
    /\ leaving = [r \in Requests |-> NoGen]
    /\ pin = [r \in Requests |-> NoGen]
    /\ pstage = [r \in Requests |-> "none"]
    /\ mstage = [m \in Mutations |-> "idle"]
    /\ lock = NoMutation
    /\ new = [m \in Mutations |-> NoGen]
    /\ old = [m \in Mutations |-> NoGen]
    /\ shutdown = "up"
    /\ dying = NoGen

RequestEnds(r) == EndUse(r) \/ Leave(r) \/ Left(r)

TaskEnds(r) == Terminal(r) \/ Unpin(r) \/ Unpinned(r)

MutationEnds(m) == Load(m) \/ Publish(m) \/ PrepareFails(m) \/ Closed(m)

ShutdownGoesOn ==
    ReleasePins \/ PinClosed \/ CloseGeneration \/ GenerationClosed \/ AllClosed

Next ==
    \/ \E r \in Requests :
          Lease(r) \/ Accept(r) \/ RequestEnds(r) \/ TaskEnds(r) \/ CancelRelease(r)
    \/ \E m \in Mutations : Begin(m) \/ MutationEnds(m) \/ CancelMutation(m)
    \/ StopMonitors \/ ShutdownGoesOn

Spec == Init /\ [][Next]_vars

(* Requests, tasks and the plugins' own code end.                          *)
FairSpec ==
    /\ Spec
    /\ \A r \in Requests : WF_vars(RequestEnds(r)) /\ WF_vars(TaskEnds(r))
    /\ \A m \in Mutations : WF_vars(MutationEnds(m))
    /\ WF_vars(ShutdownGoesOn)

-----------------------------------------------------------------------------
(* Properties.                                                             *)

GenStates == {"unused", "loaded", "closing", "closed"}
TaskStages == {"none", "running", "released", "closing", "done", "cut", "stranded"}

(* The variables have their types.                                         *)
TypeOK ==
    /\ active \in [Plugins -> Gens \cup {NoGen}]
    /\ waiting \subseteq Gens
    /\ retired \subseteq Gens
    /\ state \in [Gens -> GenStates]
    /\ users \in [Gens -> Nat]
    /\ rstage \in [Requests -> {"idle", "using", "releasing", "closing", "done"}]
    /\ lease \in [Requests -> SUBSET Gens]
    /\ leaving \in [Requests -> Gens \cup {NoGen}]
    /\ pin \in [Requests -> Gens \cup {NoGen}]
    /\ pstage \in [Requests -> TaskStages]
    /\ mstage \in [Mutations -> {"idle", "loading", "preparing", "closing", "done"}]
    /\ lock \in Mutations \cup {NoMutation}
    /\ new \in [Mutations -> Gens \cup {NoGen}]
    /\ old \in [Mutations -> Gens \cup {NoGen}]
    /\ shutdown \in {"up", "stopping", "closing pin", "pins", "manager", "down", "broken"}
    /\ dying \in Gens \cup {NoGen}

(* Who counts as a user of g: a request that runs or has g to release      *)
(* still, and a task that is not finished or whose release is scheduled.   *)
Lessees(g) == {r \in Requests : g \in lease[r] /\ rstage[r] # "done"}
Pinners(g) ==
    {r \in Requests : pin[r] = g /\ pstage[r] \in {"running", "released", "cut", "stranded"}}

(* Who was cancelled while closing another generation, and never gives g   *)
(* up: the code leaks these.                                               *)
LeftBehind(g) == {r \in MayCancel \cap Requests : rstage[r] = "done" /\ g \in lease[r]}

(* Each use of g: a request and the task it created are two.               *)
Uses(g) ==
    ({"request"} \X (Lessees(g) \cup LeftBehind(g))) \cup ({"task"} \X Pinners(g))

(* A generation is never closed while a request that leased it runs or a   *)
(* task accepted by one of its providers is not finished, until the store  *)
(* itself is closed.                                                       *)
NeverClosedInUse ==
    \A g \in Gens :
        state[g] \in {"closing", "closed"} /\ shutdown \notin {"manager", "down"} =>
            /\ \A r \in Requests : ~(rstage[r] = "using" /\ g \in lease[r])
            /\ Pinners(g) = {}

(* Loaded by a mutation that was cancelled before it published: leaked too.*)
Abandoned(g) ==
    g \notin retired /\ \E m \in MayCancel \cap Mutations : mstage[m] = "done" /\ new[m] = g

(* The counter of a generation is the number of those who use it, and of   *)
(* the requests that left it behind.                                       *)
UsersExact == \A g \in Gens : users[g] = Cardinality(Uses(g))

(* What requests are given is a loaded generation of the right plugin that *)
(* nobody has retired.                                                     *)
ActiveUsable ==
    \A p \in Plugins :
        active[p] # NoGen =>
            /\ PluginOf[active[p]] = p
            /\ state[active[p]] = "loaded" \/ shutdown = "manager"
            /\ active[p] \notin retired

(* Where requests and tasks are, and the generation each of them closes.   *)
UsersSound ==
    \A r \in Requests :
        /\ rstage[r] = "idle" => lease[r] = {}
        /\ rstage[r] = "done" /\ lease[r] # {} => r \in MayCancel
        /\ rstage[r] = "closing" =>
              leaving[r] \in Gens /\ state[leaving[r]] \in {"closing", "closed"}
        /\ pstage[r] # "none" => pin[r] \in Gens
        /\ pstage[r] = "closing" => state[pin[r]] \in {"closing", "closed"}

(* One mutation at a time is between its lock and its end; what it loads   *)
(* is nobody's yet.                                                        *)
MutationsSound ==
    /\ \A m \in Mutations :
          /\ mstage[m] \in {"loading", "preparing", "closing"} <=> lock = m
          /\ mstage[m] = "idle" => new[m] = NoGen
          /\ mstage[m] = "loading" => new[m] \in Gens /\ state[new[m]] = "unused"
          /\ mstage[m] = "preparing" /\ new[m] # NoGen => state[new[m]] = "loaded"
          /\ mstage[m] \in {"loading", "preparing"} /\ new[m] # NoGen =>
                /\ PluginOf[new[m]] = Target[m]
                /\ users[new[m]] = 0 /\ new[m] \notin retired
                /\ \A p \in Plugins : active[p] # new[m]
          /\ mstage[m] = "closing" =>
                old[m] \in Gens /\ state[old[m]] \in {"closing", "closed"}
    /\ dying # NoGen => state[dying] \in {"closing", "closed"}
    /\ shutdown = "closing pin" => dying # NoGen
    /\ shutdown = "down" => lock = NoMutation /\ waiting = {}

(* Nothing is used before it is loaded, or once it is closed, and what is  *)
(* retired and loaded has users and waits for the last of them.            *)
GenerationsSound ==
    \A g \in Gens :
        /\ state[g] = "unused" => users[g] = 0 /\ g \notin retired
        /\ state[g] \in {"closing", "closed"} /\ shutdown \notin {"manager", "down"} =>
              users[g] = 0
        /\ g \in retired /\ state[g] = "loaded" => users[g] > 0
        /\ state[g] = "loaded" =>
              \/ \E p \in Plugins : active[p] = g
              \/ lock # NoMutation /\ mstage[lock] = "preparing" /\ new[lock] = g
              \/ g \in waiting /\ g \in retired
              \/ Abandoned(g)

(* The types, the counters, and that what is active can be used.           *)
PluginInv ==
    /\ TypeOK
    /\ UsersSound
    /\ MutationsSound
    /\ GenerationsSound
    /\ UsersExact
    /\ ActiveUsable

(* Every loaded generation is active, or about to be, or is retired and    *)
(* still has a user who will close it: none is leaked, but for those that  *)
(* a cancellation leaves behind or abandons.  The shutdown closes all but  *)
(* the abandoned ones.                                                     *)
LoadedAccountedFor ==
    \A g \in Gens :
        state[g] = "loaded" =>
            \/ \E p \in Plugins : active[p] = g
            \/ lock # NoMutation /\ new[lock] = g
            \/ g \in waiting /\ Lessees(g) \cup Pinners(g) # {}
            \/ LeftBehind(g) # {} /\ shutdown # "down"
            \/ Abandoned(g)

(* A retired generation is closed, unless a cancelled request left it or   *)
(* the shutdown broke; and a shutdown ends.                                *)
RetiredClose ==
    /\ \A g \in Gens :
          g \in retired ~> (state[g] = "closed" \/ LeftBehind(g) # {} \/ shutdown = "broken")
    /\ (shutdown # "up") ~> (shutdown \in {"down", "broken"})
=============================================================================
