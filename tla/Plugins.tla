------------------------------ MODULE Plugins -------------------------------
(***************************************************************************)
(* Plugins (internal/plugin, mcp/handlers/plugin.go): the manager with its *)
(* map of loaded plugins, what it leaves on disk (the directory of a       *)
(* plugin, its record in the install registry, its row of the store and    *)
(* the cron jobs it declared), the processes it starts and the goroutine   *)
(* that watches each of them, and the start of the server, which puts the  *)
(* plugins back.  A method of the manager holds its lock from beginning to *)
(* end; a call that installs or upgrades makes several of them.            *)
(***************************************************************************)
EXTENDS Integers, Sequences, FiniteSets

CONSTANTS
    Plugins,      \* their names
    Running,      \* those of the types mcp and service, which run a process;
                  \* wasm, http and native plugins are the others
    Hooking,      \* secret, guard and audit plugins: they are called back
    Secret,       \* the secret providers among them
    Scheduling,   \* plugins that declare a cron job
    Installers,   \* concurrent calls that install or upgrade
    MaxRestarts,  \* maxRestartAttempts: 3 in the code
    MaxProcs,     \* bound: processes started by one run of the server
    MaxCalls,     \* bound: calls, failures of the store and restarts
    NoPlugin

ASSUME PluginsAssumption ==
    /\ Running \subseteq Plugins
    /\ Hooking \subseteq Plugins /\ Secret \subseteq Hooking
    /\ Scheduling \subseteq Plugins /\ NoPlugin \notin Plugins
    /\ MaxRestarts \in Nat /\ MaxProcs \in Nat /\ MaxCalls \in Nat

VARIABLES
    server,    \* down, restoring (what RestoreEnabledPlugins has left) or up
    restore,   \* the rows RestoreEnabledPlugins has not come to yet
    mem,       \* the map of loaded plugins
    dir,       \* the plugins with a directory in the plugin directory
    rec,       \* the install registry
    saved,     \* the rows of the table of plugins
    jobs,      \* the cron jobs of plugins, <<plugin, number>>
    procs,     \* the processes this server has started
    install,   \* per installer: where its call is
    calls,     \* how many calls, failures and restarts there were
    wanted,    \* what the calls have made of each: on, off, or unsure when
               \* the store failed to write that it is off
    strayed    \* plugins with jobs that the registry does not know

pluginVars == <<server, restore, mem, dir, rec, saved, jobs, procs, install,
                calls, wanted, strayed>>

Absent == [status |-> "absent", tools |-> "none", proc |-> 0, hooked |-> FALSE]
Loaded == [status |-> "loaded", tools |-> "placeholder", proc |-> 0,
           hooked |-> FALSE]
NoRecord == [there |-> FALSE, path |-> FALSE, jobs |-> {}]
NoInstall == [pc |-> "idle", plugin |-> NoPlugin, enabled |-> FALSE,
              path |-> FALSE]

Spend == calls < MaxCalls /\ calls' = calls + 1

PluginsInit ==
    /\ server = "down" /\ restore = {}
    /\ mem = [p \in Plugins |-> Absent]
    /\ dir = {} /\ rec = [p \in Plugins |-> NoRecord]
    /\ saved = [p \in Plugins |-> "none"]
    /\ jobs = {} /\ procs = <<>>
    /\ install = [c \in Installers |-> NoInstall]
    /\ calls = 0
    /\ wanted = [p \in Plugins |-> "off"] /\ strayed = {}

-----------------------------------------------------------------------------
(* The processes.                                                          *)

Started(p) == [plugin |-> p, alive |-> TRUE, restarts |-> 0, watched |-> TRUE]

\* Subprocess.Stop: the monitor is not told.
StopProc(ps, i) == IF i = 0 THEN ps ELSE [ps EXCEPT ![i].alive = FALSE]

ProcCrashes(i) ==
    /\ procs[i].alive /\ Spend
    /\ procs' = [procs EXCEPT ![i].alive = FALSE]
    /\ UNCHANGED <<server, restore, mem, dir, rec, saved, jobs, install,
                   wanted, strayed>>

\* Subprocess.monitor: whatever made the process exit, it is started again
\* after a while, unless it was too often, or the start fails.
Monitor(i) ==
    /\ ~procs[i].alive /\ procs[i].watched
    /\ \E works \in BOOLEAN :
         LET again == works /\ procs[i].restarts < MaxRestarts IN
         procs' = [procs EXCEPT ![i].alive = again, ![i].watched = again,
                                ![i].restarts = @ + 1]
    /\ UNCHANGED <<server, restore, mem, dir, rec, saved, jobs, install,
                   calls, wanted, strayed>>

-----------------------------------------------------------------------------
(* The methods of the manager: each gives the new map, registry, rows and  *)
(* jobs.                                                                   *)

\* LoadPlugin.
LoadPlugin(p) == mem' = [mem EXCEPT ![p] = Loaded]

\* createPluginResources: the ids replace those of an earlier time, and are
\* kept nowhere when the plugin has no record.
NewJob(p) ==
    <<p, CHOOSE n \in 1 .. Cardinality(jobs) + 1 :
            /\ <<p, n>> \notin jobs
            /\ \A m \in 1 .. n - 1 : <<p, m>> \in jobs>>

CreateResources(p) ==
    \/ UNCHANGED <<jobs, rec, strayed>>
    \/ /\ p \in Scheduling
       /\ jobs' = jobs \cup {NewJob(p)}
       /\ rec' = IF rec[p].there THEN [rec EXCEPT ![p].jobs = {NewJob(p)}]
                 ELSE rec
       /\ strayed' = IF ~rec[p].there \/ rec[p].jobs # {}
                       THEN strayed \cup {p} ELSE strayed

\* A secret provider is called back through the client of its process; guard
\* and audit plugins are registered whatever their type.
CalledBack(p) == p \in Hooking /\ (p \in Secret => p \in Running)

\* EnablePlugin, startMCPRuntime and startServiceRuntime: a process and proxies
\* for its tools.
Runs(p) ==
    /\ p \in Running /\ Len(procs) < MaxProcs
    /\ procs' = Append(procs, Started(p))
    /\ mem' = [mem EXCEPT ![p] =
                 [status |-> "enabled", tools |-> "proxy",
                  proc |-> Len(procs) + 1, hooked |-> CalledBack(p)]]

\* EnablePlugin, any other type: only the status, over the placeholders.
OnlyMarked(p) ==
    /\ p \notin Running
    /\ mem' = [mem EXCEPT ![p] =
                 [status |-> "enabled", tools |-> "placeholder", proc |-> 0,
                  hooked |-> CalledBack(p)]]
    /\ UNCHANGED procs

EnableWorks(p) ==
    /\ Runs(p) \/ OnlyMarked(p)
    /\ saved' \in {saved, [saved EXCEPT ![p] = "enabled"]}
    /\ CreateResources(p)

\* The process does not start, or does not shake hands and is stopped.
EnableFails(p) ==
    /\ p \in Running
    /\ mem' = [mem EXCEPT ![p].status = "error"]
    /\ \/ procs' = procs
       \/ /\ Len(procs) < MaxProcs
          /\ procs' = Append(procs, [Started(p) EXCEPT !.alive = FALSE])
    /\ UNCHANGED <<rec, saved, jobs, strayed>>

\* HasSecrets: an active provider that holds secrets, and is registered to be
\* asked, cannot be removed.
MayBlock(p) == p \in Secret /\ mem[p].hooked

\* Mutant of Disabled: the tools of the process stay.
DisabledProxies(p) ==
    [Loaded EXCEPT !.status = "disabled", !.tools = mem[p].tools]

\* DisablePlugin: what is left in the map.
Disabled(p) == [Loaded EXCEPT !.status = "disabled"]

\* Mutant of Off: only EnablePlugin writes the row.
OffKept(p, row) ==
    /\ UNCHANGED saved
    /\ wanted' = [wanted EXCEPT ![p] = "off"]

\* The row of a plugin that is disabled or unloaded; a failure is only logged.
Off(p, row) ==
    \/ /\ saved' = [saved EXCEPT ![p] = row]
       /\ wanted' = [wanted EXCEPT ![p] = "off"]
    \/ /\ UNCHANGED saved
       /\ wanted' = [wanted EXCEPT ![p] = "unsure"]

\* DisablePlugin; the cron jobs stay.
DisablePlugin(p) ==
    /\ procs' = StopProc(procs, mem[p].proc)
    /\ mem' = [mem EXCEPT ![p] = Disabled(p)]
    /\ Off(p, "disabled")
    /\ UNCHANGED <<rec, jobs, strayed, dir>>

\* GetCreatedResources.
Tracked(p) == rec[p].jobs

\* cleanupPluginResources: a job whose deletion fails stays.
CleanupResources(p) ==
    \E kept \in SUBSET Tracked(p) :
        /\ jobs' = (jobs \ Tracked(p)) \cup kept
        /\ strayed' = IF kept # {} THEN strayed \cup {p} ELSE strayed

\* UnloadPlugin: the record, the row and the directory go with it.
UnloadPlugin(p) ==
    /\ CleanupResources(p)
    /\ procs' = StopProc(procs, mem[p].proc)
    /\ mem' = [mem EXCEPT ![p] = Absent]
    /\ rec' = [rec EXCEPT ![p] = NoRecord]
    /\ Off(p, "none")
    /\ dir' = dir \ {p}

\* UnloadPlugin when it is refused: the cron jobs are gone already.
UnloadRefused(p) ==
    /\ MayBlock(p) /\ CleanupResources(p)
    /\ rec' = [rec EXCEPT ![p].jobs = {}]
    /\ UNCHANGED <<procs, mem, saved, dir, wanted>>

-----------------------------------------------------------------------------
(* The server.                                                             *)

\* Discover and LoadFromRegistry: what has a directory here, or a path in the
\* registry, is loaded, unless its manifest cannot be read any more.
ServerStarts(broken) ==
    /\ server = "down"
    /\ server' = "restoring"
    /\ mem' = [p \in Plugins |-> IF (p \in dir \/ rec[p].path) /\ p \notin broken
                                   THEN Loaded ELSE Absent]
    /\ restore' = {p \in Plugins : saved[p] = "enabled"}
    /\ UNCHANGED <<dir, rec, saved, jobs, procs, install, calls, wanted, strayed>>

\* RestoreEnabledPlugins, one row: a plugin that is not loaded is skipped.
Restore(p) ==
    /\ server = "restoring" /\ p \in restore
    /\ restore' = restore \ {p}
    /\ IF mem[p].status = "absent"
         THEN UNCHANGED <<mem, rec, saved, jobs, procs, strayed>>
         ELSE EnableWorks(p) \/ EnableFails(p)
    /\ UNCHANGED <<server, dir, install, calls, wanted>>

Serves ==
    /\ server = "restoring" /\ restore = {}
    /\ server' = "up"
    /\ UNCHANGED <<restore, mem, dir, rec, saved, jobs, procs, install, calls,
                   wanted, strayed>>

\* The server ends, in order or not; its plugins end with their pipes.
ServerEnds ==
    /\ server # "down" /\ Spend
    /\ server' = "down" /\ restore' = {}
    /\ mem' = [p \in Plugins |-> Absent]
    /\ procs' = <<>>
    /\ install' = [c \in Installers |-> NoInstall]
    /\ UNCHANGED <<dir, rec, saved, jobs, wanted, strayed>>

-----------------------------------------------------------------------------
(* The calls.                                                              *)

Enable(p) ==
    /\ server = "up" /\ Spend
    /\ mem[p].status \notin {"absent", "enabled"}
    /\ \/ EnableWorks(p) /\ wanted' = [wanted EXCEPT ![p] = "on"]
       \/ EnableFails(p) /\ UNCHANGED wanted
    /\ UNCHANGED <<server, restore, dir, install>>

\* A provider that holds secrets is not disabled: nothing changes then.
Disable(p) ==
    /\ server = "up" /\ Spend
    /\ mem[p].status = "enabled"
    /\ DisablePlugin(p)
    /\ UNCHANGED <<server, restore, install>>

Uninstall(p) ==
    /\ server = "up" /\ Spend
    /\ mem[p].status # "absent"
    /\ UnloadPlugin(p) \/ UnloadRefused(p)
    /\ UNCHANGED <<server, restore, install>>

\* install_plugin and upgrade_plugin fetch the new version: from a path, from
\* a URL, or as a release, which is unpacked into the plugin directory.
Fetched(c, p, kind) ==
    /\ install' = [install EXCEPT ![c].pc = "load", ![c].plugin = p,
                                  ![c].path = kind = "path"]
    /\ dir' = IF kind = "release" THEN dir \cup {p} ELSE dir

InstallEnds(c) == install' = [install EXCEPT ![c] = NoInstall]

Install(c, p) ==
    /\ server = "up" /\ Spend /\ install[c] = NoInstall
    /\ \E kind \in {"path", "url", "release"} : Fetched(c, p, kind)
    /\ UNCHANGED <<server, restore, mem, rec, saved, jobs, procs, wanted, strayed>>

\* A plugin that is loaded already is refused, and so may be its manifest.
InstallLoad(c) ==
    LET p == install[c].plugin IN
    /\ install[c].pc = "load"
    /\ \/ /\ mem[p].status = "absent" /\ LoadPlugin(p)
          /\ install' = [install EXCEPT ![c].pc = "register"]
       \/ UNCHANGED mem /\ InstallEnds(c)
    /\ UNCHANGED <<server, restore, dir, rec, saved, jobs, procs, calls,
                   wanted, strayed>>

\* RegisterInstall replaces the record, with the ids of the jobs in it.
InstallRegister(c) ==
    LET p == install[c].plugin IN
    /\ install[c].pc = "register"
    /\ rec' = [rec EXCEPT ![p] = [there |-> TRUE, path |-> install[c].path,
                                  jobs |-> {}]]
    /\ strayed' = IF rec[p].jobs # {} THEN strayed \cup {p} ELSE strayed
    /\ IF install[c].enabled
         THEN install' = [install EXCEPT ![c].pc = "enable"]
         ELSE InstallEnds(c)
    /\ UNCHANGED <<server, restore, mem, dir, saved, jobs, procs, calls, wanted>>

\* upgrade_plugin asks whether the plugin is loaded and enabled ...
Upgrade(c, p) ==
    /\ server = "up" /\ Spend /\ install[c] = NoInstall
    /\ mem[p].status # "absent" \/ rec[p].there
    /\ install' = [install EXCEPT ![c] =
                     [NoInstall EXCEPT !.plugin = p,
                        !.enabled = mem[p].status = "enabled",
                        !.pc = IF mem[p].status = "enabled" THEN "disable"
                               ELSE IF mem[p].status # "absent" THEN "unload"
                               ELSE "clean"]]
    /\ UNCHANGED <<server, restore, mem, dir, rec, saved, jobs, procs, wanted,
                   strayed>>

\* ... disables it, unless another call was faster or it is refused ...
UpgradeDisable(c) ==
    LET p == install[c].plugin IN
    /\ install[c].pc = "disable"
    /\ \/ /\ mem[p].status = "enabled" /\ DisablePlugin(p)
          /\ install' = [install EXCEPT ![c].pc = "unload"]
       \/ /\ mem[p].status # "enabled" \/ MayBlock(p)
          /\ InstallEnds(c)
          /\ UNCHANGED <<procs, mem, saved, rec, jobs, strayed, dir, wanted>>
    /\ UNCHANGED <<server, restore, calls>>

\* ... unloads it ...
UpgradeUnload(c) ==
    LET p == install[c].plugin IN
    /\ install[c].pc = "unload"
    /\ \/ /\ mem[p].status # "absent" /\ UnloadPlugin(p)
          /\ install' = [install EXCEPT ![c].pc = "fetch"]
       \/ /\ mem[p].status # "absent" /\ UnloadRefused(p)
          /\ InstallEnds(c)
       \/ /\ mem[p].status = "absent" /\ InstallEnds(c)
          /\ UNCHANGED <<procs, mem, saved, rec, jobs, strayed, dir, wanted>>
    /\ UNCHANGED <<server, restore, calls>>

\* ... or, by CleanupBrokenPlugin, removes what is on disk ...
UpgradeClean(c) ==
    LET p == install[c].plugin IN
    /\ install[c].pc = "clean"
    /\ dir' = dir \ {p} /\ rec' = [rec EXCEPT ![p] = NoRecord]
    /\ saved' \in {saved, [saved EXCEPT ![p] = "none"]}
    /\ strayed' = IF rec[p].jobs # {} THEN strayed \cup {p} ELSE strayed
    /\ install' = [install EXCEPT ![c].pc = "fetch"]
    /\ UNCHANGED <<server, restore, mem, jobs, procs, calls, wanted>>

\* ... fetches the new version, or fails and leaves nothing ...
UpgradeFetch(c) ==
    /\ install[c].pc = "fetch"
    /\ \/ \E kind \in {"path", "url", "release"} :
            Fetched(c, install[c].plugin, kind)
       \/ InstallEnds(c) /\ UNCHANGED dir
    /\ UNCHANGED <<server, restore, mem, rec, saved, jobs, procs, calls,
                   wanted, strayed>>

\* ... loads and registers it as an installation does, and enables it again.
UpgradeEnable(c) ==
    LET p == install[c].plugin IN
    /\ install[c].pc = "enable"
    /\ IF mem[p].status \in {"absent", "enabled"}
         THEN UNCHANGED <<mem, rec, saved, jobs, procs, strayed, wanted>>
         ELSE \/ EnableWorks(p) /\ wanted' = [wanted EXCEPT ![p] = "on"]
              \/ EnableFails(p) /\ UNCHANGED wanted
    /\ InstallEnds(c)
    /\ UNCHANGED <<server, restore, dir, calls>>

-----------------------------------------------------------------------------
InstallStep(c) ==
    \/ InstallLoad(c) \/ InstallRegister(c) \/ UpgradeDisable(c)
    \/ UpgradeUnload(c) \/ UpgradeClean(c) \/ UpgradeFetch(c)
    \/ UpgradeEnable(c)

PluginsNext ==
    \/ \E i \in DOMAIN procs : ProcCrashes(i) \/ Monitor(i)
    \/ \E S \in SUBSET Plugins : ServerStarts(S)
    \/ Serves \/ ServerEnds
    \/ \E p \in Plugins : Restore(p) \/ Enable(p) \/ Disable(p) \/ Uninstall(p)
    \/ \E c \in Installers :
          InstallStep(c) \/ \E p \in Plugins : Install(c, p) \/ Upgrade(c, p)

PluginsSpec == PluginsInit /\ [][PluginsNext]_pluginVars

-----------------------------------------------------------------------------
\* EnablePlugin, DisablePlugin, UnloadPlugin: a plugin that runs a process has
\* one in the manager, and tools that are proxies to it, exactly as long as it
\* is enabled.  In every other state, and of the types that run none even when
\* enabled, the tools say that they are not connected; a plugin that is gone
\* has left none.  The server calls back enabled plugins only.
RuntimeMatches ==
    \A p \in Plugins :
        LET enabled == mem[p].status = "enabled" IN
        /\ mem[p].tools = CASE mem[p].status = "absent" -> "none"
                            [] enabled /\ p \in Running -> "proxy"
                            [] OTHER -> "placeholder"
        /\ (mem[p].proc # 0) <=> (enabled /\ p \in Running)
        /\ mem[p].hooked <=> (enabled /\ CalledBack(p))

\* RestoreEnabledPlugins and EnablePlugin: a plugin is enabled only if the
\* last of the calls that enabled, disabled or uninstalled it enabled it,
\* through restarts, upgrades and new installations, if the store has written
\* what was to be written of it.
OffStaysOff ==
    \A p \in Plugins :
        mem[p].status = "enabled" => wanted[p] # "off"

\* docs/PluginSystem.md says of a disabled plugin: "Subprocess stopped."
DisabledIsStopped ==
    \A i \in DOMAIN procs :
        procs[i].alive => mem[procs[i].plugin].status = "enabled"
=============================================================================
