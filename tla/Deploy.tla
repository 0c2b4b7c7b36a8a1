------------------------------- MODULE Deploy -------------------------------
(***************************************************************************)
(* What the commands do to the machine (internal/hitman/control.go and     *)
(* update.go): binaries, plists, the configuration and launchd's two jobs. *)
(* A command is a sequence of steps, any of which may fail, or be the last *)
(* before the command is killed, while launchd relaunches services.        *)
(*                                                                         *)
(* Data: a binary and a configuration are what they are a version of; a    *)
(* file that was cut and not yet written is Torn.  One command runs at a   *)
(* time.  Resolver files are module Resolvers' part.                       *)
(***************************************************************************)
EXTENDS Integers, Sequences

CONSTANTS
    Exes,           \* places a user runs hitman from
    Root,           \* rootDaemonBinaryPath
    NoPlace,
    Versions,       \* of binaries
    Configs,        \* contents of config.json
    MaxCommands,    \* bound: commands
    MaxFaults       \* bound: steps that fail, and kills

Services == {"user", "net"}         \* com.hitman.agent, com.hitman.net
None == 0
Torn == -1
Damaged == -2                       \* a download that is not what was released
Off == [bin |-> None, config |-> None]

ASSUME DeployAssumption ==
    /\ Root \notin Exes /\ NoPlace \notin Exes \union {Root}
    /\ Versions \subseteq Nat \ {0} /\ Configs \subseteq Nat \ {0}
    /\ MaxCommands \in Nat /\ MaxFaults \in Nat

Places == Exes \union {Root}

VARIABLES
    bin,            \* the binary at each place
    new,            \* update's copy beside the executable, ".hitman.new"
    archive,        \* what update has downloaded
    config, tmp,    \* config.json and config.json.tmp
    plist,          \* the place each plist names, NoPlace: there is no plist
    job,            \* launchd's job: "out", "in", or "leaving"
    path,           \* the place that the job names
    proc,           \* what the service runs
    command, exe,   \* the command that runs, and the place it was started from
    arg,            \* the configuration, or the release, that it is to bring
    todo,           \* its steps to go
    stuck,          \* history: a job that bootout has failed to remove
    byHand,         \* history: places that `sudo install` wrote in place
    commands, faults    \* counters of what is bounded

files == <<bin, new, archive, config, tmp, plist>>
launchd == <<job, path, proc>>
history == <<stuck, byHand>>
vars == <<files, launchd, command, exe, arg, todo, history, commands, faults>>

Init ==
    /\ bin \in [Places -> Versions \union {None}] /\ bin[Root] = None
    /\ \A e \in Exes : bin[e] \in Versions
    /\ new = None /\ archive = None
    /\ config = None /\ tmp = None
    /\ plist = [s \in Services |-> NoPlace] /\ path = plist
    /\ job = [s \in Services |-> "out"] /\ proc = [s \in Services |-> Off]
    /\ command = "none" /\ exe \in Exes /\ arg = None /\ todo = <<>>
    /\ stuck = {} /\ byHand = {} /\ commands = 0 /\ faults = 0

-----------------------------------------------------------------------------
(* The commands.                                                           *)

Do(what, s) == [do |-> what, on |-> s, then |-> <<>>]
If(s, steps) == [do |-> "if-installed", on |-> s, then |-> steps]

\* Mutant: a job that launchd has is not booted out first.
StartServiceAsIs(s) ==
    <<Do("bootstrap", s), Do("loaded?", s), Do("kickstart", s)>>

\* startUserService, startNetService: bootstrap is tried five times, or until
\* launchd has the job, whose ever it is.
StartService(s) ==
    <<Do("bootout", s), Do("bootstrap", s), Do("loaded?", s), Do("kickstart", s)>>

installRootDaemonBinary == <<Do("cut-root", "net"), Do("copy-root", "net")>>
cmdInstallUser == <<Do("plist", "user")>> \o StartService("user")
cmdInstallNet == installRootDaemonBinary \o <<Do("plist", "net")>> \o StartService("net")
cmdInstall == cmdInstallUser \o cmdInstallNet

cmdRestart ==
    StartService("user")
        \o <<If("net", installRootDaemonBinary \o StartService("net"))>>

cmdOff == <<Do("bootout", "net")>>

cmdUninstall ==
    <<Do("bootout", "user"), Do("bootout", "net"),
      Do("unplist", "user"), Do("unplist", "net"), Do("remove-root", "net")>>

\* writeUpstreamConfig, and what is installed is installed again.
cmdUpstream ==
    <<Do("write-tmp", "user"), Do("rename-tmp", "user"),
      If("user", cmdInstallUser), If("net", cmdInstallNet)>>

cmdUpdate ==
    <<Do("download", "user"), Do("verify", "user"),
      Do("cut-new", "user"), Do("copy-new", "user"), Do("rename-new", "user")>>

Commands == {"install", "restart", "off", "uninstall", "upstream", "update"}

StepsOf(c) ==
    CASE c = "install" -> cmdInstall         \* cmdOn, and the first step of cmdInit
      [] c = "restart" -> cmdRestart
      [] c = "off" -> cmdOff
      [] c = "uninstall" -> cmdUninstall
      [] c = "upstream" -> cmdUpstream
      [] c = "update" -> cmdUpdate

Begin ==
    /\ command = "none" /\ commands < MaxCommands /\ commands' = commands + 1
    /\ command' \in Commands /\ exe' \in Exes /\ bin[exe'] \in Versions
    /\ todo' = StepsOf(command')
    /\ arg' \in CASE command' = "upstream" -> Configs [] command' = "update" -> Versions
                  [] OTHER -> {None}
    /\ UNCHANGED <<files, launchd, history, faults>>

\* The command says that it is done.
End ==
    /\ command # "none" /\ todo = <<>> /\ command' = "none"
    /\ UNCHANGED <<files, launchd, exe, arg, todo, history, commands, faults>>

-----------------------------------------------------------------------------
(* The steps.                                                              *)

Is(what) == todo # <<>> /\ Head(todo).do = what
Passes == todo' = Tail(todo) /\ UNCHANGED command
GivesUp == todo' = <<>> /\ command' = "none"
Faulty == faults < MaxFaults /\ faults' = faults + 1

\* A step that its command reports as failed, or before which it is killed.
Fail ==
    /\ todo # <<>> /\ Faulty /\ GivesUp
    /\ UNCHANGED <<files, launchd, exe, arg, history, commands>>

IfInstalled ==
    /\ Is("if-installed")
    /\ todo' = (IF plist[Head(todo).on] # NoPlace THEN Head(todo).then ELSE <<>>) \o Tail(todo)
    /\ UNCHANGED <<files, launchd, command, exe, arg, history, commands, faults>>

\* os.WriteFile, or `sudo cp` of a whole file: launchd looks at it at bootstrap.
\* What uninstall's `sudo rm` cannot remove it leaves.
Plist ==
    /\ \/ /\ Is("plist") /\ LET s == Head(todo).on IN
             plist' = [plist EXCEPT ![s] = IF s = "user" THEN exe ELSE Root]
          /\ UNCHANGED faults
       \/ /\ Is("unplist") /\ plist' = [plist EXCEPT ![Head(todo).on] = NoPlace]
          /\ UNCHANGED faults
       \/ Is("unplist") /\ Head(todo).on = "net" /\ Faulty /\ UNCHANGED plist
    /\ Passes
    /\ UNCHANGED <<bin, new, archive, config, tmp, launchd, exe, arg, history, commands>>

\* `sudo install` writes in place.
RootBinary ==
    /\ \/ Is("cut-root") /\ bin' = [bin EXCEPT ![Root] = Torn] /\ UNCHANGED faults
       \/ Is("copy-root") /\ bin' = [bin EXCEPT ![Root] = bin[exe]] /\ UNCHANGED faults
       \/ Is("remove-root") /\ bin' = [bin EXCEPT ![Root] = None] /\ UNCHANGED faults
       \/ Is("remove-root") /\ Faulty /\ UNCHANGED bin
    /\ Passes
    /\ UNCHANGED <<new, archive, config, tmp, plist, launchd, exe, arg, history, commands>>

\* launchctl bootout, whose error is ignored: the process has time to stop.
BootOut ==
    /\ Is("bootout") /\ Passes
    /\ LET s == Head(todo).on IN
       \/ /\ job[s] = "in" /\ job' = [job EXCEPT ![s] = "leaving"]
          /\ proc' = [proc EXCEPT ![s] = Off] /\ stuck' = stuck \ {s}
          /\ UNCHANGED faults
       \/ /\ job[s] # "in" /\ UNCHANGED <<job, proc, stuck, faults>>
       \/ /\ job[s] = "in" /\ Faulty
          /\ stuck' = stuck \union {s} /\ UNCHANGED <<job, proc>>
    /\ UNCHANGED <<files, path, exe, arg, byHand, commands>>

\* What launchd starts from a job: nothing, if a file it needs is not whole.
Started(p) ==
    IF bin[p] \in Versions /\ config # Torn THEN [bin |-> bin[p], config |-> config] ELSE Off

\* The loop: it is left as soon as launchd has the job, be it the old one.
Bootstrap ==
    /\ Is("bootstrap") /\ Passes
    /\ LET s == Head(todo).on IN
       IF job[s] = "out" /\ plist[s] # NoPlace
       THEN /\ job' = [job EXCEPT ![s] = "in"] /\ path' = [path EXCEPT ![s] = plist[s]]
            /\ proc' = [proc EXCEPT ![s] = Started(plist[s])]
       ELSE UNCHANGED launchd
    /\ UNCHANGED <<files, exe, arg, history, commands, faults>>

Loaded ==
    /\ Is("loaded?")
    /\ IF job[Head(todo).on] # "out" THEN Passes ELSE GivesUp
    /\ UNCHANGED <<files, launchd, exe, arg, history, commands, faults>>

\* A job that leaves cannot be started.
Kickstart ==
    /\ Is("kickstart")
    /\ LET s == Head(todo).on IN
       IF job[s] = "in"
       THEN Passes /\ proc' = [proc EXCEPT ![s] = Started(path[s])]
       ELSE GivesUp /\ UNCHANGED proc
    /\ UNCHANGED <<files, job, path, exe, arg, history, commands, faults>>

\* Mutant: config.json is written in place.
WriteConfigInPlace ==
    /\ \/ Is("write-tmp") /\ config' = Torn
       \/ Is("rename-tmp") /\ config' = arg
    /\ Passes
    /\ UNCHANGED <<bin, new, archive, tmp, plist, launchd, exe, arg, history, commands, faults>>

\* writeUpstreamConfig.
WriteConfig ==
    /\ \/ Is("write-tmp") /\ tmp' = arg /\ Passes /\ UNCHANGED <<config, faults>>
       \/ Is("write-tmp") /\ tmp' = Torn /\ GivesUp /\ Faulty /\ UNCHANGED config
       \/ /\ Is("rename-tmp") /\ config' = tmp /\ tmp' = None /\ Passes
          /\ UNCHANGED faults
    /\ UNCHANGED <<bin, new, archive, plist, launchd, exe, arg, history, commands>>

\* The release, or something else with its name.
Download ==
    /\ Is("download") /\ archive' \in {arg, Damaged}
    /\ IF arg = bin[exe] THEN GivesUp ELSE Passes
    /\ UNCHANGED <<bin, new, config, tmp, plist, launchd, exe, arg, history, commands, faults>>

\* Mutant: an archive without a checksum is taken.
VerifyNothing ==
    /\ Is("verify") /\ Passes
    /\ UNCHANGED <<files, launchd, exe, arg, history, commands, faults>>

Verify ==
    /\ Is("verify")
    /\ IF archive = Damaged THEN GivesUp ELSE Passes
    /\ UNCHANGED <<files, launchd, exe, arg, history, commands, faults>>

\* replaceCurrentExecutable: a copy beside it, then a rename.
Replace ==
    /\ \/ Is("cut-new") /\ new' = Torn /\ UNCHANGED bin
       \/ Is("copy-new") /\ new' = archive /\ UNCHANGED bin
       \/ Is("rename-new") /\ bin' = [bin EXCEPT ![exe] = new] /\ new' = None
    /\ Passes
    /\ UNCHANGED <<archive, config, tmp, plist, launchd, exe, arg, history, commands, faults>>

\* Where the user may not write, the copy or the rename is refused, and `sudo
\* install` writes the executable in place.
ReplaceByHand ==
    /\ \/ /\ \/ Is("cut-new") /\ UNCHANGED new
             \/ Is("rename-new") /\ new' = None
          /\ bin' = [bin EXCEPT ![exe] = Torn] /\ byHand' = byHand \union {exe}
          /\ todo' = <<Do("copy-by-hand", "user")>>
       \/ /\ Is("copy-by-hand") /\ bin' = [bin EXCEPT ![exe] = archive]
          /\ byHand' = byHand \ {exe} /\ todo' = <<>> /\ UNCHANGED new
    /\ UNCHANGED <<archive, config, tmp, plist, launchd, command, exe, arg, stuck, commands, faults>>

Step ==
    \/ Fail \/ IfInstalled \/ Plist \/ RootBinary \/ BootOut \/ Bootstrap \/ Loaded
    \/ Kickstart \/ WriteConfig \/ Download \/ Verify \/ Replace \/ ReplaceByHand

-----------------------------------------------------------------------------
(* launchd.                                                                *)

\* The process of a job that was booted out has stopped.
Leave ==
    /\ \E s \in Services : job[s] = "leaving" /\ job' = [job EXCEPT ![s] = "out"]
    /\ UNCHANGED <<files, path, proc, command, exe, arg, todo, history, commands, faults>>

\* KeepAlive: a service that ended is started again.
Relaunch ==
    /\ \E s \in Services :
          job[s] = "in" /\ proc' = [proc EXCEPT ![s] = Started(path[s])]
    /\ UNCHANGED <<files, job, path, command, exe, arg, todo, history, commands, faults>>

Next == Begin \/ Step \/ End \/ Leave \/ Relaunch

Spec == Init /\ [][Next]_vars

-----------------------------------------------------------------------------
(* Properties.                                                             *)

Steps == {"bootout", "bootstrap", "loaded?", "kickstart", "cut-root", "copy-root",
          "plist", "unplist", "remove-root", "write-tmp", "rename-tmp", "download",
          "verify", "cut-new", "copy-new", "rename-new", "copy-by-hand", "if-installed"}

TypeOK ==
    /\ bin \in [Places -> Versions \union {None, Torn}]
    /\ {new, archive} \subseteq Versions \union {None, Torn, Damaged}
    /\ {config, tmp} \subseteq Configs \union {None, Torn}
    /\ plist \in [Services -> Places \union {NoPlace}] /\ plist["user"] # Root
    /\ path \in [Services -> Places \union {NoPlace}]
    /\ job \in [Services -> {"out", "in", "leaving"}]
    /\ proc \in [Services -> [bin : Versions \union {None}, config : Configs \union {None}]]
    /\ command \in Commands \union {"none"} /\ exe \in Exes
    /\ \A i \in DOMAIN todo : todo[i].do \in Steps /\ todo[i].on \in Services
    /\ arg \in Versions \union Configs \union {None}
    /\ stuck \subseteq Services /\ byHand \subseteq Exes
    /\ commands \in 0..MaxCommands /\ faults \in 0..MaxFaults
    /\ command = "none" => todo = <<>>

LaunchdHas(s) == job[s] = "in" /\ path[s] = plist[s]

\* s is loaded, from its plist, and runs what is on the disk: a service that
\* does not run, its binary being torn or not there, is not current.
Current(s) ==
    /\ LaunchdHas(s)
    /\ bin[path[s]] \in Versions /\ proc[s] = [bin |-> bin[path[s]], config |-> config]

Promised ==
    CASE command = "install" ->
            /\ Current("user") /\ Current("net")
            /\ plist["user"] = exe /\ bin[Root] = bin[exe]
      [] command = "restart" ->
            /\ LaunchdHas("user") /\ (plist["user"] \notin byHand => Current("user"))
            /\ plist["net"] # NoPlace => Current("net") /\ bin[Root] = bin[exe]
      [] command = "upstream" ->
            /\ config = arg
            /\ plist["user"] # NoPlace => Current("user") /\ plist["user"] = exe
            /\ plist["net"] # NoPlace => Current("net") /\ bin[Root] = bin[exe]
      [] command = "off" -> job["net"] # "in"
      [] command = "uninstall" ->
            plist["user"] = NoPlace /\ \A s \in Services : job[s] # "in"
      [] command = "update" -> bin[exe] = arg
      [] OTHER -> TRUE

\* When a command reports success, what it was asked for is in force and not
\* only on the disk: the jobs are those of the plists, and they run the whole
\* binary and the configuration that are there now, whatever earlier commands
\* have left half done.  Two cases are excepted: launchd has kept a job that
\* it was told to drop (the error of bootout is ignored); and a restart finds
\* the user's binary torn by an update whose `sudo install` was killed, for
\* cmdRestart starts what the plist names, and that need not be its own.
SuccessIsReal == command # "none" /\ todo = <<>> /\ stuck = {} => Promised

\* What launchd may start at any moment is whole and released: config.json,
\* and every binary, in spite of kills and damaged downloads, but for what
\* `sudo install` is writing in place or was killed over.
NothingTorn ==
    /\ config \in Configs \union {None}
    /\ \A e \in Exes : bin[e] \in Versions \/ (bin[e] = Torn /\ e \in byHand)

=============================================================================
