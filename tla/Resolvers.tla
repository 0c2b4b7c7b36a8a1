----------------------------- MODULE Resolvers ------------------------------
(***************************************************************************)
(* The life of netd and of the /etc/resolver files it owns: its start and  *)
(* shutdown (internal/hitman/netd.go), the install and the cleanup of the  *)
(* files (resolver_darwin.go), and the commands `on` and `off` of the CLI  *)
(* with launchd between them (control.go).                                 *)
(*                                                                         *)
(* The file system is shared with the CLI and with other programs, so each *)
(* read, open and write of a file is a step of its own.  netd may be       *)
(* killed between any two steps while launchd keeps it up; a read, a write *)
(* or a removal may fail, and so may every call of launchctl, whose        *)
(* bootout the commands do not check.  A netd that was asked to stop is    *)
(* given the time to do so.                                                *)
(*                                                                         *)
(* Data: a resolver file is absent, hitman's (it holds the marker), empty  *)
(* (opened with O_TRUNC and not yet written) or foreign.                   *)
(***************************************************************************)
EXTENDS Naturals, Sequences

CONSTANTS
    Domains,        \* all domains that resolver files are ever named after
    Lists,          \* the values of resolverDomains the user configures
    MaxEdits,       \* bound: edits of the configuration
    MaxFaults,      \* bound: crashes and kills of netd, and failed writes
    MaxMissed,      \* bound: files that could not be read, or not be removed
    MaxForeign      \* bound: resolver files written by other programs

ASSUME ResolversAssumption ==
    /\ Lists \subseteq Seq(Domains)
    /\ MaxEdits \in Nat /\ MaxFaults \in Nat
    /\ MaxMissed \in Nat /\ MaxForeign \in Nat

VARIABLES
    file,           \* the content of each resolver file
    config, edits,
    loaded,         \* launchd has the job, and keeps netd alive
    pc,             \* where netd stands; "down": no process
    mine,           \* the ResolverDomains netd has loaded
    todo,           \* those its loop has still to visit
    stop,           \* SIGTERM was delivered to netd
    cli, left,      \* where the command stands, and its loop's domains
    stuck,          \* an `off` went on although its bootout had failed, and
                    \* netd was not started anew since
    faults, missed, foreign

netd == <<pc, mine, todo, stop>>
others == <<config, edits, loaded, cli, left, stuck, foreign>>
world == <<others, faults, missed>>
vars == <<file, world, netd>>

Init ==
    /\ file \in [Domains -> {"absent", "foreign"}]
    /\ config \in Lists /\ edits = 0 /\ loaded = FALSE
    /\ pc = "down" /\ mine = <<>> /\ todo = <<>> /\ stop = FALSE
    /\ cli = "idle" /\ left = <<>> /\ stuck = FALSE
    /\ faults = 0 /\ missed = 0 /\ foreign = 0

Marked(d) == file[d] = "hitman"

Miss == missed < MaxMissed /\ missed' = missed + 1

-----------------------------------------------------------------------------
(* netd: start.                                                            *)

\* launchd starts the process, at load and whenever it has died.
Launch ==
    /\ loaded /\ pc = "down"
    /\ pc' = "listen" /\ mine' = config /\ todo' = config /\ stop' = FALSE
    /\ stuck' = (stuck /\ cli \in {"sweep", "remove"})
    /\ UNCHANGED <<file, config, edits, loaded, cli, left, foreign, faults, missed>>

\* Mutant: a failed start exits without Close.
FailDirectly == "down"

\* A failed start closes the daemon before it exits.
Fail == "close"

\* The fake DNS server listens first; the address may be taken.
Listen ==
    /\ pc = "listen" /\ pc' \in {"check", Fail}
    /\ UNCHANGED <<file, world, mine, todo, stop>>

\* Nothing stands in the way of writing the file.
Free(d) == file[d] = "absent" \/ Marked(d)

\* Mutant: a file of another program is passed over.
CheckSkipping ==
    /\ pc = "check" /\ todo # <<>>
    /\ IF Free(Head(todo))
       THEN pc' = "open" /\ UNCHANGED todo
       ELSE todo' = Tail(todo) /\ UNCHANGED pc
    /\ UNCHANGED <<file, world, mine, stop>>

\* Mutant: the file is replaced whatever it holds.
CheckNothing ==
    /\ pc = "check" /\ todo # <<>> /\ pc' = "open"
    /\ UNCHANGED <<file, world, mine, todo, stop>>

\* Mutant: the loop moves on before the file is written.
CheckAdvancing ==
    /\ pc = "check" /\ todo # <<>>
    /\ pc' = IF Free(Head(todo)) THEN "open" ELSE Fail
    /\ todo' = Tail(todo)
    /\ UNCHANGED <<file, world, mine, stop>>

\* A file without the marker makes the start fail; one that cannot be read is
\* taken for absent.
Check ==
    /\ pc = "check" /\ todo # <<>>
    /\ \/ Free(Head(todo)) /\ pc' = "open" /\ UNCHANGED missed
       \/ ~Free(Head(todo)) /\ pc' = Fail /\ UNCHANGED missed
       \/ ~Free(Head(todo)) /\ Miss /\ pc' = "open"
    /\ UNCHANGED <<file, others, faults, mine, todo, stop>>

\* os.WriteFile creates or truncates the file, then writes it.
Open ==
    /\ pc = "open" /\ pc' = "write"
    /\ file' = [file EXCEPT ![Head(todo)] = "empty"]
    /\ UNCHANGED <<world, mine, todo, stop>>

Write ==
    /\ pc = "write" /\ pc' = "check"
    /\ file' = [file EXCEPT ![Head(todo)] = "hitman"]
    /\ todo' = Tail(todo)
    /\ UNCHANGED <<world, mine, stop>>

WriteFails ==
    /\ pc \in {"open", "write"} /\ pc' = Fail
    /\ faults < MaxFaults /\ faults' = faults + 1
    /\ UNCHANGED <<file, others, missed, mine, todo, stop>>

\* Mutant: signals are only listened to once netd is up.
PlumbThenNotify ==
    /\ pc = "check" /\ todo = <<>>
    /\ pc' = "run" /\ stop' = FALSE
    /\ UNCHANGED <<file, world, mine, todo>>

\* The monitors, the TUN interface and the stack are brought up.
Plumb ==
    /\ pc = "check" /\ todo = <<>>
    /\ pc' \in {"run", Fail}
    /\ UNCHANGED <<file, world, mine, todo, stop>>

-----------------------------------------------------------------------------
(* netd: shutdown.                                                         *)

Heed ==
    /\ pc = "run" /\ stop /\ pc' = "close"
    /\ UNCHANGED <<file, world, mine, todo, stop>>

\* Mutant: the cleanup goes by the configuration of the moment.
CloseByConfig ==
    /\ pc = "close" /\ pc' = "sweep" /\ todo' = config
    /\ UNCHANGED <<file, world, mine, stop>>

\* Close takes everything down in turn, the resolver files last.
Close ==
    /\ pc = "close" /\ pc' = "sweep" /\ todo' = mine
    /\ UNCHANGED <<file, world, mine, stop>>

\* A file that cannot be read or removed is passed over.
Sweep ==
    /\ pc = "sweep"
    /\ \/ todo = <<>> /\ pc' = "down" /\ UNCHANGED <<todo, missed>>
       \/ /\ todo # <<>> /\ Marked(Head(todo))
          /\ pc' = "remove" /\ UNCHANGED <<todo, missed>>
       \/ /\ todo # <<>> /\ ~Marked(Head(todo))
          /\ todo' = Tail(todo) /\ UNCHANGED <<pc, missed>>
       \/ /\ todo # <<>> /\ Marked(Head(todo)) /\ Miss
          /\ todo' = Tail(todo) /\ UNCHANGED pc
    /\ UNCHANGED <<file, others, faults, mine, stop>>

Remove ==
    /\ pc = "remove" /\ pc' = "sweep"
    /\ \/ file' = [file EXCEPT ![Head(todo)] = "absent"] /\ UNCHANGED missed
       \/ Miss /\ UNCHANGED file
    /\ todo' = Tail(todo)
    /\ UNCHANGED <<others, faults, mine, stop>>

\* netd crashes, or is killed, while it is supposed to run.
Kill ==
    /\ loaded /\ pc # "down" /\ pc' = "down"
    /\ faults < MaxFaults /\ faults' = faults + 1
    /\ UNCHANGED <<file, others, missed, mine, todo, stop>>

-----------------------------------------------------------------------------
(* The CLI; the user waits for one command before giving the next.         *)

Waiting == cli \in {"idle", "off"}

\* launchctl bootout: the job is gone, netd has SIGTERM and time to stop.  Or
\* it fails, which no command looks at.
Bootout ==
    \/ loaded' = FALSE /\ stop' = TRUE
    \/ UNCHANGED <<loaded, stop>>

\* The configuration may not load: then nothing is removed.
Off ==
    /\ Waiting
    /\ Bootout
    /\ cli' \in {"sweep", "idle"} /\ left' = config
    /\ stuck' = (stuck \/ (loaded' /\ cli' = "sweep"))
    /\ UNCHANGED <<file, config, edits, faults, missed, foreign, pc, mine, todo>>

\* cleanupManagedResolverFiles, one file after the other; one that cannot be
\* read, nor searched by grep, is passed over ...
OffSweep ==
    /\ cli = "sweep"
    /\ \/ left = <<>> /\ cli' = "off" /\ UNCHANGED <<left, missed>>
       \/ /\ left # <<>> /\ Marked(Head(left))
          /\ cli' = "remove" /\ UNCHANGED <<left, missed>>
       \/ /\ left # <<>> /\ ~Marked(Head(left))
          /\ left' = Tail(left) /\ UNCHANGED <<cli, missed>>
       \/ /\ left # <<>> /\ Marked(Head(left)) /\ Miss
          /\ left' = Tail(left) /\ UNCHANGED cli
    /\ UNCHANGED <<file, config, edits, loaded, stuck, faults, foreign, netd>>

\* ... and an rm that fails ends the command.
OffRemove ==
    /\ cli = "remove"
    /\ \/ /\ file' = [file EXCEPT ![Head(left)] = "absent"]
          /\ cli' = "sweep" /\ left' = Tail(left)
       \/ cli' = "idle" /\ UNCHANGED <<file, left>>
    /\ UNCHANGED <<config, edits, loaded, stuck, faults, missed, foreign, netd>>

\* startNetService takes the job out and bootstraps it again ...
On ==
    /\ Waiting
    /\ Bootout
    /\ cli' = "bootstrap"
    /\ UNCHANGED <<file, config, edits, left, stuck, faults, missed, foreign, pc, mine, todo>>

\* ... which fails as long as the old process is still there, or otherwise:
\* after five tries the command gives up.  A job that launchctl prints, in
\* place or on its way out, ends the tries too ...
Bootstrap ==
    /\ cli = "bootstrap"
    /\ \/ pc = "down" /\ loaded' = TRUE /\ cli' = "kickstart"
       \/ ~loaded /\ cli' = "idle" /\ UNCHANGED loaded
       \/ (loaded \/ pc # "down") /\ cli' = "kickstart" /\ UNCHANGED loaded
    /\ UNCHANGED <<file, config, edits, left, stuck, faults, missed, foreign, netd>>

\* ... and at last has launchd start the job over: a process that is there is
\* told to stop, or is killed wherever it stands.  Or launchd does not.
Kickstart ==
    /\ cli = "kickstart" /\ cli' = "idle"
    /\ \/ UNCHANGED <<pc, stop, faults>>
       \/ pc # "down" /\ stop' = TRUE /\ UNCHANGED <<pc, faults>>
       \/ /\ pc # "down" /\ pc' = "down"
          /\ faults < MaxFaults /\ faults' = faults + 1
          /\ UNCHANGED stop
    /\ UNCHANGED <<file, config, edits, loaded, left, stuck, missed, foreign, mine, todo>>

-----------------------------------------------------------------------------
(* The user's editor, and other programs that write resolver files.        *)

Edit ==
    /\ edits < MaxEdits /\ edits' = edits + 1
    /\ config' \in Lists \ {config}
    /\ UNCHANGED <<file, loaded, cli, left, stuck, faults, missed, foreign, netd>>

ForeignWrite(d) ==
    /\ foreign < MaxForeign /\ foreign' = foreign + 1
    /\ file' = [file EXCEPT ![d] = "foreign"]
    /\ UNCHANGED <<config, edits, loaded, cli, left, stuck, faults, missed, netd>>

-----------------------------------------------------------------------------
Daemon ==
    \/ Listen \/ Check \/ Open \/ Write \/ WriteFails \/ Plumb
    \/ Heed \/ Close \/ Sweep \/ Remove

Command == Off \/ OffSweep \/ OffRemove \/ On \/ Bootstrap \/ Kickstart

Next ==
    \/ Launch \/ Daemon \/ Kill
    \/ Command \/ Edit \/ \E d \in Domains : ForeignWrite(d)

Spec == Init /\ [][Next]_vars

\* netd runs, and does not block: its listeners, files and devices are local.
FairSpec == Spec /\ WF_vars(Daemon)

-----------------------------------------------------------------------------
(* Properties.                                                             *)

TypeOK ==
    /\ file \in [Domains -> {"absent", "hitman", "empty", "foreign"}]
    /\ config \in Lists /\ mine \in Lists \union {<<>>}
    /\ edits \in 0..MaxEdits /\ faults \in 0..MaxFaults
    /\ missed \in 0..MaxMissed /\ foreign \in 0..MaxForeign
    /\ loaded \in BOOLEAN /\ stop \in BOOLEAN /\ stuck \in BOOLEAN
    /\ pc \in {"down", "listen", "check", "open", "write", "run", "close", "sweep", "remove"}
    /\ cli \in {"idle", "sweep", "remove", "off", "bootstrap", "kickstart"}
    /\ todo \in Seq(Domains) /\ left \in Seq(Domains)
    /\ pc \in {"open", "write", "remove"} => todo # <<>>
    /\ cli = "remove" => left # <<>>

\* A resolver file of another program is never overwritten or removed, by
\* netd or by the CLI (README.md:291-292).
ForeignKept ==
    [][\A d \in Domains : file[d] = "foreign" => file'[d] = "foreign"]_vars

\* As long as no program writes a resolver file while hitman runs, and each
\* file can be read, the files that were there are never overwritten or
\* removed, whatever interleaving of netd, its crashes and the commands.
ForeignKeptButRaces ==
    [][foreign = 0 /\ missed = 0 =>
        \A d \in Domains : file[d] = "foreign" => file'[d] = "foreign"]_vars

\* A netd that ended by itself, on a signal or because its start failed at
\* any point, leaves no resolver file behind that points at its dead DNS
\* server, although the configuration may have changed while it ran; unless
\* a file could not be read or removed.
DownMeansClean ==
    pc = "down" /\ faults = 0 /\ missed = 0 => \A d \in Domains : ~Marked(d)

\* After a `hitman off` that took the job out, and the end of netd, no
\* resolver file of hitman's is left, although both clean up at the same time
\* and netd may still have been installing files when it was told to stop, or
\* may have crashed.
OffCleans ==
    cli = "off" /\ ~loaded /\ pc = "down" => \A d \in Domains : ~Marked(d)

\* ... and so it is unless a file could not be read or removed, or the
\* configuration was edited and netd also crashed: each of these two alone
\* does no harm.
OffCleansButOrphans == missed = 0 /\ (edits = 0 \/ faults = 0) => OffCleans

\* As long as netd is to run, it is up only with all its resolver files in
\* place: no cleanup of an earlier `off` or of an earlier process takes them.
\* The exception is the `off` that could not take the job out and removes the
\* files all the same (control.go:203-204); the next start puts them back.
UpMeansInstalled ==
    pc = "run" /\ loaded /\ ~stuck /\ foreign = 0 =>
        \A i \in DOMAIN mine : Marked(mine[i])

\* A signal that arrives at any point of the start is not lost: netd ends
\* unless it is meant to run again.
StopIsHeeded == ~loaded ~> (pc = "down" \/ loaded)

=============================================================================
