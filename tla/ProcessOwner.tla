---------------------------- MODULE ProcessOwner ----------------------------
(***************************************************************************)
(* Who owns a connection: findProcessOwner and its table of sockets        *)
(* (internal/hitman/process_lookup_darwin.go), asked by matchesProcess     *)
(* (netd.go) up to three times for one flow.                               *)
(*                                                                         *)
(* The table is read in one system call and kept for TTL, for all flows.   *)
(* The model follows the one entry that has the flow's addresses and       *)
(* ports: which process holds it now, and which one the kept table says.   *)
(* A process may close the connection or exit at any step, and another may *)
(* come to hold the same ports; no pid is used twice.                      *)
(***************************************************************************)
EXTENDS Naturals

CONSTANTS
    Processes, Nobody,
    WantedSets,     \* values of the configured processes; {}: all match
    TTL,            \* ticks a table is good for
    MaxFailures     \* bound: system calls that fail

ASSUME OwnerAssumption ==
    /\ Nobody \notin Processes
    /\ WantedSets \subseteq SUBSET Processes
    /\ TTL \in Nat \ {0} /\ MaxFailures \in Nat

VARIABLES
    wanted,
    holder, alive,      \* the kernel's side: who has the ports, who runs
    kept, age,          \* the kept table: its entry, and its age; TTL: stale
    look,               \* where the lookup stands
    attempt,            \* matchesProcess: which of its three attempts
    forced,             \* find: the second time round, with a fresh table
    fromCache, entry,   \* what loadSnapshot and the match returned
    told,               \* the owner the lookup has found
    failures,
    away, seen, steady  \* histories, see below

kernel == <<wanted, holder, alive>>
table == <<kept, age>>
finder == <<look, attempt, forced, fromCache, entry, told>>
history == <<away, seen, steady>>
ownerVars == <<kernel, table, finder, failures, history>>

OwnerInit ==
    /\ wanted \in WantedSets
    /\ holder = Nobody /\ alive = Processes
    /\ kept = Nobody /\ age = TTL
    /\ look = "idle" /\ attempt = 0 /\ forced = FALSE
    /\ fromCache = FALSE /\ entry = Nobody /\ told = Nobody
    /\ failures = 0
    /\ away = [p \in Processes |-> TTL] /\ seen = {} /\ steady = FALSE

-----------------------------------------------------------------------------
(* The processes, and time.  away counts the ticks since a process held    *)
(* the ports, seen collects who held them at most TTL before the lookup or *)
(* during it, steady says that the client held on and ran all the while.   *)

Take(p) ==
    /\ holder = Nobody /\ p \in alive
    /\ holder' = p /\ away' = [away EXCEPT ![p] = 0] /\ seen' = seen \union {p}
    /\ UNCHANGED <<wanted, alive, table, finder, failures, steady>>

Release ==
    /\ holder # Nobody
    /\ holder' = Nobody /\ steady' = FALSE
    /\ UNCHANGED <<wanted, alive, table, finder, failures, away, seen>>

Exit(p) ==
    /\ p \in alive /\ alive' = alive \ {p}
    /\ IF holder = p THEN holder' = Nobody /\ steady' = FALSE
                     ELSE UNCHANGED <<holder, steady>>
    /\ UNCHANGED <<wanted, table, finder, failures, away, seen>>

Older(n) == IF n < TTL THEN n + 1 ELSE n

Tick ==
    /\ age' = Older(age)
    /\ away' = [p \in Processes |-> IF p = holder THEN 0 ELSE Older(away[p])]
    /\ UNCHANGED <<kernel, kept, finder, failures, seen, steady>>

\* The lookup of another flow refreshes the table that is kept.
OtherLookup ==
    /\ kept' = holder /\ age' = 0
    /\ UNCHANGED <<kernel, finder, failures, history>>

Kernel ==
    \/ \E p \in Processes : Take(p) \/ Exit(p)
    \/ Release \/ Tick \/ OtherLookup

-----------------------------------------------------------------------------
(* The lookup.                                                             *)

BeginLookup ==
    /\ look = "idle" /\ look' = "load"
    /\ seen' = {p \in Processes : away[p] < TTL} /\ steady' = TRUE
    /\ UNCHANGED <<kernel, table, attempt, forced, fromCache, entry, told, failures, away>>

\* loadSnapshot: time.Since(snapshot.createdAt) < f.ttl
Usable == ~forced /\ age < TTL

LoadKept ==
    /\ look = "load" /\ Usable /\ look' = "path"
    /\ entry' = kept /\ fromCache' = TRUE
    /\ UNCHANGED <<kernel, table, attempt, forced, told, failures, history>>

LoadFresh ==
    /\ look = "load" /\ ~Usable /\ look' = "path"
    /\ kept' = holder /\ age' = 0 /\ entry' = holder /\ fromCache' = FALSE
    /\ UNCHANGED <<kernel, attempt, forced, told, failures, history>>

\* Mutant: four attempts.
LastAttemptOff == 3

LastAttempt == 2

\* An error of find: matchesProcess waits a little and tries again, twice.
Miss ==
    IF attempt < LastAttempt
    THEN look' = "load" /\ attempt' = attempt + 1 /\ forced' = FALSE
    ELSE look' = "missed" /\ UNCHANGED <<attempt, forced>>

LoadFails ==
    /\ look = "load" /\ ~Usable /\ Miss
    /\ failures < MaxFailures /\ failures' = failures + 1
    /\ UNCHANGED <<kernel, table, fromCache, entry, told, history>>

\* Mutant: a kept table is the last word.
DoubtfulIfGone == fromCache /\ entry # Nobody /\ entry \notin alive

\* What a kept table says is not believed when it has no entry, or one of a
\* process that is gone by now and has no path.
Doubtful == fromCache /\ entry \notin alive

FindAgain ==
    /\ look = "path" /\ Doubtful
    /\ look' = "load" /\ forced' = TRUE
    /\ UNCHANGED <<kernel, table, attempt, fromCache, entry, told, failures, history>>

FindNothing ==
    /\ look = "path" /\ ~Doubtful /\ entry = Nobody /\ Miss
    /\ UNCHANGED <<kernel, table, fromCache, entry, told, failures, history>>

\* An owner that is gone has no path: it is found, and matches nothing.
FindOwner ==
    /\ look = "path" /\ ~Doubtful /\ entry # Nobody
    /\ look' = "found" /\ told' = IF entry \in alive THEN entry ELSE Nobody
    /\ UNCHANGED <<kernel, table, attempt, forced, fromCache, entry, failures, history>>

Lookup == LoadKept \/ LoadFresh \/ LoadFails \/ FindAgain \/ FindNothing \/ FindOwner

\* The model's own step: a lookup that is over is forgotten.
ForgetLookup ==
    /\ wanted' = {} /\ holder' = Nobody /\ alive' = Processes
    /\ kept' = Nobody /\ age' = TTL
    /\ look' = "idle" /\ attempt' = 0 /\ forced' = FALSE
    /\ fromCache' = FALSE /\ entry' = Nobody /\ told' = Nobody /\ failures' = 0
    /\ away' = [p \in Processes |-> TTL] /\ seen' = {} /\ steady' = FALSE

\* processMatcher: without configured processes every owner matches, and no
\* lookup is made.
MatchAll == wanted = {}
Matched == MatchAll \/ told \in wanted

=============================================================================
