# Verification of hitman

TLA+ models of [hitman](../src/README.md), the local MITM for agent CLIs, with
the TLC runs that check them and the TLAPS proofs about them. `PROJECT.json`
lists every run, every property with a mutation of the code's model that breaks
it, the source lines each definition stands for, the hazards the properties are
for, and the theorems. Source paths below are relative to
`src/internal/hitman/`.

    tlc -config MCFold_ordered.cfg MCFold.tla      # one run
    tlapm FoldOrderedProofs.tla                    # one module's proofs

## The system

Two processes and a CLI. `hitman netd` runs as root: it answers DNS queries for
its target names with fake addresses, routes those addresses into a TUN device,
and pipes each connection either to the MITM or straight to the host that was
asked for. `hitman serve`, the MITM, ends TLS with a certificate of a local CA,
checks the Host, forwards the request, and folds certain Codex requests into
several upstream rounds. The CLI installs both as launchd jobs, switches capture
on and off, and edits the configuration.

| Component | State it keeps | Operations | Talks to |
|---|---|---|---|
| Codex fold (`foldstream.go`, `fold.go`) | `foldState`: round, next index, sequence number, buffer, replay tail, usage | `run`, `openRound`, `processEvent`, `endRound`, `flushCleanStop` | client and upstream through the callbacks `emit` and `openRoundFn` |
| SSE parser (`foldstream.go` 178-276) | `sseBuffer` | `processAndEmit` | calls `processEvent` |
| MITM handlers (`proxy.go`, `endpoint.go`, `usage.go`) | none between requests | `ServeHTTP`, `handleResponses`, `handlePassthrough`, `forward` | fold, audit, upstream dial |
| Fake-IP store (`fakeip.go`) | `byHost`, `byIP`, `next` under an RWMutex | `addrForHost`, `hostForAddr` | fake DNS writes, flows read |
| Fake DNS (`net_dns.go`) | two listeners | `answer`, `answerTarget`, `forwardQuestion` | store, upstream DNS |
| netd flows (`netd.go` 183-286) | one goroutine per flow | `JudgeFlow`, `NewConnectionEx`, `pipeConns` | store, process lookup, upstream dial, MITM |
| netd lifecycle (`netd.go` 44-174, `resolver_darwin.go`) | listeners, TUN, `/etc/resolver` files | `Start`, `Close`, `installResolvers`, `cleanupResolvers` | launchd, CLI, other programs through the files |
| Process lookup (`process_lookup_darwin.go`) | snapshots of the socket table, 200 ms old at most | `find`, `loadSnapshot` | kernel |
| Upstream dial (`proxy_dialer.go`) | none | system: resolve and dial; proxy: SOCKS5, CONNECT | upstream DNS, proxy |
| CA and minter (`ca.go`, `mitm.go`) | two files; leaf cache under a mutex | `loadOrCreateCA`, `getCertificate` | TLS handshakes |
| Audit log (`audit.go`) | one record per request; an index file under a mutex | `begin`, `response`, `done`, `appendIndex` | handlers |
| Configuration (`config*.go`, `net_config.go`, `control.go` 676-705) | `config.json` | `loadConfig`, `loadNetConfig`, `writeUpstreamConfig` | every process at its start |
| CLI (`control.go`, `cli.go`) | launchd jobs, plists | `on`, `off`, `restart`, `upstream`, `install`, `uninstall` | launchd, resolver files |
| Self-update (`update.go`) | the installed binary | `update` | GitHub |

What makes it hard, and what correctness means there:

- *The fold* presents several upstream responses as one. Reasoning is streamed
  while the round may still be dropped, answers are held back, indices and the
  final output are assigned at different times, and client and upstream may fail
  between any two events. The client must see one response: one identity, dense
  sequence numbers, indices that are positions in the final output, exactly one
  answer, one terminal event and one `[DONE]`, honest usage, every truncation
  reported, and no upstream round after the client is lost.
- *The store* is shared by goroutines that take a read lock, drop it and take
  the write lock. A host has one address, an address one host, for the life of
  the process, and what was told can be looked up.
- *Resolver files* are shared, without a lock, by netd, the CLI and other
  programs, across signals, failed starts and crashes. Other programs' files are
  left alone; a netd that is down and was switched off leaves none of its own;
  one that is up has all of them.
- *Capture* relates answers that outlive a netd to a table that does not, and
  two allowlists to each other: bytes reach the host the client asked for, and
  what is captured is served.
- *A flow* is given to the MITM or passed through by who owns it, which is read
  from a table that may be 200 ms old while processes come and go; it is dialled
  in one of three ways, with proxies that may say too little, too late or too
  much at once; and it is copied by two goroutines that race for the end. The
  owner decides, netd never dials itself, no byte of the end that finishes first
  is lost, and a flow whose end has ended is closed, but for one whose bytes the
  other end neither reads nor refuses.
- *The MITM process* is stopped and killed over requests in flight and over the
  writing of its CA. The audit log says what clients saw, a client that trusts
  the CA keeps being able to connect, and the service comes back.
- *The commands* are sequences of steps on binaries, plists, configuration and
  launchd's jobs, each of which may fail or be the last. What a command reports
  as done is in force, with two exceptions that the code has and the property
  names (Deploy, below); and nothing launchd may start is half written, but for
  what a killed `sudo install` leaves.

`PROJECT.json` lists the hazards, each with its line; those no property covers
say why.

## Modules

| Module | Models |
|---|---|
| `FoldPolicy` | the fold's pure decisions and usage sums |
| `ResponseStream` | abstract: what a client may rely on in one response stream |
| `Fold` | the fold handler, with its upstream and its client |
| `HostMap` | abstract: an atomic map from addresses to hosts |
| `FakeIPStore` | the store, its RWMutex and its goroutines |
| `Resolvers` | netd's start and shutdown, resolver files, `on`/`off`, launchd |
| `Capture` | fake DNS, flows and Host check together, across restarts |
| `ProcessOwner` | the process lookup and the kernel it asks |
| `PipeConns` | the two copying goroutines and the two ends of a flow |
| `UpstreamDial` | resolution, dial, SOCKS5 and CONNECT handshakes; extends `PipeConns` |
| `Flow` | `NewConnectionEx`: composes the last three |
| `CertAuthority` | the CA's files, the start of the MITM, the leaf cache |
| `Server` | the MITM process, its handlers and the audit log; composes `CertAuthority` |
| `Deploy` | the commands, the self-update and launchd's jobs |
| `FoldProofs`, `FoldOrderedProofs`, `FakeIPStoreProofs`, `CaptureProofs`, `ResolversProofs`, `FlowProofs`, `ServerProofs`, `DeployProofs` | theorems about the module they are named for |
| `MC*` | constants for TLC |

An operator whose comment begins with "Mutant" is no part of a model: it is the
mutated form of the definition that follows it.

### Fold

One action per branch of `processEvent` and per step of `run` between two reads
or writes, with one handler goroutine; `pc` is where `run` stands. Every write
is followed by what the code does with its error. `emit` records the event
(`out`) before its error is returned, as `rec.sse` does. The variables have the
code's names; `out`, `answer`, `requests` and `heard` record what was written,
the terminal's response object, the requests made, and the events of the round.

An item is its kind, round and upstream index, whether its finished form was
seen, and whether it carries `encrypted_content`; text, deltas' contents and the
constant parts of requests are left out. An upstream event is its type and
index: `NoIndex` stands for an event without `output_index`. When `Ordered` is
TRUE the upstream follows the documented order of the Responses API (created,
in_progress, then item after item: added, deltas, done, and a terminal);
otherwise it sends anything. The parser is left out: a parse error, an event
that is too large and a broken body are all `FailRead`.

The rule by which a round counts as truncated, reasoning tokens = step*n - 2
(`fold.go` 46, 518n - 2 by default), is stated for the properties by itself (`TruncatedAt`: some n
gives these tokens), while the model has the code's remainder and lower bound
(`tierN`): an error in one of the two shows. What a response lists is compared
with what was billed: `BilledCoversReported` adds up the tokens of the rounds
listed, whichever way the fold ended.

Client departure has three stages: `conn` is "up", "gone" (left; a write may
still succeed into a buffer) or "failed" (a write failed; later ones fail too).

### FakeIPStore

Each action is the code between two lock operations; `Allocate` and `Record`,
the two map writes under the write lock, are separate steps. The lock is Go's:
`Lock` first announces itself and shuts out new readers, then waits for those
inside. Addresses are unsigned integers modulo `Modulus` (2^32 in the code), so
`first`, `last` and `next` wrap as the code's `uint32` do. `Canonical` is
`normalizeDomain`: different spellings of one host, and names that are no host.

### Resolvers

Each read, open, write or removal of a file is a step, for netd and for the CLI
alike. `os.WriteFile` is two steps: it truncates, then writes. A start fails at
the listeners, at a foreign file, at a write or while the TUN is set up (one
step, `Plumb`: it changes no state the properties tell apart), and then closes
what it opened. `on` stands for every command that ends in `startNetService`
(`on`, `install`, `restart`, `upstream`): boot the job out, bootstrap it,
`kickstart -k` it. `off` stands for `off` and `uninstall`.

Every call of launchctl may fail. The commands ignore the error of bootout
(`control.go` 203, 603), and bootstrap is left for kickstart when launchd still
has the job. So `off` may remove the files of a netd that goes on, and then
prints "netd stopped" (208): `stuck` remembers it, and `UpMeansInstalled` excepts
it until netd is started anew. `off` may fail to load the configuration, or at
`sudo rm`, and end there. A file that exists and cannot be read is taken for
absent by `installResolvers` and passed over by both cleanups; netd also goes on
over one that it cannot remove. `missed` counts these, and `DownMeansClean`,
`OffCleansButOrphans` and `ForeignKeptButRaces` promise nothing after one.

Assumptions: one CLI command at a time; one netd, launchd's; a netd that was
booted out has time to close (launchd's SIGKILL after ExitTimeOut is left out);
`kickstart -k` signals the process or kills it at once, and the second counts
as a fault.

### Capture

One step per handler: a question answered, a flow judged, piped, allowed or
refused, ended. netd stops and starts in between; a client keeps its answer
until it expires. A name is a sequence of parts so that `HasSuffix(host, suffix)`
and `HasSuffix(host, "."+a)` differ. The table is abstract, as `HostMap`'s is
(which `FakeIPStore` implements). Which process owns a flow is arbitrary, so
what holds does not depend on that lookup. A DNS message has one question.

### Flow

`Main` is the goroutine of `NewConnectionEx`, `Copying` the two of `pipeConns`;
the other actions are the kernel, the two ends and the proxy. `ProcessOwner`
follows the one entry of the socket table that has the flow's ports: `holder` is
what the kernel would say, `kept` what the snapshot says, `age` how old it is in
ticks, `TTL` ticks being the 200 ms. `find` looks the entry up, asks for the path
of its process, and goes round a second time with a fresh snapshot when the first
came from the cache; `matchesProcess` tries three times. What the flow deserves
(`due`) is told from histories of who held the ports when: a process that alone
held them, and still does, deserves its own verdict, and whoever let them go more
than TTL before the lookup must not decide.

In `UpstreamDial` the proxy's answer is a sequence of fields that arrives in
pieces, with bytes of the tunnel perhaps behind it in the same read: `early` is
`bufferedConn`'s buffer. The handshake reads with a deadline, which may strike at
any read and is taken back at its end. In `PipeConns` an end sends numbered bytes,
may half-close or reset, and may cease to read without leaving (`Stalls`): what
is then written to it stays in `io.Copy`, which sets no deadline (`netd.go`
268-286), and if the other end ends meanwhile the copier that holds its last
bytes never closes anything. `FlowEnds` promises a closed flow after any end,
unless one write stays blocked from some point on.

Left out: UDP (refused), a pid or its program replaced between the table and the
path, an entry of the kept table with pid 0, which is returned at once and has no
program (`process_lookup_darwin.go` 95), the branch of `resolveRealIP` for a host that is an address already, proxy
credentials, and what the ends do before the dial, which netd notices after it.
Reading the socket table and noting the time are one step.

### Server and CertAuthority

A request goes through `Accept`, `ReadBody`, `Do`, `Read`/`Write`/`Log` for each
chunk, `Record`, `Index` and `Finish`; the last is net/http's, which ends the
response after the handler has returned. The four kinds are those that differ in
control: refused by `ServeHTTP` (403 stands for 426 too), folded, forwarded with
and without an audited response. The fold is some writes and an end; 200 stands
for any upstream status. Each call to the disk in `audit.go` may fail, once its
record is `spoiled`. A kill or the end of `Shutdown`'s five seconds ends all
handlers at any step.

The start of the process is `loadOrCreateCA`, one step for each look at a file,
truncation and write. A CA is the number of its generation; `getCertificate`'s
cache holds one leaf with the days it has left. Days pass and the CA is trusted
only between requests, which loses nothing, as only a handshake looks at either.
Left out: a failing `net.Listen` or `loadConfig`, the CA's own expiry after ten
years, ca-trust during the first start, and a row that is written in part
(`audit.go` 145), which would spoil the next one.

### Deploy

A command is the sequence of its steps (`cmdInstall`, `cmdUpstream` and so on
are the functions of those names); `Step` runs the first of them, `Fail` ends the
command there, as an error or a kill does. A binary is its version and the place
it is at, a service what it was started with; `job` is "leaving" between bootout
and the end of its process, when launchd still has it and cannot start it. `sudo
install` writes in place in two steps, an update writes beside the executable and
renames, unless the user may not write there. At first every place to run from
has any release of its own, and nothing is installed.

Assumptions: one command at a time; plists are written whole; hitman is never run
from the root daemon's copy; a torn binary or configuration does not start. A
service that crashes is relaunched in one step.

`SuccessIsReal` counts a service as current only if it runs a whole binary with
the configuration of the moment. It has two exceptions. A job that bootout did
not drop, its error being ignored (`stuck`), passes the test at the end of the
bootstrap loop as the old job. And `restart` starts what the user's plist names
(`control.go` 176-196, 582-600): when that is another place than its own, and an
update of it was killed within `sudo install` (`byHand`), the command reports
success over a binary that does not run. `install` and `upstream` start the
binary that they are, and have no such exception.

## Runs

| Run | What it asks | Bounds and why they are enough |
|---|---|---|
| `fold_ordered` | is it one consistent response? | maxContinue 1, so a fold of two rounds; 6 events before each terminal and 3 indices, enough for an event of the preamble and two items with their ends; a round truncated inside the window, one truncated above it and one whole |
| `fold_any` | what holds whatever the upstream sends, and does the handler return? | maxContinue 2, so three rounds; 2 events a round before the terminal, of any type and in any order, with repeated and missing indices |
| `fakeip` | is the store the atomic map, and does every call return? | 2 goroutines, so a reader against a writer and two writers; 3 hosts, one spelled in two ways, and 2 addresses, so the pool runs out; the prefix is the whole address space, where `size` wraps to 0 |
| `resolvers` | are resolver files cleaned up, and others kept? | 2 domains, 2 lists, 1 edit, 2 faults (so a crash of netd and a failed write), 1 file that could not be read or removed, 1 foreign file; calls of launchctl fail without a bound |
| `resolvers_orphan` | *violated*: a kill and an edit | 1 fault, 1 edit |
| `resolvers_race` | *violated*: another program writes in between | 1 foreign write |
| `capture` | do bytes go where they should? | 3 clients, 4 names (3 targets) and 2 addresses, so the pool runs out; one restart |
| `capture_vertex` | *violated*: is what is captured served? | 1 client |
| `flow` | the right upstream, all its bytes, and an end? | 2 processes, so the ports can change hands; TTL of one tick, so a snapshot is new, usable or stale; 3 failing system calls, one for each attempt; 2 bytes an end, so one can come with the handshake and one after; a real, a fake and a mapped address; all three modes |
| `server` | is the log true, the CA kept, the service back? | 2 requests, so one can be in flight while another's row is written; 1 chunk; one shutdown, one kill, one disk fault; a leaf of 2 days, so it can reach its margin and its end; 2 CAs, so a kill can cost one |
| `server_cut` | *violated*: is a proper end the upstream's? | the same |
| `deploy` | is success real, and nothing torn? | 4 commands of all kinds, so that one can build on what two others left half done; 2 faults; 2 places to run from, 2 versions, 2 configurations |

`flow` and `deploy` have `CHECK_DEADLOCK FALSE`: a flow that is closed and a
machine whose commands are used up have nothing left to do. A returned fold
handler stutters (`Returned`), and the other systems always have a next step.

The runs between them take every action. Fairness:

- `Fold`: weak fairness of the handler's own steps. A request has a header
  timeout, a write ends when the client reads or leaves, a cancelled read
  returns (`proxy.go` 156 passes the client's context on). The upstream is not
  fair; hence `HandlerReturns` assumes that every body ends.
- `FakeIPStore`: weak fairness of each goroutine inside a call, and strong
  fairness for entering where Go's RWMutex promises that a blocked writer gets
  in; see `FairSpec`.
- `Resolvers`: weak fairness of netd's own steps, which are local.
- `Flow`: weak fairness of `Main` and of each copying goroutine. A step that
  waits for the proxy is enabled by its deadline (`proxy_dialer.go` 186), the
  dials and the resolution by their own timeouts. A read of a silent end is not
  enabled, nor is a write to one that has ceased to read: no step of an end is
  fair, and `FlowEnds` excepts the flow that such an end holds.
- `Server`: weak fairness of `Launch` (the plist's KeepAlive), of `Booting` and
  of `Shutdown`, whose context expires (`main.go` 59). The handlers are not fair:
  an upstream may be silent for ever.

## Findings

1. `resolvers_orphan`: `off` cleans up the domains of the configuration at that
   moment (`control.go` 655). After a kill of netd and an edit of
   `resolverDomains`, a file that points at the dead DNS server stays.
2. `resolvers_race`: `installResolvers` checks a file and then overwrites
   whatever is there by now (`resolver_darwin.go` 27-34).
3. `capture_vertex`: with the defaults, `us-central1-aiplatform.googleapis.com`
   is captured and then refused with 403: the two suffix rules differ.
4. `server_cut`: `forward` takes any error of the upstream's body for its end
   (`proxy.go` 231) and drops Content-Length, so that a client sees a truncated
   response end properly.

What the models also show, without a run of its own: an `off` whose bootout
fails removes the files under a running netd and reports success; a flow one of
whose ends has left is held for ever by a peer that does not read; a `restart`
reports success over a torn binary (the exceptions of `UpMeansInstalled`,
`FlowEnds` and `SuccessIsReal`: without them TLC finds each violated); a netd killed between
truncating and writing a resolver file leaves an empty one that it takes for
another program's ever after, and `kickstart -k` at the end of every `hitman on`
can be that kill (`Resolvers`, the file "empty"); and a kill inside the writing
of the CA's key leaves a key that never loads, which `ServesInTheEnd` excepts.

## Proofs

All theorems hold for every value of the constants that satisfies the named
assumptions of the modules.

`FoldProofs` proves `TypeOK` of `Fold`, alone inductive once the range of
`roundNo` is tied to `pc` and `maxContinue`. `ClientInv` adds to it what
relates `pc`, `out`, `answer` and `conn`: which events may already have been
written at each point of `run`. From that invariant follow `ConnectedClientGetsEnd`,
`RefusalComesFirst` and `NoRoundForLostClient`, and, step by step, that the fold
implements `ResponseStream` (`IsOneResponse`): an event relayed is a step of the
abstract stream and everything else stutters.

What the reply says rests on `ReplyInv`. None of its parts is inductive alone:
`IdentityInv` says that only round 1 announces a response and that it is then the
one remembered; `RoundsInv`, that each round which came to its end is listed once;
`BillInv`, that the sum covers the first input, all reasoning and the answer of the
round that stands, and that the reasoning is the sum over the rounds listed; `LastInv`, that the round that stands is the last one listed and
was not to be continued, which relates `shouldContinue`, decided at the end of a
round, to `stoppedReason`, decided at the end of the stream; `RequestInv`, that
what is replayed ends with encrypted reasoning of a round listed as truncated in
the window. That the code's remainder and lower bound decide the rule
tokens = step*n - 2 (`TierIsTruncation`) is a lemma about division. `ReplayInv` carries `ReplayIsWhatWasShown` through a round: at every
moment the replay kept so far is what the client was shown so far, item by item at
the place that the number of earlier items and rounds gives it.

`FoldOrderedProofs` has the two theorems that assume `Ordered`, an upstream which
keeps the documented order of events: with events in any order TLC finds both
false, as an item may then be announced twice, or the response completed while
one is open. `OutputInv` joins three parts.
`OrderInv`, while a round is read: the items announced have the indices 0, 1, ...,
those held are in the buffer in this order, and at most the last lacks its end.
`HoldInv`: what is held is of this round, and finished once the round is
completed. `PositionInv`: `dsOI` is the length of `finalOutput`, but for a thought
that is open, and every event sent has its item at its index, or belongs to that
thought or to the head of the buffer, whose place is the next. `AnswerInv` says
of the buffer that it is a queue: the events of its entries, one entry after the
other, are the events heard of held items from the first that was not sent to the
last. The numbers of events before each entry are a function of which the
invariant says only that it exists, so that no sum over the buffer is needed;
heard events join the end of the queue and the flush takes its head. That the
CHOOSE of `HoldEvent` is the last entry, and that `RelayRaw` has no step, are
lemmas from `OrderInv`.

`FakeIPStoreProofs` rests on `IInv`, the conjunction of `TypeOK`, `LockInv` (who
holds the lock, by program counter: a writer excludes everybody),
`TableInv` (the two maps are inverse, addresses below `next` are those given)
and `CallInv` (what a goroutine knows at its program counter is still true:
tables only grow). `MapsAgree` and `OneAnswer` are not inductive without the
second and third: nothing in them says that `next` is unused. From `IInv` follow
all safety properties of the store and the refinement of `HostMap`; the proof of
the refinement has one step per action, since INSTANCE'd operators are applied
to constants only.

`CaptureProofs` proves `Capture`'s invariants from one that says what an address
means: while netd runs, an address given in its present life belongs to the
name it was given for, and only targets have addresses.

`ResolversProofs` rests on an invariant that says, for each point of netd's life,
which files it may have marked and will still come by (`MarkInv`), that a start
installs only its own domains (`OwnInv`), and which of them it has already
passed (`InstInv`); the last holds since an `off` in progress keeps the job
unloaded (`LoadInv`). `DownMeansClean` and `UpMeansInstalled` follow.
`OffCleans` and `ForeignKept` are false (see the findings); what is true, and
proved, is `OffCleansButOrphans` (without an edit, or without a fault) and
`ForeignKeptButRaces` (until another program writes). `OffInv` and `CheckedInv`
carry these conditions as implications, so that one induction serves all five
theorems. `InstInv` and `LoadInv` hold while no `off` has gone on over a failed
bootout: a job that stayed and a file that was removed are what `stuck` excepts.

`FlowProofs` rests on five parts, under `OwnerAssumption`, `DialAssumption` and
`PipeAssumption`. `OwnerInv`: what the kept table says is about a process that
held the ports no longer ago than the table is old, and a lookup of a steady owner
has used up no attempt but for a call that failed. `PeerInv`: what was dialled is
the MITM, an address that is not a fake one, or the proxy of the mode. `ShakeInv`:
during a handshake the inbox is the fields that are still to be read and then the
tunnel's bytes in order, so that what is left over at its end is a prefix of the
tunnel. `CopyInv` and `StreamInv`: what an end got, what a copier holds, what is in
the early buffer and what is in the inbox are together what the other end sent, in
this order, and the first copier to be done has written all of it. `RightUpstream`
follows from the first two, `FirstEndIsWhole` from the last three.

`ServerProofs` rests on `IInv`, which adds to the types: `CertInv`, that the CA
of a process is the one on the disk, that its certificate is made again only
while there is no key, and that a CA is trusted only after that; `RequestInv`,
how far the log and the record are behind the client at each point of a handler;
and `RowInv`, that a row is about a request whose handler is past its index and
changes nothing any more. None of the three theorems about the log and the CA is
inductive alone: nothing in `AnsweredIsRecorded`, say, relates "finish" to the
index. A step of one request leaves the others alone (`OthersSame`), and only
`Index` adds a row, so that each action is one case and `ExitStep` the only one
that moves all handlers at once. `BoundInv` is needed for the types alone.

`DeployProofs` rests on an invariant about what a command has done and what it has
still to do. `TodoInv` says that the steps to go are steps of the command's own, in
the order of their ranks; `ChainInv`, that what is begun (a truncated copy, a
temporary file) has its end among them; and `DoneInv`, for each step that is no
longer ahead, what it has brought and that nothing done since has undone it: that a
job runs what its plist names, that the plist names the place the command came
from, that root's copy is that binary, that the configuration is the one asked for.
With no step ahead, `DoneInv` says that each service runs whatever launchd can start
of what is on the disk; that this is a whole binary follows from `NothingTorn` and
from `OwnInv`, that the binary of a command which starts services stays whole to its
end. Together they give `SuccessIsReal`. A failure ends a command with
steps ahead, so that the invariant promises nothing about it; `NothingTorn` is the
part that holds at every step.

Only model-checked:

- Every liveness property: liveness under fairness is out of the prover's reach.
- The four violated properties, which are false.

## Plan

Left to model: two commands at once over one `config.json.tmp`, and a second netd
started by hand. Every safety invariant and action property of the passing runs
is proved; what stays with TLC is named above.

## Not modelled

- The SSE parser (`processAndEmit`), `classifyEndpoint` and the usage extraction
  of `usage.go`: functions of text without concurrency, which the repository's
  unit tests cover; `Fold` starts at the parser's events, `Server` at the kind of
  a request.
- `status`, `logs`, `smoke` and `build`, which change nothing; `ca-untrust`.
- Defaults, environment variables and the precedence of the configuration; plist
  text; redaction in the audit log; which headers are copied.
- TLS and X.509 contents, the TUN stack and the sing-box libraries (external),
  launchd beyond load, unload, restart and kickstart.
