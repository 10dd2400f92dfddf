# saki-distro in TLA+

saki-distro is the set of programs an agent gateway is deployed with: tool
servers that give an LLM agent a shell, a file system and a browser, and hook
processes that watch and rewrite what goes between the client and the LLM. This
directory holds specifications of the parts of it that keep state or compute
something delicate, the TLC configurations that check them on small instances,
and theorems about them that TLAPS proves for every value of the constants.

Paths are relative to the repository's root; "main.go:410" alone means the main
file of the component the text is about.

- [The system](#the-system): parts, state, interactions, what is hard
- [The modules](#the-modules): what is modelled, and how it corresponds to the code
- [The runs](#the-runs): what TLC checks, with which bounds
- [Fairness](#fairness)
- [The proofs](#the-proofs)
- [Differences met while modelling](#differences-met-while-modelling)
- [What is not modelled](#what-is-not-modelled)
- [The plan](#the-plan)

## The system

```
             claw (CLI)
                |  POST /v1/chat/completions, streamed answer
                v
          tag-gateway  (another repository)
          |  hooks around each request        |  tool calls (MCP: JSON-RPC over HTTP)
          v                                   v
   session-hook*, tool-guard,        claw-exec   claw-fs   claw-browser   claw-web
   context-mgr                        |            |            |
          |                        docker or     upper/lower  Chromium
          | calls the gateway      runsc         directories
          +-> again: summaries, memory flushes
   (* another repository)
```

| component | source | state it keeps | operations |
|---|---|---|---|
| mcpserver | `internal/mcpserver` | the tools, fixed at start-up | decode a JSON-RPC request, call one handler |
| claw-exec | `cmd/claw-exec/main.go` | table of background processes (pid -> entry), `nextID`; per entry two output buffers, `exitCode`, channel `done`; the sandbox container | `exec`, `process_start`, `process_send`, `process_poll` |
| claw-fs | `cmd/claw-fs/main.go` | none of its own; the files | `read_file`, `write_file`, `edit_file`, `list_dir`, `glob`, `grep`, `apply_patch` |
| workspace | `internal/workspace` | an upper (writable) and a lower (read-only) directory | resolve a path, `AtomicWrite`, merged listing and walk, `DiffFiles`, `ParsePatch`, `ApplyPatch`, `FuzzyFind` |
| claw-browser | `cmd/claw-browser/main.go` | one Chromium target, a mutex | navigate, click, type, screenshot, evaluate, content |
| claw-web | `cmd/claw-web/main.go` | none | one HTTP request per call |
| context-mgr | `hooks/context-mgr` | `lastCacheTouch`, `compactPending`, `flushCount`; goroutines in flight | `Process` (prune the context before the LLM), `Notify` (save, flush, compact after it) |
| tool-guard | `hooks/tool-guard/main.go` | none | rewrites messages, one at a time |
| safenet | `internal/safenet` | none | pure functions, a dialer |
| claw | `cmd/claw/main.go` | one conversation in a terminal | send a line, print the stream |
| deployment | `deploy`, `scripts`, `config` | | build, start, restart |

How they meet, and what is hard about it:

- **Every tool server is concurrent.** `mcpserver` runs handlers straight from
  `net/http`, one goroutine per request, and an agent may have several tool
  calls under way. claw-exec guards its table and each buffer with a mutex of
  its own, but an operation takes several of them one after the other
  (`process_poll`: get, test `done`, drain, drain, remove), and a waiting
  goroutine and two copying goroutines per process run beside it. claw-fs locks
  nothing at all: it relies on the file system. claw-browser takes its mutex
  for each `chromedp.Run`, for as long as it lasts, but not for everything.
- **Time is not under the server's control.** A command may never end, may fill
  a pipe nobody reads, may not read its input; an element may never become
  visible; the LLM may answer after its client has given up.
- **Something may stop midway.** An `AtomicWrite` between its temporary file and
  its rename; a patch of several operations at its second; a handler by a panic
  (`net/http` recovers it and drops the connection); the server by a restart.
- **context-mgr calls the gateway it is a hook of.** Its goroutines' requests
  come back to `Process` and `Notify` as if a client had sent them, interleaved
  with those of all sessions, on one set of fields.
- **Text is matched, not parsed.** `edit_file` and `apply_patch` compute offsets
  and line numbers from what is probably in a file.

What makes each component correct:

- claw-exec, `exec`: a result carries the command's own status and all the output
  kept of it, a command that was started fails for known causes only, what the call
  started ends with it and within the maximum unless docker keeps it, and a call ends
  whatever its command does.
- claw-exec, background: a client that goes on polling gets all the output the server kept
  and then the true exit code, once; a pid never comes to mean another process;
  no process is running that nobody can name; the limit limits; a command that
  nobody reads from, or that does not read, holds up nobody else. Across lost
  answers and restarts of the server: what a client was told of a command is true as
  far as the runtime allows, and each byte of output that it did not get is accounted
  for.
- claw-browser: while a request works on the page no other one moves it; only the
  page can keep a request waiting, never a mutex that was not given back.
- claw-fs and the workspace: a read gives a content the file had; a listing leaves
  out no file that was there throughout, nor does a search, but for one whose upper
  copy is being deleted; a write is made of what was there; no request leaves a
  temporary file.
- patches: what was written is what is parsed, if no line of it can be mistaken for
  a marker; a truncated patch is refused; a patch that describes the file is applied exactly where it says.
- context-mgr: one flush per compaction cycle, one forced compaction per
  overflow, a bounded number of LLM calls per compaction; every goroutine ends;
  pruning and compaction lose no message but those they say.

The list of what is hard to test in this code, line by line, with the
properties that would notice it going wrong, is `hazards` in `PROJECT.json`.

## The modules

| module | models | composes |
|---|---|---|
| `ChildProcess` | a command, its pipes, os/exec's copying goroutines (external) and `limitedBuffer` | |
| `Sandbox` | what the runtime makes of a signal to a command (bwrap or docker) | `ChildProcess` |
| `ExecTool` | `exec`, its deadline, the HTTP server's time limits | `Sandbox` |
| `ProcessTable` | `process_start`, `process_send`, `process_poll`, the table, the waiting goroutine | `ChildProcess` |
| `BackgroundProcesses` | abstract: what the three tools promise a client | |
| `ProcessTablePromise` | the refinement mapping | both |
| `ExecServer` | the tools' client, lost answers, restarts of claw-exec | `ProcessTable`, `Sandbox` |
| `Browser` | the six tools, the mutex, Chromium's document | |
| `FuzzyMatch` | `FuzzyFind`, the normalizers, the replacement of `edit_file` | |
| `PatchHunks` | `ParsePatch`, `applyHunks` | `FuzzyMatch` |
| `PatchText` | a patch as it is being written, cut short at any moment | `PatchHunks` |
| `FileEditing` | one file under a sequence of reads, edits and patches | `PatchText` |
| `ShadowWorkspace` | the two layers and all the claw-fs tools, concurrent, with crashes | `PatchHunks`, through the parameter `Revise` |
| `Compaction` | the goroutines of context-mgr: compaction and flush | |
| `ContextPrune` | `Process`: guard on tool results, pruning, estimates | |
| `CompactedHistory` | which messages a compaction keeps, summarizes or leaves out | `ContextPrune` |
| `ContextMgr` | the hook, its sessions, the gateway as the hook sees it (external) | `Compaction` |

`...Inv` modules hold inductive invariants, `...Proofs` the proofs, `MC...` the
small instances. A definition under the comment "A slip" is a fault that a
change of the code could bring in; no specification uses one. They are there to
show that a property would notice.

### claw-exec: ChildProcess and ProcessTable

A step is what one goroutine does between two points where another can notice:
a section under `processTable.mu` or `limitedBuffer.mu`, a receive from or a
close of `entry.done`, a call of the kernel. An entry never shares its
`exec.Cmd` or its buffers, so an entry *is* the process it was made for.

| variable | code |
|---|---|
| `entries`, `nextID` | the fields of `processTable` |
| `exitCode`, `done` | the fields of `processEntry` |
| `waiter` | the goroutine of main.go:349: in `cmd.Wait`, before it stores the code, before it closes `done`, ended |
| `pc`, `ent`, `pid`, `finished` | a handler's position and locals |
| `os`, `sig`, `status` | the process: running, sent SIGKILL, its wait status |
| `pipe`, `copier`, `buf` | per stream: the kernel's pipe, the copying goroutine, the `limitedBuffer` |

Actions follow the handlers line by line: `Start` / `Add` / `AddFails` / `Kill`
/ `Go`; `SendGet` / `SendOk` / `SendFails`; `PollGet` / `PollCheck` /
`DrainStdout` / `DrainStderr` / `ReportExit` or `ReportRunning`; `WaitReturns` /
`SetExitCode` / `CloseDone`. Bytes are abstracted to their number, as nothing
depends on which they are. `limitedBuffer.Write` keeps its asymmetry (a full
buffer discards and says all was written; a partly full one cuts the chunk and
returns the short count), because `io.Copy` ends on a short count and os/exec
then closes the pipe under the child.

`BackgroundProcesses` is the view of a client: a command is unborn, starting,
running, finished and retired, or rejected, and the server owes it output.
`ProcessTablePromise` reads that life off the concrete state: *finished* is "in
the table and `done` is closed", *retired* is "not in the table though a waiting
goroutine was spawned", *owed* is what the buffers hold, the *verdict* is
`exitCode` once `done` is closed. A retired process owes nothing and an exit is
made known once, after which no output comes: these are what the mapping makes
of the order of drains, closes and removals.

### claw-exec: Sandbox and ExecTool

The child that claw-exec starts is not the command but what carries it: `bwrap`
with `--unshare-pid --die-with-parent`, or the client `docker exec`. `runtime` is
the global of that name; `inside` are the commands whose docker client ended by a
signal, which go on in the container (`LeaveBehind` says what a step leaves there).

A call of `exec` shares no memory with another one, so a call is its command.

| variable | code |
|---|---|
| `pc` | `arrived`: mcpserver reads the body; `begun`: the handler has its context; `run`: in `cmd.Run` after its start; `done` |
| `asked`, `deadline`, `ctx` | `timeout_ms`; the context and why it ended: its deadline, or the client's connection |
| `cut`, `reaped` | locals of os/exec: the kill for the context succeeded; `Process.Wait` returned |
| `answer`, `late` | what the handler returned; it did so after the server's `WriteTimeout` |
| `now`, `since`, `began` | the clock, and its value when the header was read and when the context was made |
| `written` | history: what the command wrote to each stream |

`BadArguments` and `StartFails` are the errors of a call without a command: arguments
that are not of their types, and a `cmd.Start` that fails with a live context (no such
program, an argument too long or with a NUL byte, no process left).
`Begin` computes the time limit with `time.Duration`'s overflow (`Wrapped`, modulo
`Word`). `Cancel` is the goroutine of os/exec that kills when the context ends: the
kill succeeds on a process that has exited and is not reaped. `RunReturns` waits
for the copying goroutines, and `Outcome` is the order in which `cmd.Run` prefers
its errors (an exit status, the context's, a copier's) with what the handler makes
of each. Time is idealised: a tick passes only while no step of the server is due,
so scheduling delay is not charged against a deadline.

### claw-exec: ExecServer

`ProcessTable`'s actions are used as they are; each is paired with what the client
and the history variables get of it. The client knows of each command the pid it
was told (`known`, in the life `learnt` of the server), asks about it (`about`) and
remembers the last word on it (`told`). `delivered` is chosen with each answer.
`Restart` ends the server at any point: table, buffers, pids and calls are gone,
pids start from 1 again, the commands end with their carrier, and in docker mode
go on inside a container that `setupDocker` attaches to again, or ends with it.
`ledger` counts the output kept that never reached the client, over all lives of the
server; `missing` is the part of it that is gone, with an answer that was lost or with
the memory of a server that ended; `carry` is what a poll has drained and not answered
yet.

### claw-browser: Browser

One handler position per blocking point: `check` (the selector probe, without
the mutex), `lock`, `act` and `wait` (inside `chromedp.Run`, with it), `relock`
and `locate` (the second `run` of a navigation). A page is a URL; what matters of
a page is which selectors its document has and which are visible. Pages may move
by themselves (`Dynamic`), a click, a key or a script may lead anywhere, a
navigation may redirect or fail. `run` has no time limit, and the model gives it none:
a navigation need never end, a script may not (`EvaluateHangs`) and then leaves the page
`stuck`, as an open dialog does, and the body whose inner HTML `browser_content` asks for
may not come (`Bodiless`).

### Text: FuzzyMatch, PatchHunks, PatchText, FileEditing

Pure functions, as operators: a text is a sequence of characters from an alphabet
with one member of each class the code distinguishes (letters, blank, newline,
an ASCII quote, a typographic one). `FindNormalized` keeps the trick by which the
code recognizes the identity normalizer (it compares what it makes of the probe
`"x y"`). `CollectLine` is one iteration of the loop of `applyHunks`,
`ApplyReplacements` the second loop, and a start beyond the file is the panic of
the slice expression. `ParseLine` is an iteration of `ParsePatch`; what remains
of a marker line after its prefix is a mark, not letters.

`FileEditing` runs these on a file request after request, so that the file a
request meets is one earlier requests made. An agent may also read the file page by
page: `Window` is what `read_file` answers for an offset and a limit, whose sum may
overflow (`WordMax`, `Wrapped`), and `pages`, history, what a reader that goes on where it
stopped has seen; it stops when it is shown nothing (`endedBy`). An agent that has
asked for nothing yet may write a patch of several files, line by line
(`PatchText`); each of its states is a patch that could reach the parser.

### claw-fs: ShadowWorkspace

Every system call that looks at or changes a file is a step: `ResolveRead`,
`StatUpper`, `StatLower`, the read, `Resolve`, `WriteTemp`, `Rename`, `Remove`,
the two listings. A request is a tool and a list of operations: one for
`read_file`, `write_file`, `edit_file`; those of the patch for `apply_patch`,
which goes on to the next operation only after success; for `grep` the walk
becomes a list of reads, in any order, upper layer first, a failing read being
skipped, until it has its matches (`MatchingLines`, `MaxMatches` for 200). What an edit or an update makes of a content is the constant operator
`Revise`; the MC module gives it a small table and an ASSUME, which TLC
evaluates, that `FuzzyMatch` and `PatchHunks` compute the same. The proofs need
nothing about it but its range.

Three variables are history of a request since it came in: `seen`, the contents the
merged view has shown for each path, which makes "at some moment of the call" a state
predicate; `changed`, the paths another request has changed; `uncovered`, those both
layers had until another request deleted the upper copy. Any requests may overlap.

`AtomicWrite` can fail before there is a temporary file (`NothingWritten`), with it
(`WriteFails`, then `Discard`, its removal) and in that removal, whose error nobody
looks at: the file stays as `litter`. `Crash` is a kill of the server at any moment:
files stay, requests are lost, a temporary file becomes `litter` too.

### context-mgr: Compaction and ContextMgr

| variable | code |
|---|---|
| `warm` | `lastCacheTouch` less than `cacheTTLSeconds` ago |
| `compactPending`, `flushCount` | the fields, hook.go:36 and flush.go:21 |
| `job[w]` | a goroutine: `go h.runCompaction`, or `go h.flusher.flush`, at its step |
| `pc[c]` | a request, of a session or of a goroutine: idle, upstream, then the critical sections of `Notify` in order |
| `loaded` | the history in the request's metadata: what `Notify` judges by |
| `waits` | which goroutine still awaits the answer to a request of a goroutine (`http.Client` hands an answer to nobody else) |
| `history`, `truncate` | session-hook's (external) |
| `flushes`, `credit` | history variables: flush requests of this cycle; overflows noted, less compactions they forced |

A message is its role and counts one token; the window is a number of messages.
A chunk or merge call is tried `MaxRetries + 1` times; the summary is audited
and asked for once more if it fails. A call ends by an answer, by a failure, or
by the client's 120 s, in which case the request goes on without anybody waiting.
A flush carries a session key of its own, under which there may be a history
(`FlushHistories`); a request of a goroutine goes through `Process` and `Notify` like any
other and may itself start a flush or a compaction. A call of a compaction has none.

`ContextPrune` takes the other half, what `Process` makes of the messages, for one
session. A message has a role, a form (text or blocks), a number of characters,
images, and perhaps a tail that `hasImportantTail` finds worth keeping; the code's
functions are operators over sequences of these. The loop of `dropOldestMessages` is
`DropFirst`, with its shifting of protected indices, as often as there are messages.
`ContextMgr.Pruned` is what this leaves of messages of one token each.

`CompactedHistory` is what a compaction makes of those messages: the last user turns
with what follows them are `Preserved` and shortened; the `Rest`, without the system
message, is cut to its share of the window (`PruneForBudget`) and into chunks
(`SplitIntoChunks`), each of which is one call of `Compaction`. `CutChunks` is the
loop with its chunk under construction.

A summary is a message of any of the lengths `SummaryChars`: what it says, and which
lists of failures and files are added to it, is data.

Assumptions: a session has one request at a time; the history is what it was
when the request came in; histories hold no system message; `FlushAt > 0`, that
is, windows of more than 24000 tokens (with less, flush.go:36's threshold is
negative and every request of a goroutine would itself ask for a flush).
`Inner` and `Worker` bound the requests and goroutines in flight; in the code a
goroutine is never kept waiting for one.

## The runs

| run | shows |
|---|---|
| `exec_tool` | a call of `exec`: deadline, disconnect, exit and output cap |
| `exec_max_timeout` | **violation**: the longest timeout the schema allows loses its answer |
| `exec_server` | safety of the process table, with lost answers and a restart |
| `table_liveness` | the promise of `BackgroundProcesses`; exits are observed, calls return |
| `table_output_cap` | **violation**: output that overshoots the buffer kills the command |
| `browser_tools` | exclusion, and the only things that can keep a request waiting |
| `text_edits` | `read_file`, `edit_file`, `apply_patch` and its parser do to a text what they say |
| `patch_panics` | **violation**: "best effort" context ends in a panic |
| `workspace` | reads, searches, listings, edits and patches beside each other, failures, a crash |
| `context_cycle` | flush cycle and overflow flag, two sessions |
| `context_calls` | timeouts and retries of a goroutine's calls; termination |
| `context_prune` | what the LLM gets of a history, and what a compaction keeps of it |

Each property of a passing run is paired (`mutants`) with a faulty variant of a
definition of the model, under which the same run finds the property violated.

### exec

`exec_tool`: one call, since calls share nothing; both streams talk, up to two
bytes for a limit of one, so that a chunk can fit, fill or overshoot the buffer;
two exit codes. The time limits are 2 by default and 4 at most, 1 to read a body, 4
to write an answer. `timeout_ms` is absent, 1 (within the maximum), 3 (past it) or 5,
whose product with the unit overflows (`Word = 16`) to a negative duration. The
clock stops at 7, which is enough for a call to arrive late, to be read late and to
use the maximum; a call that could not be followed to its end does not arrive.

- `ResultIsTrue`: a result has the status the command ended with and, per stream, all
  it wrote up to the limit: the kill and the exit never mix;
- `ErrorHasACause`: a command that was started is answered with an error only if it
  ended well, and was killed for its context when it had ended or wrote past the limit;
  a call that errs without a command (bad arguments, a start that fails, a context that
  is done) has none to lose;
- `NothingOutlivesTheCall`: but for the command of a docker client that was signalled;
- `RunsAtMostMax`: whatever `timeout_ms` says, a command that still runs `MaxTimeout`
  after its call began is one a signalled docker client left in the container;
- `AnsweredInTime`: an answer misses `WriteTimeout` only if the client itself asked
  for a time limit that leaves no room for it;
- `CallEnds`, under fairness; `TypeOK`.

`exec_max_timeout`: `AnswerReachesTheClient`, from "default 30000, max 300000"
(main.go:258) and "long for tool execution" (`internal/mcpserver/server.go:125`). The
`WriteTimeout` of 300 s starts when the header is read, the 300 s of the longest
call when its body was: a command killed at its deadline is answered when the
response can no longer be written, though the client still waits.

Deadlock is not checked: the clock ends.

### Background processes

`exec_server`: two commands, two concurrent requests, room for one process
(`MaxProcessCount = 1` for the code's 32), a buffer of one byte, a pipe of two, one
stream that talks, either runtime, one restart, any answer lost. Two commands are
what it takes for one to be refused while the other runs, for one to retire and the
other to be started while a late poll still holds the old pid, and for an old pid to
name a new command after a restart; two requests for polls of one pid to overtake
each other. At most one byte of a stream is lost with answers (`MaxMissing`). A buffer smaller than a chunk is where a write is cut. The second stream
runs the same code and is silent; its drains still take place. Commands and requests
are each alike, hence symmetry. Checked, restarts included:

- `RemovedMeansDelivered`: a pid is given up only after the exit, and with
  nothing undelivered;
- `ReportedCodeIsReal`: a poll never reports the zero of a fresh entry;
- `LiveBounded`: as the limit is looked at after the start, it bounds live
  processes up to the starts in flight;
- `ReachesItsCommand`: in the life of the server that gave out a pid, a request with
  it reaches that command or none;
- `ToldMeansOver`: what a client may conclude that is told of an exit, or "no process":
  what carried the command is over; the command goes on only in docker mode, after a
  signal to its client or a restart; and the output it did not get went with an answer
  that was lost or a server that ended, or is in the hands of another poll;
- `LedgerBalances`: a byte that was kept is delivered, in its buffer, carried by one poll,
  or gone in one of these two ways; none is answered twice;
- `OnlyDockerLoses`: a live command is in the table, or in the hands of the
  `process_start` that made it, or killed; it is out of reach only in docker mode, by a
  signal to its client or a restart.

`table_liveness`: `ProcessTable` alone, with the same bounds. `ExitObserved`: an exit is made known even if nobody ever drains;
`CallsReturn`: only a send to a running process that does not read can hang;
`Promise`: the specification implements `BackgroundProcesses`.

`table_output_cap`: `OnlyKilledBySignal`, from the tool's description "Start a
long-running background process" (main.go:310). With room for two bytes and a
chunk of three, `limitedBuffer.Write` returns 2 of 3 (main.go:473-476), `io.Copy`
ends with `ErrShortWrite`, os/exec closes the read end, and the next byte the
command writes is a SIGPIPE. Had the chunk ended exactly at the limit all later
output would have been discarded silently and the command would have lived.

Deadlock is not checked in these: when all `Procs` have been used and nobody
asks for anything the server rests.

### Browser

`browser_tools`: two handlers, five pages (one redirects, one has a hidden
element, one shows two, one has no body), two selectors, pages that move or get stuck by
themselves. `RunIsExclusive`: no step of another request moves the target while a
request is inside `run`. `OnlyThePageHangs`: under fair scheduling a request is
answered, unless the page is stuck (a script that does not end, a dialog nobody closes)
or the mutex is held by a request that waits for its navigation to end, for a body, or
for an element to be visible. That each of these can indeed happen, and then keeps
every other request waiting, is one of the
[differences](#differences-met-while-modelling). Deadlock is not checked: a
request that waits for an element on a page that never moves is one.

### Text

`text_edits`: files of up to three characters over five classes, old strings of
up to two, and files of up to four characters of three classes under patches of
up to three lines with three prefixes and three texts. Lines as short as these
make every kind of neighbourhood: empty lines, a trailing newline, equal lines,
matches at the end. Requests are only made of files within those lengths (the
run ends at longer ones, hence no deadlock check).
`EditReplacesTheOnlyOccurrence`: an edit that answers ok cut out the only
occurrence, which has the length of the old string. `ExactPatchApplies`: in a
file no two lines of which match one another, an update whose old lines are a
block of the file (at the top, or led by a context line) yields exactly the file
with the new lines in their place.

The same run writes patches of up to two operations of up to two lines, any of which
may read like a marker. `ParsesWhatWasWritten`: the parser returns what was written, and
refuses what is cut short, unless a context line reads like a marker (see the
differences). It also reads each file in pages of one or two lines, or as many as the
largest int (`WordMax` is 7, which `Limits` has): `PagesAreTheFile`, an agent that is
shown no more has seen the file, unless the sum of its limit and the lines it has seen
overflowed.

`patch_panics`: `UpdateIsAnswered`, from "best effort" (patch.go:214). In a file of one
line the first of two context lines is found; the second is not and moves the position
on all the same. The replacement then starts beyond the end and `fileLines[:r.start]`
panics (patch.go:261). The request is dropped, the file is unchanged.

### Workspace

`workspace`: two clients over three files, one of which only the lower layer has at
first and one of which is denied; every tool; an edit that does not apply, a patch that
updates and deletes, one that panics midway; a failure of any step of a write; crashes.
Two clients, since each property is about one request and what others do meanwhile;
three files are enough to have one of each origin, and a walk with an order; two matches
end a search, and one file or two can have them. Any two requests overlap.
Deadlock is checked.

- `ReadTellsTheFile`: a read answers with a content the merged view had in its call, or
  an error if there was no file at some moment. The code falls short of this in one case,
  which the property names: a read sent to the upper layer by its `stat`, whose file
  another request then deletes, answers that there is none though the lower one shows at
  every moment (`uncovered`);
- `GrepSearchesEveryFile`: a file that stays is searched, but for one `uncovered` during
  the search and for what comes after the last match grep takes;
- `ListShowsTheFiles`: a file that stays is listed, one that never was there is not;
- `WritesFollowTheView`: every write puts into a file what its operation makes of a
  content the view showed during the request, and of the present one unless another
  request has changed the file meanwhile. Two concurrent changes may lose one: the code
  takes no lock, and the property only says that nothing older is lost;
- `TempsAreInFlight`: a temporary file belongs to a request that is about to rename or
  to remove it, whatever failed; `litter` is left by crashes and failed removals alone.

### context-mgr

`context_cycle`: two sessions, two goroutines, one request of theirs at a time,
no retry, windows of a few messages, histories up to four, flushes without one, one
overflow.
Two sessions are what it takes for two responses to find `flushCount` at zero
before either goroutine swaps it, and for one session's overflow to meet
another's check. `OneFlushPerCycle`, `OverflowForcesOnce`. Sessions,
goroutines and requests are each alike, hence symmetry; the run has no liveness.

`context_calls`: one session and one goroutine with room for two requests of its
own, so that one may still run, unawaited, while the next is made; two chunks, one
retry; flushes whose own history is empty, or long enough to be flushed and compacted in
its turn. `CallsAreBounded`: a compaction costs at most
`(ChunkCount + 1) * (MaxRetries + 1) + 1` calls. `GoroutinesEnd`. (How many compactions
run at a time nothing in the code bounds; in the model `Worker` does.)

`context_prune`: sessions of up to five messages that are, in every order, short and
long texts, pictures, tool steps, and tool results below and above the cap; with and
without a system message; a warm or a cold cache. One recent assistant turn is
protected (three in the code), so that a session of five has both protected and
unprotected ones on either side. The limits are in the code's proportions where
they matter: a marker is longer than the suffix, a placeholder may be longer than a
result it replaces, a window holds a few messages. Each stage does end the pruning
in some state, two messages are dropped from before and from behind protected ones,
and a context that is still too large occurs. `OnlyTheOldestGo` compares the loop
that drops, with the index arithmetic it does, with what it is for.
`DropsWhatItMust`: nothing is dropped that would have fitted; and, while the cache is
cold, a session is truncated only when nothing is left to drop (while it is warm the code
truncates without having pruned). `GuardHolds`: a tool result that is a text is within
its cap; the results, those in blocks too, are within their total or have given way from
the oldest on. Results in blocks are not capped one by one, which is a
[difference](#differences-met-while-modelling). The bound on messages ends a session,
hence no deadlock check.

Every session of the run with at least three messages is also compacted, with one
preserved turn, turns cut at six characters, two chunks and a share of eight of the
ten tokens of the window. Among them are sessions with no user turn, with nothing
before the last one, with more than the share, with fewer messages than chunks need,
and with one message larger than a chunk. `CompactionCoversTheSession`: every message
is preserved, told in one call, or among the oldest that are beyond the share.
`ChunksAreBalanced`: at most `ChunkCount` calls, none empty, only the last larger than
its part. `CompactingAgainKeepsTheTurns`: when a compacted session is compacted again,
whatever the lengths of the two summaries (none, small, larger than the window), only the
summary is summarized, and only the summary changes: the turns are those kept before, cut
no second time. What of the first summary the second one repeats is up to the LLM.

## Fairness

- `ExecTool`: weak fairness of the clock, of the steps of mcpserver and the handler, of
  the copying goroutines and of the delivery of a kill. None for a command writing or
  ending, nor for a client calling or hanging up. `CallEnds` therefore rests on the
  deadline alone.
- `ProcessTable`: weak fairness of each handler's own steps, of the waiting
  goroutine, of the copying goroutines and of the delivery of SIGKILL: the Go
  scheduler runs what can run, the kernel delivers a kill. None for requests
  coming in, nor for a command writing, reading or ending; `SendOk` is the
  command's doing and is not fair.
- `Browser`: weak fairness of what a page that is not stuck can answer; none of a
  navigation, whose load nothing bounds, of a body or an element appearing, nor of a stuck
  page answering again; a script that is run ends or makes the page stuck. Strong fairness of
  `Lock`, since `sync.Mutex` in its starvation mode hands over to the goroutine
  that has waited longest. None for pages that move.
- `ContextMgr`: weak fairness of the goroutines' steps, of `Notify`'s sections
  and of the answers to a goroutine's request (the HTTP client gives up after
  120 s if nothing else happens). Strong fairness of making a request, because
  only the model's bound `Inner` can keep one from being made. None for sessions.
- Safety runs assume none.

## The proofs

Checked by TLAPS for all values of the constants under the modules' ASSUMEs.
The runs check the properties a reader cares for and not the inductive invariants
(`...Inv`) they follow from; these are state predicates of the modules that the `MC`
modules extend, and an `INVARIANT` line in a configuration lets TLC look at them before
a change of theirs is proved.

**ProcessTable** (`BackgroundProofs`). The properties are not inductive. `Inv`
adds what they rest on: `Fresh` (nobody knows a process that was not started),
`Serving` (a handler works on a started process; its pid was handed out),
`KnownEntry` (what a poll or send works on is in the table or done), `StartOwns`
(`process_start` has its process to itself until it spawns the waiter),
`OnePidPerEntry`, `WaiterProgress` (what lies behind each step of the waiter: the
exit and the copying goroutines' end, the code stored) and `PollProgress` (a poll
that found `done` has drained what it has passed, and nothing can come after). The
last two carry the argument: `done` implies that no copier is left, so a buffer
drained after `done` was seen stays empty. `TypeCorrect`, `InvHolds`, and from
them `Delivered`, `CodeIsReal`, `StalePidIsSafe`, `NothingOrphaned`. `LimitHolds`
counts: a live process is in the table or in flight, the table is within its
limit, and the union of two finite sets is no larger than their sum.

**ExecServer** (`BackgroundProofs`). A step of the server is a step of `ProcessTable`,
for which the lemmas on that are cited, or a restart. `ServerInv` adds to `Inv`: `Past` (a
command of an earlier life is over and unknown to this server), `Names` (a pid of this
life leads to its command or nothing; an older one belongs to a command that is past),
`StartsUnknown`, `Asked`, `Told`, `Left`, and for the output `Carried` (only a poll that
has passed a drain carries what it drained) beside `LedgerBalances` itself.
`ServerTypeCorrect`, `ServerInvHolds`, `RequestsReachTheirCommand`,
`ClientIsToldTheTruth`, `OnlyDockerLosesCommands`; `BwrapLimitHolds`: with bwrap the limit
bounds the commands that run, on both sides of a restart (in docker mode nobody counts
what is left in the container, and nothing is claimed);
`OutputIsAccountedFor`: what was kept of a command's output and did not reach the client
is in its buffer, carried by the polls in flight, a sum over the handlers of which a step
changes one summand, or gone with a lost answer or an ended server; and
`TableHoldsAcrossRestarts`: what `ProcessTable` promises for one life of the server holds
over all of them.

**ExecTool** (`ExecToolProofs`). `Inv` is a conjunction over calls: `Clocked` (how far
the clock can be at each place of a call), `Owned` (the command lives within its call
and is killed for its context only), `Kept` (what was written is kept or in the pipe
until the limit is reached; a copier gives up only past it) and `Answered` (what the
answer rests on). The steps of a call disturb its own conjuncts; the clock those of all,
which is why it may not pass a step that is due. `ExecTypeCorrect`, `ExecInvHolds`,
`ExecResultIsTrue`, `ExecErrorHasACause`, `ExecLeavesNothing`, `ExecRunsAtMostMax`,
`ExecAnsweredInTime`, for any number of calls and any time limits with
`DefaultTimeout <= MaxTimeout` and `Word > 2 * MaxTimeout`.

**Browser** (`BrowserProofs`). `TypeCorrect` has the mutex in it: exactly the handler
inside `run` holds it. `RunExcludes` follows: whoever moves the page is the holder.

**ProcessTablePromise** (`BackgroundProofs`). `Implements`: each step
maps to a step of `BackgroundProcesses` or leaves the mapped state alone. For
`ReportExit` to be `Retire`, nothing may be owed: that is
`PollProgress`; for `Copy` never to come after `Finish`, `WaiterProgress`.

**ShadowWorkspace** (`ShadowWorkspaceProofs`). For any `Revise`, any requests and any
number of clients. `ClientInv` says of a reader at each step that the layer it was
sent to shows, or has shown, what the view has, unless the file was `uncovered` since
(`LayerIsSeen`), of a walk that each file that stays is in the result or still to come
(`ListIsComplete`, `SearchIsComplete`), and of a writer that what it has in hand was made
of what it saw (`Made`). The step of another client can only add to what was seen, changed
and uncovered: `Rename` and `Remove` are the two lemmas that matter. `InvHolds`,
`TypeCorrect`, `ReadsAreRegular`, `SearchesAreComplete`, `ListingsAreComplete`,
`WritesAreOfWhatWasShown`, `TempsAreAccountedFor`.

**ContextMgr** (`ContextMgrProofs`). `SpentInTime` bounds what a goroutine has
spent by its place in the pipeline, plus one while a call is out; with
`WaitsMatch` an answer or a timeout is counted against the right attempt.
`InvHolds`, `TypeCorrect`, `FlushedOnce`, `ForcedOnce`, `CostIsBounded`.

**Folds** (`FoldLemmas`). What the text and pruning modules compute is a fold over a
sequence. The induction theorems of the library take a predicate as a parameter, which the
provers cannot instantiate; here a set of numbers stands in its place
(`Induction`, from the well-foundedness of inclusion on finite sets), and a fold is known
by the function of its intermediate values, which is proved to exist and to satisfy a
recurrence. A fact about all inputs is then an induction along that function.

**FileEditing** with `FuzzyMatch`, `PatchHunks`, `PatchText` (`FileEditingProofs`). Assumed
is what `EditingAssumption` and `WrittenAssumption` say: texts and patches are finite
sequences, and a limit is positive and an int.

- `ReadingInv` has `Requests` (what is asked for goes on where the pages end; a change makes
  them void) and `Shown` (the pages are the first lines of the file). From it
  `ReadingShowsTheFile`; a sum that overflows is a page of nothing (`NextPage`).
- `EditsReplaceTheOnlyOccurrence` rests on the probe (`ProbeIsKept`): every level is the
  exact search, so that what is found has the length that is cut.
- `PatchInv` says of every prefix of a patch that `ParsePatch` has read of it exactly the
  operations written so far, the last one open (`Understood`), unless a context line in it
  reads like a marker (`Unmistakable`): a header closes and opens one, a line is added to
  the open one. `PatchesAreReadBack`.
- `DescribedPatchesApply` needs the two loops of `applyHunks` at once. `Collected` says of
  the first loop that the replacements it has collected, applied from the last one back,
  turn the part of the file it has passed into what the patch wants there, and leave
  *whatever follows* alone: only so does the last replacement, which the second loop applies
  first, not move the others. A context line, a removed line and an added line each keep
  that (`ContextStep`, `RemoveStep`, `InsertStep`); the position is right
  because in an unambiguous file a context line is found where the patch means it
  (`ContextIsFound`). `Follows` is both, line by line of the patch.

**ContextPrune** with `CompactedHistory` (`ContextPruneProofs`), for any limits that
`PruneAssumption` and `CompactedAssumption` allow and any messages
(`MessagesAssumption`: what comes in is messages). `PruneInv` is that what is sent is made
of what was built by the stages the state of the cache asks for; the rest are facts about
these.

- `ResultsStayInBudget` (`GuardHolds`): no result that is a text is above its cap, and the
  results, in whatever form, are within their budget or all but protected ones are gone,
  oldest first (`OldestResultsGo`); the total the loop keeps by subtraction is that of the
  messages as they are.
- `OldestGoFirst`, `PruningIsNeeded`: after each round of `dropOldestMessages` its messages
  are the original ones without a set `D` that has no protected message, and its shifted
  indices point at the same messages as before (`Thinned`); each round took the oldest that
  is free (`OneIsDropped`), and only while the rest was too large (`HadTo`).
- `CompactionCovers`: the head, the part to summarize and the preserved turns are the
  session, cut at two places (`Parts`); what `PruneForBudget` keeps is the longest end of its
  part that fits (`LongestEnd`); the chunks, put together, are that (`SplitWell`).
- `ChunksAreInShare`: `CutSoFar` has, message by message, that the chunks cut so far and the
  open one are what was passed, that none is empty and each but perhaps the last is in its
  share, and that no more than `ChunkCount - 1` are closed.
- `SecondCompaction`: of a compacted session the preserved turns are the same ones,
  shortened already, and what is before them is at most a summary (`PartsOfCompacted`), for
  any session, limits and summaries.

Only model-checked are the liveness properties `CallEnds`, `ExitObserved`, `CallsReturn`,
`OnlyThePageHangs` and `GoroutinesEnd`: they rest on fairness, and with that on ENABLED,
which is out of the prover's reach. Every invariant and every action property of a passing
run, and the refinement `Promise`, is a theorem above.

## Differences met while modelling

Three are runs: `exec_max_timeout`, `table_output_cap`, `patch_panics`. The
others are visible in the modules, and no property is claimed there that they
would break.

- `exec` has a case for a killed command (137) that is not reached by the kill of its
  context: a signalled child reports -1.
- `exec` answers a command that could not be started (`cmd.Start` failed) with the same
  kind of error as one whose output was cut (286-296).
- A command that ended with 0 and is killed for its context before it was reaped is
  answered as an error without its output (286-296).
- The output of a command that ended with 0 is dropped, and an error answered, when it
  crossed the limit of 1 MiB inside a chunk: `limitedWriter` returns a short count, and
  `cmd.Run` fails with it (`cmd/claw-exec/main.go:287-296, 443-454`).
- A large `timeout_ms` overflows in its product with `time.Millisecond` before it is
  compared with the maximum (270-276): the call fails at once.
- In docker mode a kill (at the deadline, or of a refused start) and a SIGPIPE end the
  client `docker exec`; the command goes on in the container (238-245), past the maximum
  time limit, and after a client was told of an exit. A restart leaves all of them there
  (169-197), and the process limit does not count them.
- Output that a poll has drained is gone if its answer is lost, and what a buffer holds
  when the server ends is gone too (417-418): nothing is kept until it is acknowledged.
- `config/tagd.yaml:28` gives a call to claw-exec 120 s, less than the 300 s `timeout_ms` may ask for.
- `cmd/claw-fs/main.go:55` offers a "byte offset" for `read_file`; it is a line number
  (87), as its schema says (61). A limit so large that offset + limit overflows (95) is
  answered with nothing, though lines are left.
- `cmd/claw-browser/main.go:101-102` says the probe of a selector avoids waiting
  for a missing element for ever. The probe runs before the mutex is taken
  (229): a navigation in between, or a page that moves, and the click waits, with
  the mutex, without limit (the time limit `run` is given is ignored, 93). So does a
  navigation that does not load (147), a script that does not end (296) and the content of
  a document without a body (313); every other request then waits behind it.
- `browser_navigate` reports the URL of a second critical section (159): another
  request may have navigated in between.
- `internal/workspace/fuzzymatch.go:12-14` lists four levels; the probe `"x y"`
  (67) takes every normalizer for the identity, so that every level is the
  exact search, and the tolerant ones never run in `FuzzyFind`.
- `internal/workspace/patch.go:184` "Context lines and '-' lines are matched
  against the file": removed lines are counted, not compared (218-232).
- A context line whose text reads like a marker ends the patch, begins a file or is left
  out (62-97), though any text may follow the space (30): a patch of a file that contains
  patches is misread.
- The operations of a patch before the one that fails stay applied (`ApplyPatch`): there
  is no way back.
- `internal/workspace/workspace.go:215` "TOCTOU safety" is about partial writes:
  two concurrent `edit_file` or `apply_patch` on a file lose an update. A temporary file
  whose removal fails, or that a crash leaves, is listed from then on (222-245).
- `patch.go:121` "delete removes it": only the upper layer's file is removed (132);
  one of the lower layer shows through again.
- `workspace.go:9` "fall back to lowerDir": if the upper file goes between `stat`
  (83) and the read, the read fails, and `grep` skips the file; neither falls back.
- `grep` stops at 200 matches (`cmd/claw-fs/main.go:310, 333`) and does not say which
  files it has not read.
- A blacklisted name may be written once; later accesses are refused, because
  only existing files are checked (297).
- `hooks/context-mgr/hook.go:36, 173` "on next request": the flag is taken by
  whichever `Notify` comes first (198), usually the one that set it, possibly that
  of another session or of a history too short to compact, in which case the session that
  overflowed is not compacted.
- `hook.go:137-138` "Layers 1+2 insufficient": while the cache is warm pruning is
  skipped, and truncation is asked for all the same.
- `compact.go:316` "Mark as internal to prevent context-mgr from processing this
  request": the mark is a header, which the hook does not get; `isInternalRequest`
  always returns false (`hook.go:305`; its own comment says that all requests are let
  through). In `ContextMgr` a request of a goroutine therefore touches the cache time,
  takes `compactPending`, and may start a flush or a compaction of the history its own
  session key has (`flush.go:91-92`); the one of a compaction's calls is empty.
- `truncate.go:11` "Cap each individual tool result": one whose content is in blocks is
  not capped, because its text is empty for `messageContentString` (40-43). It counts in
  the total, and gives way with the others.
- A long result that comes in as the request's input is capped in the very message map that
  is then saved (`hook.go:150`): the history keeps the truncated one.
- `truncate.go:309` "their associated tool results": of several results of one call
  only those next to it are protected (337, 344).
- `truncate.go:91` "Always preserves: system (first)": the first message is kept also
  when the request has no system message and it is the oldest of the history.
- `flush.go:14` "before compaction": in a default window the flush's threshold
  (176000 tokens) is above the compaction's (160000), both goroutines are started by
  the same `Notify` (187, 210) and run side by side; and a compaction that began
  before a flush resets the cycle while that flush is out (259).
- The second summary is not audited (`compact.go:81`), where `main.go:6` has
  "quality audit"; one that is empty is left out of the history with what it stood for
  (106). A second compaction has the first summary summarized again and puts the new one
  in its place, the lists of failures and files that were added to the first included (69,
  106-112): what of them survives is up to the LLM.
- With no turn of a user the cut is at the first message, so that a system message is kept
  and told to the LLM as well (174-176).
- An answer without tool steps is not saved by this hook (`hook.go:310`), where 156
  has "save assistant response".
- `config.go:36` "parallel summarization": chunks are summarized in sequence.
- `config.go:14-15` prune at 30 % and 50 % of the window; `truncate.go:94` returns
  early up to 100 %.
- The result of a compaction is dropped (`hook.go:266`, noted there as to come), so
  a session above the trigger is compacted again at each response; nothing notes that one
  is running (210), so that any number of them may run at a time.

## What is not modelled

- Container set-up of claw-exec (the arguments of `docker run` and `bwrap`, the proxy
  environment): text handed to another program, done before the first request. What
  the choice of runtime changes for a command is in `Sandbox` and `ExecServer`.
- Screenshot encoding; wording, logging, JSON.
- `mcpserver` beyond its time limits (`ExecTool`) and its goroutine per request (every
  module of a tool server): decoding, the list of tools, the dispatch by name.
- `claw-web`: two tools without state that make one HTTP request each and convert the
  answer; there is no order of events to explore.
- `tool-guard`: one pass over the messages of one request, nothing kept between them. It
  and `safenet` are functions of a text or an address whose content is character-level
  patterns, which a model would only repeat.
- `claw`: one goroutine that sends a line and prints the stream. (A stream that ends
  without `[DONE]` counts as a complete answer.)
- Start-up of context-mgr (three environment variables); deployment scripts.
- In `ContextPrune`: which texts have an important tail (it is a trait of a message,
  which trimming does not change), and the lengths of the inserted texts, which depend
  on the number of digits they show (they are constants).
- In `ShadowWorkspace`: symbolic and hard links, directories, path traversal, I/O
  errors of reads, files that others change in the lower layer, `grep` reading a
  temporary file, the patterns of `glob` and `grep`.
- In `ContextMgr` and `CompactedHistory`: the text of prompts and summaries, enrichment (of
  a summary only a length); in `ContextMgr` also the tokens of a message.
- In `ExecTool`: the time the server itself takes; a child of the command that keeps its
  pipes open after it. bwrap reports a signal of its command as 128 and the signal's
  number; the model has one value for both.

## The plan

Done, in this order: `ChildProcess`, `ProcessTable` and their proofs, the abstract
`BackgroundProcesses`; `Browser`; the text modules; `ShadowWorkspace` and its
proofs; `Compaction`, `ContextMgr` and their proofs; `ContextPrune`; `Sandbox`,
`ExecTool`, `ExecServer` and their proofs; `CompactedHistory`; the proofs of `Browser`;
`FoldLemmas`, the proofs of the text modules, of pruning and of what is compacted.

What could be added:

1. `ContextMgr` over the messages of `ContextPrune` and `CompactedHistory`, so that
   flushes, compactions and truncations are triggered by what pruning leaves.
2. Abstract specifications: a regular register for `ShadowWorkspace` (a read
   returns a value of its interval), with `ReadTellsTheFile` as its refinement; the
   flush cycle as a counter that two kinds of events move.
