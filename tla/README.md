# Claude-Code-PTY: specifications, model checks and proofs

`claude_pty` drives interactive Claude Code processes: it types prompts into a
PTY (or injects them through an MCP channel), follows the JSONL file Claude Code
writes, and decides from it which turn belongs to whom. What is hard in it is
concurrency: an asyncio event loop with several coroutines per session, executor
threads, a file read through one shared offset by three readers, and a process
that dies, is stopped, or answers late. This directory models that part in TLA+.

Paths below are relative to `src/src/claude_pty/`.

## 1. Inventory

| Part | State | Operations | Interacts with |
| --- | --- | --- | --- |
| `Session` (session.py) | current process, `_send_lock`, `_turn_state_lock`, turn owner, active / interrupted / unsettled process, pending steer, prefetched records, restart count | `start`, `send_prompt`, `steer_active_turn`, `send_interrupt`, `stop`, `_idle_watcher`, `_auto_resume`, `migrate_session`, `inject` | reads records through `JsonlReader`, writes through `PTYProcess` or `BridgeHub`; used by pool and adapters |
| `SessionPool` (pool.py) | dictionary of sessions, one lock, reaper task | `get_or_create`, `_evict_one`, `remove`, `drain_idle`, `reap_idle`, `stop_all` | creates, starts and stops sessions; `launch` and `_force_kill` reach into its dictionary |
| `BasePTYBackend` (adapters/base.py) | sessions and consumer tasks per key | `launch`, `_consume`, `stop`, `migrate_and_relaunch`, `shutdown` | pool, sessions |
| `CCMBackend` (adapters/ccm.py) | proxies per instance, links between proxy and session | `launch_for_ccm`, `on_exit`, `kill` / `_force_kill`, rotation | dispatcher and database of the host |
| `JsonlReader` (jsonl_reader.py) | file offset, partial line | `read_new_messages`, echo matching, normalisation | sub-agent tracker |
| `PTYProcess` (pty_process.py) | child process, master fd, drain thread, input lock, banner flag | `spawn`, `send_prompt`, `send_interrupt`, `stop`, startup dialogs | operating system |
| `SubagentTracker` (subagents.py) | pending sub-agents, their task ids, transcript offsets | `note_tool_use`, `note_tool_result`, `note_user_text`, `reconcile_terminal_tool_uses`, `transcripts_grew` | fed by `JsonlReader.normalize`; `has_pending` keeps a session in the pool |
| `BridgeHub` (bridge.py) | inject port of each session, handlers of the host | `register_session`, `unregister_session`, `inject`, `resolve_permission` | sessions and host on one side, HTTP to the channel servers on the other |
| `channel_server` (channel_server.py), a process beside each Claude Code | pending permission requests and their results | `/inject`, `/permission_resolve`, `_handle_permission_request` | Claude Code over stdio, the hub over HTTP |
| config, env, events, exceptions | none | | |

What makes each part correct, and hard:

* **Session.** A turn completes on its own terminal record only; nothing in the
  journal is skipped or handed out twice; a steer's receipt is genuine; a steer
  that Claude Code accepted is followed by a consumer or its process is stopped;
  `False` means that the text will not run later; nobody waits for ever. Hazards:
  every await under or between the two locks, batches that hold several records,
  inputs that are lost or acknowledged late, a process that dies in between.
* **Pool.** No live process outside the dictionary, one process per conversation,
  no more than `max_sessions`, no session taken away in a turn, every call
  returns. Hazards: cancellation during a start, lists that are stale after an
  await, checks outside the lock, a session under the key `""`.
* **Reader.** The records that Claude Code completes are handed out once and in
  order, whatever byte a read ends at. Hazards: a read that raises in the middle
  of a character, a preflight that reads ahead, a cancelled read whose thread
  goes on.
* **Terminal.** A prompt reaches Claude Code as one frame; `stop` lets it finish;
  startup dialogs are answered; nobody keeps the input lock. Hazards: four kinds
  of writers, writes that block, a child that dies, a descriptor that is closed.
* **Sub-agents.** A session whose agent is at work is kept, and one whose agents
  have ended is let go. Hazards: launches that look like completions,
  notifications that a consumer drops, completions that are never journaled as
  user records.
* **Channel.** A prompt gets into its own conversation, once; a permission is what
  the host decided or the timeout. Hazards: ports picked before they are bound,
  servers that outlive their process, answers that come early, late or never.
* **Adapters.** The newest turn keeps its instance slot; each dispatcher is woken
  exactly by the end of its own turn, across rotations, takeovers and kills.

`PROJECT.json` lists the hazards line by line with the properties for each.

## 2. Modules

| Module | Models | State and actions |
| --- | --- | --- |
| `SessionTurn` | one `Session` around Claude Code | variables carry the names of the attributes; a coroutine is a program counter (`pc` of the sender, `spc[s]` of each steer, `irq`, `stopPc`, `watchPc`), an action what it does between two awaits |
| `SessionTurn_proofs`, `SessionJournal_proofs` | theorems about it | |
| `SessionPool` | the pool, `launch`'s re-keying, `BasePTYBackend.stop` and `_force_kill` as the pool sees them | `lock` and `waiters` are the `asyncio.Lock`, `call[t]` a task inside a pool operation, `state[o]` a Session |
| `MCSessionPool` | its symmetry for TLC | |
| `SessionPool_proofs` | theorems about it | |
| `JournalFeed` | what consumers rely on when they read a journal (abstract) | `journal` complete records, `handed` the position up to which records were given out, `batch` the last ones, `cut` |
| `JsonlReader` | `read_new_messages` byte by byte, in its worker threads, with the coroutines that call it | `offset`, `buffer` and `prefetched` are the attributes, `lock` is `_reader_lock`, `thread[t]` a read; implements `JournalFeed` |
| `JsonlReader_proofs` | theorems about it | |
| `SubagentTracker` | the tracker, fed by `send_prompt` and the idle watcher | `pending` and `tasks` are the dictionaries, `todo[r]` the batch a consumer is normalizing; reads by `JournalFeed!HandOut` |
| `SubagentTracker_proofs` | theorems about it | |
| `ChannelBridge` | the hub, the channel servers, the delivery of prompts, permissions | `port` of each session, `server` on each port, `reg` of the hub, `delivery` is a `_deliver_prompt`, `req` a permission request with its thread |
| `ChannelBridge_proofs` | theorems about it | |
| `PtyInput` | the terminal of one process: writers, drain thread, `stop` | `lock` is `_input_lock`, `running`, `open`, `died` the flags, `input` and `output` what the terminal holds |
| `PtyInput_proofs` | theorems about it | |
| `CCMSlot` | one instance slot of `CCMBackend` | a turn `t` is a launch with its proxy, consumer and session; `slot` are the three dictionaries at the instance |
| `CCMSlot_proofs` | theorems about it | |

### SessionTurn

`_turn_state_lock` is a variable (`stateLock`) where the code holds it across an
await: by the consumer from the read to the end of the scan, by a steer from the
admission to the end of the write, by the idle watcher from its second look at
`_send_lock` to the return of its read (`WatchLook`, `WatchRead`): a send may take
`_send_lock` in between, and then waits for the state lock before it publishes its
turn. Where the lock is taken and given back between two awaits the action only
requires it to be free. `_reader_lock` is always nested in it, `_send_lock` is
`sending`, and `_steer_admission_lock` is `Busy(s)`.
`stop` cancels the watcher (`StopWatch`, what it is reading may be lost) and then
waits for the lock (`StopLock`). A polling round looks at the process (`LoopPoll`)
before it reads (`Read`): the process may die in between, and its last records are
still scanned in that round.

The body of one polling round is split at record granularity: `Read` takes the
batch, `ScanEcho`, `ScanEnqueue`, `ScanRoute`, `ScanTerminal`,
`ScanForeignTerminal` and `ScanFailure` are the cases of the scan loop, `ScanEnd`
what follows it, `Emit` the yields, and the `Decide...` actions the end of the
round in the order of the code. The scan holds the state lock, so that the
splitting adds no interleaving with other coroutines of the Session.
All ways out lead to `FinallyDetach` and `FinallyReap`, the two halves of
`_deactivate_active_turn`. A cancellation may come wherever the generator sleeps,
yields or waits for the state lock (`HostCancel`); one that comes before the turn is
published only gives `_send_lock` back (`CancelOwn`).

Claude Code is external. The `CC...` actions write the journal as the code and
its tests expect it: a turn opens with the echo of its input and closes with
`turn_duration`, unless it fails or is interrupted; what arrives during a turn,
and every steer, is queued first; a queued input is removed when the running
turn absorbs it and dequeued when it opens one.

A text stands for the call that submits it. `consumed`, `bound`, `journaled` and
the field `t` of a record are ghosts: no guard reads them, except that the
position `consumed` is the `id` of the last record.

Abstracted: emitted events and their wording, slash commands, time (a deadline
may pass at any moment if `Env` says so), the second of the two process checks
that `active_turn_process` makes for its readers, the first start.
Not modelled: a spawn that raises an OS error (`ResumeFailed` is the process that
dies while the resume settles), a preflight read that raises, a cancellation
inside a read of the consumer (`JsonlReader` has it), a cancellation during the
spawn or resume of a process (session.py:284-330), a second cancellation while the
`finally` of the first waits for the state lock (session.py:412, 432), which would
leave the turn's owner and fence behind, `migrate_session`, more than one `stop`
and one `send_interrupt` per behaviour.

### SessionPool

An action is again the code between two awaits. The lock is a queue, as
`asyncio.Lock` serves its waiters in order. A Session has a life (`unborn`,
`starting`, `live`, `dead`, `stopped`), an idle class relative to `idle_timeout`
and `idle_reap_after`, a taken or free `_send_lock`, and reasons to be kept.
`Create`, `Evict` and `Exhausted` are the three things the eviction loop can come
to; the least recently used candidate is abstracted to any candidate, so that
what holds here holds for every access order. `Resume` is the `_auto_resume` of
a prompt that found its process dead.
A cancellation inside `session.stop` falls before or after the process was
stopped (`CutStop`, and the reaper in `CallStopAll`); the ghost `unstopped` keeps
the sessions whose stop was cut. A stop that raises is not modelled.

### CCMSlot

Launching has the awaits of `launch_for_ccm` (stop the stale session, remove it,
create the new one); the consumer is waiting for the send lock, in its turn,
ending, in an await of `on_exit`, inside the relaunch of a rotation, over, or
`lost` when it was cancelled inside `on_exit`.
The host is external and assumed to make one launch at a time, to kill only
proxies it launched itself. A kill task runs its first part before the next
launch begins. Not modelled: `BasePTYBackend.stop`, a consumer cancelled before
its first step, the set `_stopping`, the effects on the database.

### JournalFeed, JsonlReader

A byte is its number in the file and a line has three, two of which are one
character: enough for a read to end inside a character, inside a line and between
two lines. `ReadFile`, `Advance` and `Split` are the three steps of
`read_new_messages` between which another thread may run, which happens only
after a cancellation. A read that meets half a character raises
`UnicodeDecodeError` before it has changed anything. `taken`, `handed`, `batch`
and `cut` are ghosts; the refinement maps `journal` to the complete lines of the
file. `cut` is set where records may be lost: a read is cancelled, or raises with
prefetched records in its hands. From then on `JournalFeed` still promises order
and no repetition.
A line that was glued together from pieces of others is taken not to parse.
Not modelled: the replacement of the reader by a new process (`SessionTurn` has
it as an epoch), the reads of `Session.start` whose records are dropped on purpose.

### SubagentTracker

Built on `JournalFeed` instead of the byte level: a consumer gets its records
with `HandOut`. `todo` is the batch between two awaits: the watcher awaits the
host's callback after each event and keeps its batch when a `send_prompt` begins;
a generator that is closed drops its batch. An agent is launched as `agent`,
`background` or `monitor`, answers synchronously, asynchronously with or without
its task id, or not at all, and ends in a notification that the tracker takes as
final, in one with another status, which it takes as progress (subagents.py:200), or
in the queue journal only. `unheard` is a ghost: agents of which a record was dropped or came late.
Agents are independent keys of two dictionaries, so one agent is enough.
Not modelled: transcripts and meta files.

### ChannelBridge

One port per Session, picked by `Create` while nobody listens, bound by
`ServerStarts` at some later time, if it is still free, and kept by a server that
outlives its process (`orphan`). Port and session of a server come from `.mcp.json`, which every `Spawn` of the
directory rewrites under `cwdLock`; Claude Code reads it in `ReadsConfig`, and the
lock is given back in `Spawned`, 0.5 seconds later. `Deliver` to `Paste` are the awaits of
`_deliver_prompt`; `copies`, `leaked`, `blind`, `lost` and `late` are ghosts: `lost`
counts the injections whose answer did not come within its 5 seconds, and `late`
those of them that the server has yet to take (`TakesLate`). `lost` appears in a guard
only for its bound `MaxLosses`. Late copies are not followed beyond the next prompt of
the session or the death of the server. A permission request has a thread in the channel server (`posting`, `waiting`, `expired`,
`answered`); the host decides inside its handler, later, more than once or never.
Prompts and requests read the same ports and change none of them, so that a
behaviour has one of the two (`topic`). The sessions outside `Users` only start
and stop: they take and give away ports.
Not modelled: the start and the stop of the hub, replies, the handshake.

### PtyInput

A write is a step that waits for room in the terminal and fails when the child is
gone; a prompt is a paste of two writes, a pause and an Enter. The drain loop is
split at `select`, the check, the lock and the write; it reads `_running` and
`master_fd` without the lock. Claude Code is external: it draws a screen and does
not read before that is written out; a dialog takes the first Enter it reads and
may be followed by another. Not modelled: the rate-limit banner, `spawn`, the text
of the screen (a marker is seen or not).

## 3. Runs

Passing runs; "states" are distinct states.

| Run | Question | Bounds | States |
| --- | --- | --- | --- |
| `MCSteer` | is a receipt genuine, a live steer followed, an open one fenced; does False exclude a later run; is the journal read completely | 1 prompt, 2 steers, 6 records, losses, failing writes, turns that fail or meet a rate limit, missed deadlines and timeouts, closed generators, an older copy of a text | 2.2 M |
| `MCHost` | does a fence end with its send | 1 prompt, 1 steer, 2 processes, 5 records, interrupt, stop, death, errors, banners | 2.3 M |
| `MCTurns` | does a send complete on its own turn only; types, and the reader's owner once a turn is published | 2 prompts, 2 processes, 6 records, autonomous turns, death, channel, resend | 1.3 M |
| `MCEnds` | is an admitted steer answered; does a send end without its timeout if no input is lost | 1 prompt, 1 steer, 6 records, failing writes and turns, missed deadlines, stop | 98 k |
| `MCPool` | capacity; is a process ever lost; has a conversation two | 3 callers, 2 ids, 2 accounts, capacity 1, all operations, cancellations, failed starts, reaper | 239 k |
| `MCPoolReturns` | does every call return | 2 callers, 2 ids, capacity 1, reaper, failed starts, crashes, retained sessions, sessions without an id | 44 k |
| `MCSlot` | does the newest turn keep the slot; who wakes a dispatcher, and is it woken | 3 launches, takeover, rotation, kill, crash, failed launch | 286 k |
| `MCFeed` | does the reader implement `JournalFeed`; do its consumers catch up | 2 consumers, a preflight, 2 threads, 2 lines of 3 bytes, cancelled and raising reads | 106 k |
| `MCTracker` | is an agent at work protected, and one that has ended released | 1 agent of every kind, 4 records, closed generators, cancelled and raising reads, reconciliation | 419 k |
| `MCBridge` | does a prompt stay in its conversation; is a delivery what it reports; is a permission what was decided; does everything come to an end | 2 sessions of one directory, 1 port, 1 restart, 2 prompts, 1 request with 2 decisions, death, orphans, 2 lost or late answers per prompt, busy hub | 467 k |
| `MCInput` | are frames whole; does `stop` wait for the Enter; does everybody return; are dialogs answered | 2 prompts, 1 interrupt, 2 dialogs, a terminal with room for 1 chunk of input and 6 of output, death | 443 k |

Why these bounds: six records are the whole story of a steer that crosses its
turn (echo, enqueue, end, dequeue, echo, end) and of a prompt that waits for an
autonomous turn; two steers show one that is refused, or admitted after the
first; an eviction, a replacement and their successor need three Session objects;
a rotation of a rotation, or a takeover of a retry, needs three launches; two
lines of three bytes give every position a read can end at and a second read that
starts from it; four records are the life of an agent (call, answer, progress,
completion) or a completion around the echo of a prompt (with five records the
same properties hold in 2.7 M states); one port for two sessions is the collision
itself; two lost answers are a prompt that arrives three times, or twice and late
(the code has no limit but its window of 28 seconds, and the theorem none at all);
one chunk of room makes every write a possible wait.
`MaxRecords`, `MaxProcs`, `MaxObjs` and `MaxTurns` bound the length of a
behaviour only. Where they are reached the modelled system stops, hence
`CHECK_DEADLOCK FALSE`; the same holds when the host has made all its calls.
Symmetry of callers, ids and accounts is used in `MCPool`, which checks safety
properties only.

One run exhibits a disagreement between the code and what it says of itself:
in `FindHungPoller` a steer is lost and its turn ends before its deadline; the
terminal record is deferred for good, and the send ends only by its response
timeout.

Others were found the same way and are kept as exemptions of the properties
above. To see one, change the configuration that is named:

| What happens | How TLC shows it |
| --- | --- |
| the remove of a notification settles the steer, whose own turn nobody follows (session.py:923) | `MCSteer` with one steer and `Env = {"child"}`: `SteerIsFollowed` fails |
| the second delivery of a prompt is queued before a steer, and its remove settles the steer (session.py:923) | `MCSteer` with one steer, `MaxRecords = 10` and `Env = {"channel", "resend"}`: `SteerIsFollowed` fails; with `"error"` besides, `FalseNeverRunsLater` too |
| the first pass of an eviction takes a session in a long silent turn (pool.py:177), against docs/pty-solution.md:182 | `SessionPool` with `EvictionSparesTurns` as a property, `MaxSessions = 1`, `"quiet"` in `Env` |
| a rotation after a crash cancels its own consumer (ccm.py:465); the dispatcher waits for ever | `MCSlot` with `Env = {"rotate", "crash"}`, and `WakesUnlessCut` without its case `"lost"` |
| a rotation that returns after its retry has rotated again chains a second dispatcher to one proxy, which remembers the last (ccm.py:63) | `MCSlot`, and `WakesUnlessCut` without `Overtakes` |
| `stop` makes the drain thread end before it waits for a writer: with the output full the writer, Claude Code and `stop` wait for each other (pty_process.py:593) | `MCInput` with `OutCap = 1`: `EverybodyReturns` fails |
| a decision made inside the host's handler is refused, as the request is registered only when the handler has returned (channel_server.py:147-154); docs/pty-interactive-mode.md:342 shows such a handler | `MCBridge`, with `Decide` before `Registers`: the request expires |
| Claude Code reads `.mcp.json` after the next spawn has rewritten it (pty_process.py:242): its channel server takes prompts for the other session | `MCBridge` with `"slow"` in `Env`: `NoCrossTalk` fails |
| the answers to injections are lost or late, and the prompt is delivered once more for each (session.py:740) | `MCBridge`, and `ReportedAsDelivered` with `copies = 1` for `copies \in 1 .. lost + 1` |
| an agent that ends with a status other than completed or killed stays pending, and holds its Session (subagents.py:200) | `MCTracker`, and `EndedIsReleased` without the case of `LastWord` in `Excused` |

The events a run leaves out of `Env` are part of what it says:

* `MCSteer` has no notifications and no second delivery, nor a foreign queue record
  once steering has begun: see the first two lines above. A steer reported as uncertain is exempt from
  `SteerIsFollowed`: it is given up on purpose.
* `MCHost` has no missed deadlines, timeouts or closed generators, which `MCSteer`
  has; `FenceEnds` proves its invariant with all of them.
* `MCEnds` has no lost inputs (see `FindHungPoller`) and no interrupt: one that
  comes before the echo of the prompt was read leaves the send to its timeout.
* `MCPool` has no crashes: a dead session that a prompt is about to resume is
  dropped by the pool without a stop, and `OneProcessPerId` fails. It has no
  sessions without an id: one that is evicted before `launch` re-keys it is put
  back, and `WithinCapacity` fails. Sessions whose stop was itself cancelled are
  exempt from `NoUntracked` and `OneProcessPerId`.
* `MCSlot` does not resume a session that is still in a turn (`reuse`): the exit
  of the older turn would complete the newer proxy.
* `WakesUnlessCut` exempts, by name, a turn that the host launches over, an
  `on_exit` that is cut, and a rotation that returns after its retry has ended.
* `EndedIsReleased` exempts an agent whose end is in the queue journal only and
  that the host has not reconciled, whose task id was never in a result, whose
  launch failed in the background, whose last word reads as progress, or of which a
  record was dropped or overtaken (`Excused`). Nothing exempts `RunningIsProtected`.
* `HeardAsDecided` exempts, by name, the two timeouts: a request that could not be
  forwarded within 5 seconds is allowed, one not decided in 120 is denied.
* `MCInput` has room for all output of a behaviour: see the table above.

## 4. Fairness

`SessionTurn`: weak fairness for each coroutine and for Claude Code: the event
loop runs what can run, executor threads return, Claude Code works on what it has
accepted. Strong fairness for the steps that wait for the state lock, because
`asyncio.Lock` wakes its waiters in order and the consumer cannot overtake them
for ever; `stop` is one of them. The watcher's read returns from its thread, but the
watcher need not poll. Nothing obliges the host to call or cancel, an input to get lost, or
the response timeout to pass. A steer's deadline does pass.
`SessionPool`: weak fairness per task; the order of the lock is in the model.
Prompts, silence and crashes are not obliged to happen.
`CCMSlot`: weak fairness per task; a turn ends (`send_prompt` has a timeout).
`JsonlReader`: worker threads run and coroutines resume; a line that was begun is
finished, as Claude Code writes records whole; strong fairness for the call of a
read, because the consumers poll again and again and the lock serves its waiters in
order. Claude Code need not write, nor a steer come.
`SubagentTracker`: weak fairness per consumer; strong fairness for a read that
brings a consumer to the end of the journal, which is `CatchesUp` of
`JsonlReader`. Agents need not end.
`ChannelBridge`: weak fairness for each step of a delivery and of a request, the
timeouts among them; strong fairness for the fallback, since every retry
alternates with it and `inject_connect_timeout` passes. The host need not decide.
`PtyInput`: weak fairness per thread, for the cool-down, and for Claude Code's
drawing and reading while it lives. The operating system's lock is only assumed to
go to somebody. Nobody need call.

## 5. Proofs

`SessionTurn_proofs`, for every set of prompts and steers, every bound and every
subset of the environment's events, from `TextsAssumption` (the texts are
different things) and `BoundsAssumption`:

* `TypesHold`: `Spec => []TypeOK`. `TypeOK` is not inductive alone: that the
  current process is one of `Procs` depends on counting restarts, and that the
  turn's owner is a prompt on a sender being there whenever `pc` is not `idle`.
  `TypeInv` adds `process = restarts + 1` and that conjunct.
* `FenceHolds`: `Spec => []OpenSteerIsFenced`. The fence may be released by the
  scan, the release of an uncertain steer, three detaches, fail-closed and stop,
  and is set again when a provider failure takes a receipt back. The inductive
  `FenceInv` says: a pending steer has its process fenced (`OpenIsFenced`); as
  long as anything is fenced, a steer whose enqueue the scan still carries
  (`scan.enq`) was written to the fenced process (`EnqueuedIsFenced`), since a
  failure in the same batch makes it pending again; the consumer holds the state
  lock exactly while it scans, a steer that writes holds it, and the scan carries
  nothing outside the lock (`LockHolders`); one steer at a time is admitted, and
  only that one can be pending or be carried by the scan
  (`OneAdmitted`). These are `SteerFence`; `WatchInv`, the other half, says that the
  watcher holds the lock exactly while it reads, and that no turn is published
  meanwhile. Each action is a step, each conjunct it can disturb a
  step under it.

The argument is the one a reader of session.py would give: admission refuses
while anything is pending or unsettled, so there is one open steer at most, and
every place that clears the fence clears the steer with it.

`SessionJournal_proofs` continues on the same assumptions, and on `TypeInv` and
`FenceInv`. Its first five theorems exclude no event of the environment; the last
two assume `"child" \notin Env` and `"resend" \notin Env`.

* `FenceEnds`: `Spec => []FenceEndsWithSend`. The inductive `TurnInv` ties five
  attributes together: only the holder of `_send_lock` owns the turn, only an owned
  turn is steerable or fenced, by the process its prompt was delivered to and within
  the polling loop, and a pending steer has a fence.
* `JournalRead`: `Spec => []NothingSkipped`, and `ReaderOwned`:
  `Spec => ForegroundOwnsReader`, that once a turn is published only its own scan and
  the steps that end it move the reader; before, from `_send_lock` to the state lock,
  the watcher may still be reading (`WatchInv`). `Stream` is the batch, what was handed back and
  what is unread, in this order. The lemmas `Stream...` give for each step what it
  does to it (nothing, its head, its end, all of it); `StreamInv` says that it is the
  journal after `consumed`. The join must not skip: a batch is only there while the
  consumer scans, and nothing is handed back then, because a steer is admitted
  outside the scan (`PlaceInv`, and `LockHolders` of `FenceInv`).
* `AckGenuine`: `Spec => []AckIsGenuine`. A receipt compares the text and the
  positions the preflight saw. `ReceiptInv` is why that is enough: outside an open
  steer nothing is handed back that the preflight did not see, so that every older
  copy of the text still to be scanned is among those positions, and any other
  enqueue of it was written for this steer.
* `CompletionOwns`: `Spec => CompletionOwnsTurn`. A terminal record carries, as a
  ghost, what its turn executed. `Runs(q, i, n, L)` says that the next terminal after
  position `n` of the stream is the one of the turn that executes `i`, or that there
  is none yet and Claude Code still runs it. `JournalInv` has this for every echo and
  every absorbed prompt in the stream (`AliveInv` for a process that is dead or not
  yet there, whose turn will never be closed); `FreshInv` says that the locals of a
  send start clean, `FollowInv` that no steer is admitted while another is followed;
  and `BoundInv`, that a send whose turn has started has its terminal either behind
  it (in `bound`) or as the next one to come, and the same for the steer it follows.
  So a terminal that is counted is the right one, deferred or not, through any
  number of steers. `BoundInv` holds up to `stop`, which discards records.
* `SteerFollowed`: `Spec => []SteerIsFollowed`, and `FalseNeverRuns`:
  `Spec => []FalseNeverRunsLater`. Neither is inductive: what the consumer may
  conclude from a queue record depends on which texts Claude Code still holds, and
  session.py:923 attributes a record to the open steer without looking at its text.
  `RoundsInv` collects the invariants above, and `SteeredInv` follows a text:
  1. `ProcInv`: only the current process lives, only a live one holds inputs, and a
     turn and its fence are that process's. `OnceInv`: a steer is in one place, nowhere
     before it is written, and its echo is the last that is heard of it. The lemmas
     `InputSteps`, `WorkSteps` and `TextMoves` say that an input arrives only when a
     prompt or a steer is written, and that only Claude Code moves it.
  2. `LastInv` (with `PromptInv`): until the prompt is seen to run, nothing waits
     behind it. So nothing waits when its turn becomes steerable, and nothing but the
     open steer while there is one, nor anything while one is followed (`WaitInv`).
     Hence a record that can route the steer, one after its own enqueue, is the
     steer's own (`RouteInv`, with `Late` for those records), although the code
     does not compare.
  3. `HeldInv`: a steer still to be run, unless it was given up (`UncertainInv`) or
     its process is dead or being stopped (`Doomed`), is fenced and either open or
     the one that is followed and has not started. As the fence ends with the send,
     `SteerIsFollowed` follows.
  4. `ReapInv`: who detaches takes fence and steer together, and its process is
     stopped before the session uses another. `AnswerInv`: a receipt is resolved to
     False only when the steer cannot be held any more, through the acknowledgement
     that a failure in the same batch takes back, up to the end of that turn
     (`AcknowledgedOpen`), and through the step to the followed steer
     (`FollowedOpen`). `FalseNeverRunsLater` follows.

  Both exclusions are the code's: with notifications or a second delivery there is
  a record behind the steer's own enqueue that is not the steer's, step 2 fails, and
  TLC finds the loss (the first two lines of the table in section 3).

`SessionPool_proofs`, for every set of callers, ids and accounts, every capacity and
bound, from `IdsAssumption` and `LimitsAssumption`:

* `PoolTypesHold`: `Spec => []PoolTypeOK`. `Fits(t)` says what the place of a task
  says of its session, and that whoever creates, starts or stops one holds the lock
  (except a retirement and a re-keying); `DataInv` that pool, hosts and tasks only
  know sessions that exist.
* `CapacityHolds`: `Spec => []WithinCapacity` if `"fresh" \notin Env`. `CapInv`:
  there is room while a session starts, and only the lock's holder puts one in.
* `NothingUntracked` and `OneProcess`: `Spec => []NoUntracked` and
  `Spec => []OneProcessPerId` if neither `"fresh"` nor `"crash"` is in `Env`, from
  `TrackInv`: every session in the pool is there under its own id, and the one in the
  hands of the lock's holder is not in the pool (`HolderInv`).

The exclusions are the code's, and TLC shows that they are needed: a session without
an id is published under the key `""` and moved outside the lock (base.py:60-74); a
dead session is dropped without a stop although a prompt may be about to resume it
(pool.py:129). Cancellations, failed starts and the reaper are all in.

`CCMSlot_proofs`, for any number of launches, from `SlotAssumption`:

* `SlotTypesHold`: `Spec => []SlotTypeOK`.
* `NewestStays`: `Spec => []NewestStaysRegistered`, and `WakesOwn`:
  `Spec => WakesItsDispatcher`, both if `"reuse" \notin Env`.

`SlotInv`: one launch at a time, which holds the slot's proxy while it creates
(`LaunchInv`); a session leads to the proxy of the one turn that is on it, so that
`on_exit` finds its own (`OwnInv`); only a dispatcher whose turn is over is chained
(`ChainInv`); the consumer at the slot is that of its session (`PairInv`); and a
session that can be resumed has nobody left who would kill it (`ReuseInv`). A launch
that takes over a session in its turn (`reuse`) makes `OwnInv` false: ccm.py:198
looks the proxy up when the older turn exits.

`ChannelBridge_proofs`, for any number of sessions, ports, requests, prompts,
restarts and decisions, from `BridgeAssumption`:

* `BridgeTypesHold`: `Spec => []BridgeTypeOK`, and `HeardHolds`:
  `Spec => []HeardAsDecided`, with every event: `RelayInv` follows one request
  through its thread, its registration at the hub and its result.
* `StaysInConversation`: `Spec => []NoCrossTalk`, and `ReportHolds`:
  `Spec => []ReportedAsDelivered`, if Claude Code reads `.mcp.json` before the
  directory's lock is given back (`"slow" \notin Env`). `ConfigInv` is the argument:
  under that lock `.mcp.json` names the session that holds it, so a process reads its
  own, and a server that can still write belongs to the process that runs. `ScreenInv`
  relates the delivery to the screen: a prompt whose answer was lost has a process that
  took it, one that is pasted meets no dialog. `Counted` and `LateInv` bound the copies
  that have arrived and those still to come by the lost answers, however many there
  are: a delivery that succeeded put at most one copy more than those into its
  conversation, one that raised no more than those, and one that was refused none.

`SubagentTracker_proofs`, for any number of agents and records, from
`TrackerAssumption`:

* `TrackerTypesHold`: `TrackSpec => []TrackerTypeOK`, and `RunningProtected`:
  `TrackSpec => []RunningIsProtected`, without exemptions. `JournalInv` says what the
  journal can say of an agent: its launch comes first and once, a final notification
  only when it has ended. `LaunchInv`: what the tracker knows of it comes from a launch
  that is in nobody's batch any more and is not normalized again, although one consumer
  may overtake the other; `TaskInv`: only agents in the background have a task id.

The proofs corrected the models in three places: the cases of `NoteToolResult`
overlapped, so that a result could arm an agent that the tracker does not know;
`CallStopAll` cut a stop also where the reaper was in none; and `BridgeAssumption`
did not say that `None` is no behaviour.

Only model-checked: all liveness (`SteerReturns`, `SendEnds`, `CallsReturn`,
`WakesUnlessCut`, `CatchesUp`, `EndedIsReleased`, the ends of deliveries, requests
and the terminal), which is out of this prover's reach. Every invariant and every
action property of a passing run is stated by a theorem.

## 6. Plan

1. (done) `SessionTurn`, its runs and its first two theorems; `SessionPool`;
   `CCMSlot`.
2. (done) `JournalFeed` and `JsonlReader` with the refinement checked and proved;
   `SubagentTracker` on top of it; `ChannelBridge`; `PtyInput`; liveness of
   `CCMSlot` with crashes, kills and takeovers.
3. `SteerContract`: what a host may assume of steering (a call is open, accepted,
   refused or uncertain; a text runs at most once, and never after a refusal),
   with `SessionTurn` shown to implement it without native children.
4. `CCMSlot` with `BasePTYBackend.stop` and overlapping launches.
5. (done) Proofs: all safety invariants and action properties of the session, the
   pool, the slot, the bridge, the tracker, the reader and the terminal.

## 7. Not modelled

* Out of reach of a model checker, or without behaviour: event formatting and echo
  matching, configuration, the terminal's text, the host's database.
* The start and stop of the hub and the replies it forwards: no state of the
  library depends on them.
* `_pretrust_workdir` reads, changes and renames `.claude.json` without a lock and
  with one temporary name (pty_process.py:275-312): concurrent spawns may lose an
  entry. The dialog that a lost entry brings back is in the model, the file is not.
* `migrate_session`, `migrate_and_relaunch`, `shutdown`: the host's maintenance,
  composed of operations that are modelled.
* The transcripts of sub-agents, which only refresh `_last_activity`.
