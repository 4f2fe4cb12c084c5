# ai-friend: a verification project

TLA+ models of the companion-chat program in `src/`, the TLC runs that check
them on small instances, and proofs, checked by TLAPS, of the properties that
matter most. `PROJECT.json` lists the components, runs, faults, findings,
hazards and theorems, and maps every definition to the lines it models.

## The system

One *role* is one character: a personality file, a memory (SQLite rows under
`session_id = role_id`), a sleep file and a proactivity file. A host process
(the Web server, or a CLI that shows a TUI) builds an `Agent` for a role and
drives it from two sides: messages of the user, and a `RuntimeDriver` loop that
lets the character sleep, dream and speak up by itself.

| Part | State it keeps | Operations | Talks to |
|---|---|---|---|
| Agent, MessageHandler, ConversationEngine (`core/agent.py`, `message_handler.py`, `conversation_engine.py`) | `turn_count`, `_turn_lock`, last activity, tool history | a user message; a proactive or explore turn; sleep replies; emotional post-processing | short-term memory, repository, provider, consolidator |
| ConversationBuffer (`memory/short_term.py`) | a bounded deque of turns with metadata | add, clear, read | |
| SessionManager, WebAgent, endpoints (`web/session.py`, `web/server.py`) | sessions, driver tasks, active sockets, removal timers, session locks | get_or_create, remove, schedule_remove, register_proactive, cleanup_old, shutdown; WebSocket frames; `POST /api/chat` | one Agent and one driver per role |
| RuntimeDriver (`core/runtime_driver.py`) | cooldown ticks, next decision time | tick: sleep check, backoff, decision, speaking | engine (in executor threads), frontend |
| SleepManager (`core/sleep_manager.py`) | `_sleeping`, its file, time of the last transition | get_sleep_state, generate_dream | provider, memory |
| ProactivityManager (`core/proactivity.py`) | last chat and explore times, silents, recent topics, their file | score, check and record limits, topics | |
| Inner drive and its state (`core/inner_drive.py`, `inner_drive_state.py`) | care list: entries active, resolved, expired or decayed, a file | assess a message, assess an intent, decide proactively, contemplate; surface, update, resolve, reward | provider |
| Tool agent, dispatcher (`core/tool_agent.py`, `dispatcher.py`) | attempts in a message | plan, run, retry tools | tools |
| Consolidation, lifecycle, fact checker (`memory/`) | pending turns, observations, facts, insights and their states | observe, extract, verify, contradict, decay, merge, archive | provider, repository |
| Retrieval, embeddings, embedding server | caches, a circuit breaker, a child process | query, embed, start server | repository, HTTP |
| Repository, Database (`storage/`) | the SQLite file, its schema version, backups | migrations, inserts, batch updates, prunes | |
| Provider, prompts, context manager, prompt cache, rate limiter, monitor | caches, windows, counters | generate, compress, allow | HTTP |

What makes it hard: an event loop, executor threads and daemon threads share
one agent; a task is cancelled at its next `await` while the thread it waits
for goes on; every piece of persistent state is written separately, some files
in place; restarts rebuild memory from what was written.

## Modules

| Module | Models | Runs | Proofs |
|---|---|---|---|
| `Transcript` | what the log of one role promises: the abstract specification | through `Conversation_web` | |
| `Conversation` | an exchange turn by turn, all threads and agents of one role, failed inserts, aborts, rebuilt agents, restarts | `Conversation_web`, `_tui` | `ConversationProofs` |
| `Sessions` | the Web registry: agents, sockets, driver tasks, removal timers, cleanup, session locks, personality files and their failing saves | `Sessions`, `_ghost` | `SessionsProofs` |
| `SleepCycle` | the sleep manager by the clock, and the sleep half of the driver's loop | `SleepCycle` | `SleepCycleProofs` |
| `RuntimeDriver` | the proactive half of the loop, rate limits, silent backoff, the state file | `RuntimeDriver` | `RuntimeDriverProofs` |
| `Pipeline` | one turn through the three agents: assessment, tool rounds, batches, retries, deadline, reply loop, intent loop | `Pipeline` | `PipelineProofs` |
| `FactStore` | what a character believes of the user: rows of `facts_v2`, remember and correct, extraction with its contradictions, pruning, decay, merging | `FactStore` | `FactStoreProofs` |
| `Migrations` | opening the database file of any older version: backup, tables, the migrations statement by statement, crashes | `Memory` | `MemoryProofs` |
| `Transactions` | the one connection under all callers: lock, timeouts, cancelled calls, rollback, backup, close, the worker pool | `Memory` | `MemoryProofs` |
| `Storage` | the two of them, in order | `Memory` | `MemoryProofs` |
| `Consolidation` | what a conversation leaves behind: the buffer of turns, the model calls, observations, experiences, insights, the relationship | `Memory`, `Consolidation_unheard` | `MemoryProofs` |
| `CareList` | what a character has on its mind, who adds to it, what settles, its file | `Memory` | `MemoryProofs` |
| `Memory` | the three keepers of a memory, side by side | `Memory` | `MemoryProofs` |
| `Provider` | the model's attempts and the breaker all threads share | `Services` | |
| `EmbeddingServer` | the server process, its watchers and watchdogs in several hosts | `Services` | |
| `Embeddings` | `encode` and its cache over that server, health and self-check | `Services` | `ServicesProofs` |
| `Places` | what is left of a sequence: a helper of `Embeddings` and `CareList` | | lemmas in both |
| `Dispatcher` | one answer's calls: parsing, refusal, the pool, the timeout of each tool | `Services` | |
| `PromptCache` | blocks built outside the lock by several threads for two prompts | `Services`, `PromptCache_identity` | `ServicesProofs` |
| `Personality` | a character's file between its owner, the program and the backup | `Services` | `ServicesProofs` |
| `RateLimit` | the sliding window of the Web host | `Services` | `ServicesProofs` |
| `Services` | the seven of them, side by side | `Services` | `ServicesProofs` |

The modules meet at a few places. `Conversation` takes from `SleepCycle` that
the sleeping flag may flip at a driver's check (any time, for it) and from
`RuntimeDriver` that a driver may decide and speak (any time). `RuntimeDriver`
takes from `SleepCycle` that a sleep message resets the idle clock and starts
the cooldown. `Pipeline` is what happens inside one exchange of `Conversation`,
which takes from it only that a turn may end with replies, a fallback, or an
exception; one batch of its tools is what `Dispatcher` looks into. `Consolidation`
is what happens behind an exchange, in its thread; which facts come of it is
`FactStore`, and its clues are `Note` in `CareList`. `Sessions` supplies all of them with their environment: drivers are
replaced and cancelled, agents removed and rebuilt, while their threads run on.
Where two modules meet, each lets the other do at least what it does there:
`Conversation` lets a driver start, decide or flip the flag at any time, and its
agent be built again at any time, with the driver that runs cancelled or not.

### Conversation

An action is one call that changes shared state: the row and the buffer entry
of `Agent.add_turn` are one action because `_turn_lock` covers both and nothing
reads in between without it (the buffer's readers see it before or after);
`increment_turn_count` is another action, since on the CLI the lock is free in
between. `pc` says where each thread is. On the Web `process_message` holds the
lock from the first turn to the last (`Locked = TRUE`); the CLI and the TUI call
the handler directly (`Locked = FALSE`). A driver takes the lock on either host.

On the Web an agent object may be removed or evicted and built again in the same
process (`Rebuild`), while threads still work for the old one: only the task of
the driver is cancelled, a call in the executor runs on. Each agent has its own
`_turn_lock`, `turn_count`, buffer and sleep flag over the same rows, so `mem`,
`turnCount`, `owner` and `sleeping` are functions of the agent, and `on` says for
which one a thread works. A driver started after its session was evicted is not
cancelled by the next `get_or_create`; so `Rebuild` may leave it alone. A new
agent goes on from the largest number on disk, or from 0 if reading it failed,
which both hosts only log (`NewAgent`).

Turns carry two history fields that the program does not store: the exchange
and the agent. `felt` counts emotional shifts per exchange; `cut` records the
exchanges that failed, were aborted or lost in a crash; `born` and `unnumbered`
say which rows an agent found when it was built, and whether it could read their
number.

What is abstracted: the text of a turn; the three-agent pipeline before the
reply is a choice between a reply (a fallback text is one) and an end without;
the model's decision to go round the intent loop is a choice bounded by the
code's own `max_loops`. The session lock of the Web host is left out, which lets
two messages to one role compete for `_turn_lock`. A new agent's two reads, of the
recent turns and of the largest number, are one step: a row that a thread of the
old agent writes between them would only be one that the buffer lacks.

### Sessions

An action is a stretch of an event-loop handler between two awaits. The helpers
take and return the registry as a record, so an action calls the manager's
methods in the order of the code (`InitFrame`: `GetOrCreate`, the task, then
`RegisterProactive`). The work in executor threads is a pair of actions with the
rest of the world in between (`SendMessage`/`Answer`, `DriverCall`/`DriverSpeak`).
Removal timers keep the code's quirks: the timer removes only the agent it was
set for, and a cancelled one clears the table entry of its role later,
whichever timer is there by then. `asyncio.Lock` is a queue.

Every `CleanupEvery`-th creation (tenth in the code) `GetOrCreate` runs `cleanup_old`
before it returns, and the session it has just created has no socket yet: it may
be evicted, and its caller goes on with an agent that is out of service. Such
agents are `stillborn`. The periodic `cleanup_old` is an action of its own. The GET
routes of status and history create a session for a role that has a past (`Look`,
`Found`), with a query of the database in between.

A save of the personality may fail, and is then only logged. `Answer` may leave the
file as it was, because a save was tried in the last thirty seconds or because this
one failed. What is dropped is saved a last time, but for the roles in `lost`. These
are history: `overtaken` (an agent of the role was dropped while a call ran on it,
or called although it was out of service) and `unsaved` (dropped, and that last save
failed).

Emotion is abstracted to the set of messages that have moved it, so "lost" is a
question about sets. `age` counts steps without activity; a session does not age
while a message waits or runs, since a day is longer than any call.

### SleepCycle

The day is 144 slots of ten minutes: every window of the code begins at a slot
(13.16 hours is 13:09:36, in the model 13:10), and ten minutes is also the guard
between two transitions. Chance becomes choice, which covers every emotion. A
save that fails leaves the old file, or an empty one, which reads as awake.
`Cooldown` is `SLEEP_TRANSITION_TICKS` in slots: 120 ticks of 30 seconds asleep
are 6 slots. Awake, a tick lasts 5 to 15 seconds or a whole model call, so the
cooldown may end one slot after the transition or later; the model lets it end
anywhere up to the bound. The clock does not pass a slot in which a driver whose
cooldown is over has not asked the manager while the character sleeps: a driver
asleep asks every thirty seconds. That is the model's only assumption on speed.

### RuntimeDriver

Times are ages that grow with `Wait` up to the limit they are compared with, so
no time is unbounded and the limits are exact at the granularity of the
constants. Agents and loops are reused identities: an ended loop may stand for
a new one, and an agent object may be built again when no thread holds it, so
the number of restarts is not bounded. `torn` says that a write of the state
file failed, `stale` that a thread of a dropped agent saved over it (through
`pick_proactive_topic`): both really happen, and the properties about limits
say "unless".

### Pipeline

`pc` is the place in the turn, `path` the kind of turn and, once Agent 1 has
asked for tools (`tools`) or Agent 3 has proposed an action (`intent`), what it
became. What models say is a choice at each step: no tools, any set of requests,
calls that succeed, fail for good or fail for now, a text that only pretends. A
request is an identity; of a batch the model keeps the set and its first member
(`lead`), which is all that retries and the order of the futures depend on. A
request's own attempts (`Try`), the thread pool (`Take`), the collection of the
futures in order (`Collect`, `GiveUp`) and the with-block that waits for all
threads (`Leave`) are separate actions, so that a given-up thread may succeed
later. `Expire` lets the total timeout pass at any moment of the tool phase.

`ok`, `told` and `strays` are history: what succeeded, which successes stand in the
records that Agent 3 reads, and what succeeded after its future had been given up.
The records of all rounds share `TOOL_RECORDS_MAX_LENGTH` characters, of which one
result may take two thirds, so they may be cut in any round (`Readable`): from there
on nothing is added, and the text ends with the remark that results are missing
(`full`). How long a record is, is a choice. A tool counts as it reports: one that the
dispatcher timed out has failed, though its thread may still have its effect.

### FactStore

A step is one transaction (`_lock` and one commit make it so), or the reading
before one; everything that is read and used later has a variable: `found` is
the row a contradiction was seen in, `snap` the rows decay and merging have
read. `batch`, `next` and `at` are the place of `_parse_fact_lines` and the
housekeeping after it. `alone` is chosen at the start: on the Web and the CLI
tools and consolidation take turns, since both belong to an exchange; in the TUI,
or when a tool outlives its timeout, they do not.

Confidence and freshness are percentages, rounded down after each product. The
keys are those of one category (rows of another are reached only as a look-alike
of a contradiction, which any key may be here). Which rows a search ranks among
its first five, which rows look alike to the embedding, and what the model
answers when asked again are choices. Importance is left out, so pruning may
expire any of the excess rows. Extracted confidences above 1, which the code does
not clamp, are not modelled. The facts of a batch are those that passed the check
against the user's own words; how often that is, is a matter of `Consolidation`.

`said` and `trust` are history.

### Migrations, Transactions, Storage

`disk` is what is committed, `work` what the connection sees: `executescript`
commits what is open and runs each statement by itself, so that a death between
two of them leaves the first. A row keeps its number through every copy. The
files to begin with (`Legacies`) are what each version of the program left: one
constraint for all sessions and no session column, two tables of facts in use at
once, several sessions of a role, archives that are still there. Only the tables
and columns that a migration treats by its rows are there; columns it merely adds
are one step (`AddColumns`). `home` is history: where the rows of each session stand
now, nowhere once #SR-002 dropped it. It is kept in the file, so that a death takes
it back with the transaction it belongs to. It is needed because a session may bear
the name of a role it is not mapped to (`Crossed` in `MCMemory`): then the merge of
one role puts rows under a name that the merge of another drops, and the session
that is lost is not the one the code logs.

In `Transactions` a call writes a few rows and commits. All calls share the
connection, hence its one open transaction `pending`. A timeout cancels a call
between two statements; a thread that waits for the lock, and a model call,
cannot be interrupted, so a worker of the pool may be held by what its caller has
given up (`lost`). `Storage` runs the calls on a file that has been opened, and
adds the death of the process to both.

### Consolidation

A step is one model call with what is stored of its answer. The text of a batch
is its turns: who speaks is all that the code looks at. An answer is a set of
sections; none at all, an error included, means the three separate calls. Whether
a model finds facts, and how the mood was, are choices; a fact needs a turn of
the user in the batch, as `_user_utterances` does. Turns go on being numbered
after a restart, where the code starts again: nothing that is compared survives.

### CareList

Every operation of `InnerDriveState` that has a caller is an action, with the
callers' order where there is one: a think loop surfaces first and then has
rounds, a proactive message is attributed to an entry before it is written, and
the user's answer is weighed by the model between `Answer` and `RecordOutcome`,
with other threads in between. `id` is the number the code gives, which may be
used again, `self` the entry it really is. A save may succeed, fail, or leave a
torn file, which reads as an empty list. Near-duplicates by embedding count as
the same content; the surfacing score is a choice of which entries come up.

### Provider, EmbeddingServer, Embeddings, Dispatcher

`Provider`: the outcome of a request is a choice that depends on whether the
service is up (`Weather` changes that at any time). A call may succeed while it
is down for others. `Lapse` is the end of the minute for which the breaker is
open. Its count is not reset then, as in the code, so one more failure opens it.

`EmbeddingServer`: starting, watching, probing, restarting and stopping a server
from several hosts, each of which kills whatever server it finds by its name.
`Embeddings`: `encode` holds its lock while it asks, so a call is one step. A
vector is the text it stands for and its dimension; a batch is answered from the
cache, from the server, or with zeros.

`Dispatcher`: an answer is what the three tiers of the parser see in it. The
thread of a tool and the wait for it are separate (`Return`, `Hang`, `TimeOut`).

### PromptCache, Personality, RateLimit

A block of `PromptCache` is the moment at which its builder read the data, and
whose builder it was. `Miss`, `ReadData` and `Keep` are separate, since the lock
is not held in between. `Personality`: a character is one value and its events a
sequence; the owner edits the file with or without a mistake at any time.
`RateLimit`: a request is one step, for both users of the limiter run on one
event loop and it awaits nothing.

`Memory` and `Services` put modules side by side that have no variable in common,
so that one run checks them all: a behaviour is one of a single part, and the
others rest.

## What the runs check

`Conversation_web` (two users, two drivers, three exchanges, two agents, of which
the second comes by a restart or beside threads of the first; a buffer of three
that really overflows, reloads of two; symmetry of users and of drivers; 4.1
million states). Three exchanges are one on each agent and one between; whether
a reply is followed by another of the same exchange is left to the other run.

- `ExchangesContiguous`, `ImplementsTranscript`: each agent writes whole exchanges,
  one at a time, as the comment over the three entry points says. Two agents of
  one role need not wait for each other.
- `NumbersAscend`, `ReplyNumbersUnique`: what the counters, their recovery from the
  database, also when it fails or another agent still writes, and orphan turns of
  failed exchanges do to the numbers. Both speak of what an agent can know: its own
  turns, and those it found, if it could read their number.
- `MemOnDisk`: no turn in memory that is not on disk, whatever insert fails.
- `FeelsOwnTurn`: the shift of an exchange is computed from its own user turn.

`Conversation_tui`: two message threads without the lock and a driver with it, one
agent, replies that go round the intent loop once, under weak fairness of each
thread's own steps (0.56 million states). `LockReleased` says that whoever takes the
turn lock returns it, its own nested calls included. Deadlock is checked in both
(drivers may start and decide without end).

`Sessions` (two roles, two tabs, one POST, three agent objects, two timers, two
messages, at most one session kept, a cleanup at every second creation; symmetry of
roles and of tabs; 1.74 million states): `LatestServed`, `OneDriver`,
`MessagesSerial`, `MoodKept`. Two tabs are what takeover
needs, three agents what removal and rebuilding under a running call needs, two
timers what a stale finally needs, and with one session kept the second one that is
created is too many. The host stops after `Shutdown`, so deadlock is not checked.
`Sessions_ghost` has one role and one tab.

`SleepCycle` is exhaustive at the code's own constants: nothing is bounded.

`RuntimeDriver` (two loops, two agents, gaps of 2 and 3 steps for half an hour
and an hour): `RateLimited`, `BackoffJustified`. Two loops are
what a replacement needs (a thread of the old one and the new one); the gaps
differ so that the kinds cannot be confused.

`Pipeline` (two requests, two rounds, two retries, two attempts each, a pool of
one thread, two intent loops; 0.72 million states): `NotRepeated`, `SuccessTold`,
`ModelFailuresAnswered`, `Answered`. Every limit of the code is there, scaled
down (three rounds, three retries, four threads, five iterations in the code), so
that each is reached; two requests on one thread are enough for a request to be
queued, given up, cancelled, and to succeed too late; the proofs cover the real
numbers. `MaxAttempts` (nine in the code) can never bind, see below; four keeps
it out of the way as in the code.

`FactStore` (three keys, two values, extracted confidences of 0.4 and 0.9, fading
to 15 or 80 per cent, at most two active facts, batches of two, five calls or
facts in all; 1.6 million states): `HonestConfidence`, `ActiveFresh`, `OneRemark`,
`MergeKept`. Two values make a contradiction, two facts of one batch on one key
the sequence of two, three keys a merge beside a row that is left, two active
facts an excess; 0.4 is less than half of 0.9 and of 1.0, and 15 per cent is below
the threshold. Five units of work are a correction, a consolidation of two facts
and one of one, or tool calls in between. When the work is used up nothing need
happen, so deadlock is not checked.

`Memory` (2.13 million states) has three parts:

- `Storage`: eleven files, of versions 0, 3, 4, 5 and 6 and none, one with two
  characters who were told the same thing and one where the session of one bears
  the name of the other, three crashes, two snapshots kept. Three crashes are one more than the snapshots, and enough to
  die in the middle of a migration, in the middle of its repetition, and once
  more. On the file of version 6, three callers with one call each, of which one
  is on the event loop, a pool of one worker, two statements a call: one call half
  done, one that waits, one that takes over. `FactsStay`, `MergeAtomic`,
  `BackupHolds`, `CallsAtomic`.
- `Consolidation`: six turns, a consolidation every second, one `/save`, insights
  of the levels 2 and 3 at every second and fourth round (third and tenth in the
  code), one experience and one insight kept. Three batches may fail, succeed and
  succeed again, which is what a stale flag and a batch observed twice need.
  `TurnsKept`, `ExtractedOnce`, `InsightEarned`.
- `CareList`: four operations on a list of two, three contents of which one is a
  plan, thoughts of two rounds. Four are an entry, its message, its outcome and
  the same entry again, with restarts anywhere for free. `NoTwins`, `StaysSettled`.

`Services` (about half a million states) has seven:

- `Provider`: two threads, one of which the user can stop, two attempts, a breaker
  that opens after two failures (three and three in the code).
  `ProviderComesBack`: a service that is back for good answers every thread that
  keeps calling, again and again.
- `EmbeddingServer` and `Embeddings`: two hosts, two probes, two restarts, two
  models, a cache of two, batches with a repeated and a blank text. `Recovers`,
  `Fits`.
- `Dispatcher`: a pool of two and batches of up to three calls of every kind.
  `BatchEnds`.
- `PromptCache`: two threads, two prompts, two blocks, room for one, a life of
  two hours in three. `NotTooOld`.
- `Personality`: three edits, two events. `CharacterKept`.
- `RateLimit`: two requests in two seconds, two clients, six instants.
  `WindowKept`.

In both, what there is to do is bounded, and deadlock is not checked.

`MigTypeOK`, `TxTypeOK`, `ConsTypeOK`, `CareTypeOK`, `ServerTypeOK`,
`ProviderTypeOK` and each `TypeOK` say what the variables hold. Where a module has
proofs they are proved; no run is spent on them.

Each property of a passing run is broken by one fault, a plausible mistake in
the code, written next to the definition it replaces (the operators named
`...Fault`).

### What the runs found

Three runs expect a violation: the code does not do what its own documents say.

1. `Sessions_ghost`: a driver keeps its abandoned session alive by speaking.
2. `Consolidation_unheard`: what is handed over for consolidation is the latest
   turn behind the reply, that is the reply; facts are taken only from what the
   user says, so a conversation by itself never yields any.
3. `PromptCache_identity`: the prompt of Agent 3 is given the identity block of
   Agent 1, which has neither the speaking style nor the backstory.

Other things met while modelling, without a run of their own. About exchanges
and sessions:

- On the CLI and TUI a proactive message may stand between a user's message and
  the reply: `core/conversation_engine.py:65` bypasses the lock that the comment
  at `core/agent.py:217` relies on. `ExchangesContiguous` is proved only with it.
- One message moves the emotion up to three times when Agent 3 asks for tools
  (`core/message_handler.py:779`; the comment at `:542` wants it once).
- A call that runs while its agent is removed may lose its shift: `close`
  (`web/session.py:104`, called at `:343`) saves before the call ends, and its own
  save behind the call may be skipped or be overwritten by the agent that was built
  meanwhile. A last save that fails loses it too, though `close` is there "so no
  emotion delta is lost" (`:109`). `MoodKept` leaves out roles of which an agent was
  dropped so.
- A save that fails has already set the clock of the throttle (`web/session.py:97`),
  so the next thirty seconds do not try again.
- The init frame that makes one session too many at a tenth creation evicts its own
  new session (`web/session.py:327`, `web/server.py:509`): the tab is registered, its
  driver runs for an agent out of service, and the next message builds another one.
  The driver goes on with the old one, next to the tab's messages, and is not even
  cancelled when the tab closes, since the removal then finds another agent than its
  timer was set for, or none. `LatestServed` and `OneDriver` name these agents
  (`stillborn`).
- After an agent was built again under a running call, two agents of a role write
  at once: rows of one exchange may stand between those of another, and both use the
  same turn numbers; the lock that `core/agent.py:217` relies on is per object.
- If the largest turn number cannot be read (`web/session.py:82`,
  `core/cli_controller.py:50`), the numbers of the role begin at 0 again.
- What the user has corrected is overwritten by what is extracted later: the
  contradiction lowers its confidence from 1.0 to 0.4 first
  (`memory/fact_checker.py:214`, against `doc/technical.md:611`).

- After a restart the turns read back have lost their metadata
  (`web/session.py:74`), so that fallback texts of an outage go into the prompt,
  though `core/agent.py:339` says that they are left out.
- The retrieval that may fail is guarded (`core/message_handler.py:301` says that
  its exception must not get through), the one that stands in for it in
  `_run_agent3` is not: the message ends without a reply.
- `remember` answers "remembered" also when the value there is surer and stays.
- A fact that was hidden by a contradiction keeps its old confidence; stored
  again with less, it comes back with its old value (`storage/repository.py:323`).
- Writes of `promote_fact` that fail are logged, and the batch counts as done.
- Decay is computed from the last verification each time, and applied to what the
  decay before has left, so it compounds with every collection.
- A call that is cancelled at its timeout inside a transaction is not rolled back
  (`storage/database.py:105` catches `aiosqlite.Error` only).
- The idle time is read before the decision and not again
  (`core/runtime_driver.py:107`, `:148`): the character may speak just after the
  user wrote, though `IDLE_FLOOR_SECONDS` says "no proactivity below this".
- The comment on `SLEEP_TRANSITION_TICKS` says ten minutes; asleep it is an hour.
- README says one dream per sleep; there may be two (`DreamsBounded`).
- Without a driver nobody calls `get_sleep_state`: a role used only through
  `POST /api/chat` that was loaded asleep answers "zzz" all day. `AwakeByDay`
  says "with a driver" for that reason.
- SL-011 means to guarantee the wake-up at half past nine, but the chance is
  capped at 0.9; the fail-safe at ten does guarantee it.
- README and `doc/message-flow.md` promise three retries in each of three rounds,
  nine attempts; the retry count is never reset between rounds, so that a message
  has at most six (`LimitsKept`), and the test `total_attempts < 9` never fails.
- The pool of a batch is left only when every thread has ended, so a request
  that hangs does hold up its batch, whatever the timeout per future.
- If the last retry makes no call at all, the records of the round are empty:
  Agent 3 is told of no failure.
- A reply that proposes an action is stored as it is, JSON and all, while the
  user is shown its `reply_to_user`.
- A turn of a cancelled driver is stored, but neither sent nor counted for the
  rate limit; an exploration that is not shared is stored all the same.
- A cancelled removal timer can remove a newer timer's table entry; the newer
  one can then not be cancelled any more. `LatestServed` holds all the same,
  because the timer looks again before it removes.

About storage:

- A crash between the renaming and the copy of UK-001 leaves the facts in a table
  that no later start reads again (`storage/database.py:308`); they stay in the
  file, and in the snapshot.
- A crash between the copy and the renaming of version 5 copies the insights twice.
- A file from before `relationship_metrics.session_id` cannot be opened: the first
  script names the column that only a later step adds.
- SR-002's branch for a role whose own session is among the old ones is never
  taken, and two sessions with the same key of a fact make `open` fail every time.
- The dropped tables of version 6 count on the snapshot, which is allowed to fail.
- The first statements of a call that is cancelled at its timeout stay in the open
  transaction and are committed by the next writer (`storage/database.py:105`,
  `core/async_utils.py:71`). `CallsAtomic` promises only what a call that has said
  done, or failed, has a right to.
- A fact that is written again without an embedding keeps the vector of its old
  value.
- A pool of four workers serves database and model calls: four model calls that
  were given up hold every caller on the event loop until they end.

About consolidation and the care list:

- `should_consolidate` (`memory/consolidation.py:106`), `verify_insight`,
  `resolve` and the prompt cache's `invalidate` and `clear` have no caller in the
  program; `expire_due_insights` never finds anything to do.
- An observation is to be reused by a retry of its batch (`:150`); any turn added
  in between makes it another batch, and the next round always adds one.
- The Web host never consolidates what is pending at its shutdown.
- The user's answer is credited to the entry of the number (`record_outcome`), and
  numbers of removed entries are given again: the answer to one care may settle
  another. The care of a message is settled on before the message is written.
- The list is written in place, and a torn file reads as an empty list, which the
  next save keeps.

About the services:

- After a change of the embedding model the cached vectors of a batch are dropped
  and not asked for again, so `encode` returns fewer vectors than texts, though
  its callers pick by index (`memory/embeddings.py:73`, :104). `Fits` says so.
- A slow restart that becomes ready too late counts as failed, so a server that
  needs it three times is given up (`doc/deployment.md:115` counts failures); one
  not ready after the first ninety seconds is never guarded at all.
- Servers are killed by the name of their program: another application's too, and
  a second host is left without.
- A stream that breaks after some tokens is asked for again, and its tokens are
  shown twice.
- A tool that hangs is not waited for by its batch, but by the interpreter's exit.
- The limiter's removal of empty windows (#331) happens at a request of the same
  client, so it does nothing for clients that never return.
- A personality file that is not UTF-8 is an exception, no broken file. The list
  of events that is read from a file is trimmed to spare dreams; a fresh deque
  drops its oldest, a dream too (`models/personality.py:361`).
- A crash while the backup is copied, and then a file its owner breaks, is the
  default character; `CharacterKept` says "of which a backup was made".

## Fairness

Safety runs use none. `Conversation!FairSpec` has weak fairness for the steps a
thread takes once it has begun: calls to the model and the database end by their
timeouts (`core/async_utils.py`, the provider's). Nothing makes a user write, a
driver speak, or a thread get a contended lock. `Sessions!FairSpec`: calls end,
timers fire, hours pass (weak); `cleanup_old` runs every five minutes however
often an age is reset in between (strong, since its guard comes and goes).
Nothing is assumed of clients and drivers. `Pipeline!FairSpec`: a turn that has
begun takes its next step (weak fairness of `Step` as a whole), since every model
call, tool and database call ends by a timeout of its own; that the turn then
ends is the work of the limits, not of the fairness.

`ServicesSpec` takes the fairness of each of its modules. `Provider!CallsEnd`: the
minute of the open breaker passes, and a call that has begun goes on (requests
have timeouts); `AskAgain`: the threads that nobody stops call again, as the
driver's loop does. `EmbeddingServer!ServerFairness`: a process that loads comes
to an end, and each host's polls and probes are timed; nothing makes a server
stay up. `Dispatcher!DispatchFairness`: threads of the pool that can go on do, and
a tool's time passes; a tool need never return.

## What is proved

`ConversationProofs`, for any users, drivers, buffer sizes and bounds
(`ConversationAssumption`: threads and drivers are disjoint, the buffer holds
more than one exchange's replies):

- `Numbering`: `Spec => [](TypeOK /\ NumbersAscend)`, on either host. The invariant
  `IInvNumbers` adds that rows are numbered as they are written, by agents there are
  (`AgentsKnown`), and that some row has the largest number (`HasTop`). A new row
  carries its agent's counter, which is not behind any row the agent knows; a new
  agent takes the largest number there is, or knows of no row but its own.
- `ExchangesExclude` and `LogIsTranscript`, assuming `Locked`. The inductive
  invariant `IInvExchanges` says who is inside which lock (`HolderOwns`), that
  exchanges belong to one thread and one agent (`ExchangesOwned`), and that an
  exchange with rows wrote the last row of its agent and holds its lock
  (`OpenExchangeLast`). Without the last part an exchange could be resumed after
  another one wrote. The proof has a lemma for each kind of step: `QuietStep`,
  `MoveStep`, `OpenStep`, `TakeStep`, `WriteStep`, `CountStep`, `LetGoStep`,
  `ShiftStep` (drivers and agents change, nobody writes) and `RestartStep`. The
  refinement maps `speaking` to the exchange of each lock's holder; each action is
  matched with an action of `Transcript` or a stutter. The assumption is needed: on
  the CLI and TUI, without it, a driver's message may cut an exchange in two.
- `MemoryOnDisk`: the entries of each buffer are rows, in ascending order, also right
  after a reload.
- `RepliesNumbered`, assuming `Locked`. `RepliesCounted`: who wrote a reply under the
  current number of its agent is about to count it, or its exchange was cut short;
  and who is about to count holds the agent's lock, so nobody else replies for that
  agent under that number.
- `FeelingsAttributed`, assuming `Locked`. `HeardLast`: while a message is answered,
  the latest turn of a user in the buffer of its agent is that message's own, as many
  turns from the end as replies were given to it; a buffer longer than those never
  drops it. Nobody else writes to that buffer meanwhile, since who is inside another
  lock works for another agent (`OtherAgent`).

`SleepCycleProofs`, for every cooldown of 1 to 18 slots (19 is too long: the
character could sleep into the evening):

- `SleepTypes`; `RestIsKept` from it.
- `AwakeInDaytime`. The invariant `DayInv` ties the guard and the cooldown of a
  sleeper to how long ago the window was in which it fell asleep: by the time
  the daytime begins, neither can hold the check back.
- `SleepsOnce`. `WindowInv`: within a window, who has fallen asleep in it is
  still asleep on file, since no wake-up window overlaps it.
- `TwoDreams`. `DreamInv` counts the dreams that the place in the loop allows.

`RuntimeDriverProofs`, for any loops, agents, gaps and caps:

- `DriverTypes`, with `OneLoop`: one loop at most is not cancelled, and it drives
  the live agent. Everything else rests on that.
- `BackoffAccounted`: with one loop, the driver that a reset concerns is the only
  one whose backoff counts.
- `LimitsOnDisk` and `SeldomSpeaks`. The rate limit needs three facts together:
  the file is what the live agent holds (`StateOnDisk`), the file never claims
  more time since a message than has passed (`FileNotAhead`), and a loop that
  engaged within the limit is still within it when it speaks (`ClearToSpeak`),
  since nobody else speaks for its agent.

`PipelineProofs`, for any requests, pool and limits:

- `LimitsKept`. The bound on attempts rests on `Tally` (an attempt is the first
  of its round or one of the retries) and on which kinds of turn pass where.
- `NothingRepeated` and `AllSuccessTold`. `DoneIsDone`: what succeeded in this
  round and was not given up is in the batch, with its run ended; so a retry,
  which needs that nothing succeeded, finds only given-up successes. `Recorded`:
  what earlier rounds achieved is in the records, or they are cut and it is later
  than all they have, which `NoneAhead` gives when a round is added. An exception
  hands over to Agent 3 only where the running request is the whole batch, hence
  unfinished.
- `FailuresAnswered`.

`FactStoreProofs`, for any keys, values, confidences above 0.3 and bounds:

- `FactsHonest`. The write of a contradiction is worked out from an old read, so
  `HonestConfidence` is not inductive: `FoundHonest` says that seven tenths of
  what was read, which is the most that can be written, is honest for whatever
  value the row has by then. It is kept by a write in between, because only
  remember and correct write while a contradiction is weighed, with 0.9 and 1.0.
- `FactsFresh`. `FreshSince`: a row only gets fresher between the read of decay
  and its write, so what the transaction leaves active is above the threshold.
- `RemarksWeighed`, where `alone`. `Steady`: in a consolidation a row not yet
  contradicted is as sure as when it began, and one contradicted once is at least
  as sure as what some remark of the batch left of it; with more than 0.3, which
  is all that is extracted, half of it is reached by that remark or the new one.
- `MergesKeepVotes`, where `alone`. `RowsCounted`: an active row was stored once at
  least, so that the code's `max(count, 1)` adds what the row had. `SnapNow`: nobody
  else writes while a merge works through the rows it has read, and what it has
  merged it does not look at again. A sum is the size of a set of pairs (`Total`),
  which adds up over disjoint parts (`TotalOfParts`).
- `FactTypes`, with the counts.

`MemoryProofs`, on the connection, for any callers, pool of workers and statements:

- `CallsAreAtomic`. `HolderInside` says who has the lock, and `RowsKnown` which
  rows each stage of a call has on disk and in the open transaction: of a call
  that is done, all on disk; of one that is inside, the statements so far, in the
  transaction; of one that was cancelled, anything. Nobody commits for somebody
  who is inside, because only who is inside commits. `NoneAhead`: no row is of a
  call to come, so that a new one begins with none.
- `CallsSurviveCrashes`: the same invariant over `Crash` of `Storage`, where the
  connection goes with its open transaction and what is committed stays.

`MemoryProofs`, on the migrations, for any sessions, keys, snapshots and number of
deaths, and any files that older versions may have left (`IsLegacy`: a number is
one row, a session has one role, no rebuild has been begun):

- `FileTypes`, with `TablesThere`: at each step the tables are there that it
  renames, copies or drops.
- `BackupStays`. `Snapshots`: an old file is not touched before a backup was tried,
  and every start adds one at most, so the first is not rotated out before there
  were as many starts as are kept.
- `FactsAreKept` and `MergesAreAtomic`, from one invariant on the file on disk and
  the one the connection sees. `Sound`: every fact told is in a table (`Safe`), every
  fact keeps its key and stands where its session stands (`Traced`), the pairs
  are the old file's or a role's with itself (`Mapped`), a session that is mapped has
  its turns and one that is not is gone (`Placed`), and nothing is merged before
  `user_facts` has its new constraint (`Rebuildable`). `Halfway` says where the steps
  of `open` stand. `Sound` is said of `disk` and of `work`, so that a death, which
  only throws `work` away, keeps it.
  They have one hypothesis, `NotATable`: the mark of a missing table is not itself
  a table, which a model value is not.

`MemoryProofs`, on the care list, for any contents, limits and bounds:

- `CareTypes`, `NothingTwice` and `SettledForGood`. `Listed` says of the list and of
  what the file holds, read or not, that it is `Fine`: no active entry twice, every
  entry another one that was really made, and none active that is closed for good.
  The file has to be included, since a restart makes it the list. Each helper keeps
  a list fine; `Archived` and `Evicted` take entries out, and `VictimThere` says that
  there is one to take while the list is too long.

`ServicesProofs`, for any threads, clients, texts, models, limits and bounds:

- `LimitHolds`. `RateInv`: what a client has an entry for is the end of all the times
  it was let in (`Remembers`), and what came before is older than a window that ends
  now; so a full window turns the client away.
- `VectorsFit`: the places with a vector are all of the batch, unless the dimension
  changed in the call; `NthIn` counts them.
- `BlocksAreFresh`. `CacheInv`: what is kept was read no earlier than it is said to be
  made, since whoever builds a block takes the time before it reads.
- `CharacterStays`. `WrittenStays`: while there is a backup it is of a written
  character, the file is there, and nothing that the program holds or the file says
  is the default one.

`MemoryProofs`, on consolidation, for any intervals, limits and bounds:

- `NothingForgotten` and `ExtractedAtMostOnce`. `BatchIsBuffer`: until its facts
  are sought, the batch is what the buffer holds; `DoneOrFailed` and `WaitsUndone`:
  afterwards what the buffer holds is extracted, or the step has failed and nothing
  of it is; `LastIsNew`: what an exchange hands over was never handed over before.
- `InsightsEarned`. `NewsIsFresh`: while an insight may still come of a batch, the
  flag speaks of that batch; nothing but `Reflect` adds an insight.

`SessionsProofs`, for any roles, clients, limits and bounds. The manager's methods
take a registry and return one, so each has a lemma of its own: it keeps the
registry `Sound`, that is typed and `Tied` (an agent in service is its role's, the
driver registered for a role runs for the agent that `Serves` it, in service or
stillborn, and no other driver runs). What drops sessions `Spares` the roles with a
socket, and every method `Keeps` what a role's emotion is, but for roles it marks. An
action composes the lemmas of the calls it makes; `Mild` is the common case, a method
that spares and keeps.

- `OneDriverEach` is `Tied`, read from the driver's side. It needs `Fresh`: a socket
  drives nothing before its init frame, so the driver that the frame starts takes
  nobody's place but the one `register_proactive` cancels.
- `RolesSerial`. `Lined`: who is inside a role's lock is the head of its line, the
  others of the line wait, and nobody stands in it twice.
- `LatestIsServed`. `Served`: what drops a role looks at `_active_ws` first, and
  that names the latest tab as long as it is open. The exception is the session that
  a creation evicts before its socket is registered (`StillbornSound`).
- `MoodsAreKept`. A role's emotion is the live agent's or else the file's, and only
  an answer changes it. `MoodInv` says whose it is: until a role is overtaken,
  whoever calls it holds the agent in service. A last save that works makes the file
  what the agent was, and a role whose last save failed is marked.

Each safety invariant and action property of a passing run is now a theorem, for
every value of the constants. Only model-checked are:

- all liveness (`LockReleased`, `Answered`, `ProviderComesBack`, `Recovers`,
  `BatchEnds`) and whatever depends on ENABLED: beyond the proof system;
- the properties that runs show violated, of course;
- what `encode` leaves in its cache, which is a fold: `VectorsFit` holds for any
  cache, so nothing is proved of it.

The library's induction theorems take an operator and cannot be used. Where an
induction is needed (the least of a set, the n-th of its members, the next free
number, the entry to evict) the proofs take the least element of a set of
counterexamples, from the well-foundedness of the numbers; and `Places` and
`FactStore!Total` define by cardinality what a recursion would compute. `DreamsBounded`,
`StateOnDisk`, `LimitsKept` and the types are proved and have no run of their own.

## Plan

1. `Conversation`, `Sessions`, `SleepCycle`, `RuntimeDriver`: done.
2. `Pipeline`: done, but for the proactive decision's own thinking and the
   provider's retries.
3. `FactStore`, `Consolidation`, `CareList`: done.
4. `Storage`, `Provider`, `Embeddings` and its server, `Dispatcher`,
   `PromptCache`, `Personality`, `RateLimit`: done.
5. Proofs of every safety property that the passing runs check: done.
6. The streaming tag filter against a reference, and the compression of a
   conversation, during which turns added by others are cleared.

Runs are few by intent: modules without shared state are checked together, side
by side, in one run.

## Not modelled

Prompts and their wording, rendering, the tools' own input and output, ranking
arithmetic of the retrieval, the arithmetic of emotions, monitoring and logging.
The compression of a long conversation, the streaming tag filter, the validator
of personalities, the migration of a version-1 care list, and the concurrent
consolidations that the TUI allows. The HTTP services (model,
embeddings, search) appear only as answers that may come, fail or time out. The
browser client is external; `Sessions` assumes that it sends one init frame per
connection. Token authentication and origin checks are left out.
