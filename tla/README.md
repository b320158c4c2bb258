# A verification of einoai in TLA+

einoai runs Eino agents on behalf of chat sessions. A run is created under a session, executed
by a goroutine of one process, recorded in Redis as a stream of events, and read by any number
of subscribers, which translate the events into the AI SDK or the OpenAI stream protocol. Several
processes ("instances") share one Redis.

This directory holds the models of that system, the TLC configurations that check them, and the
TLAPS proofs about the store, the service with its workers, the subscriptions, the event builder with its splitter
and the two stream writers.

## 1. Inventory

| component | source | state | operations |
|---|---|---|---|
| run store | `store_redis.go` | per session the pointer `current_run`; per run a hash `meta` and a stream `events`, each with an expiry | the Lua scripts `initRun`, `setRunStatus`, `appendEvent`, `finishRun`, `clearCurrentRunIfMatches`; `getRun`, `getCurrentRun`, `deleteRun`, `deleteSession` |
| run service | `service.go`, `run.go` | session locks (local to a process), the calls in progress | `CreateRun`, `GetRun`, `GetRunByID`, `CancelRun`, `DeleteSession`, `SubscribeEvents` |
| run worker | `service.go` | the goroutine, its context, `runCancels`, `deletedRuns`, what the hooks were told | `executeRun`, `streamAgentEvents`, `watchRunLifecycle`, `finishCancelled`, `finishFailed`, the hooks |
| event stream | `event_stream.go` | a cursor (`lastID`), closed or not, the context of the call | `Next`, `Close` |
| event builder | `runner.go`, `stream_result.go` | open blocks, tool calls by index, chunks of the step, output, usage | `writeMessage` and its parts, `closeOpenBlocks`, `writeFinish` |
| reasoning splitter | `reasoning.go` | pending text, inside a tag or not | `feed`, `flush` |
| AI SDK stream writer | `aisdk/stream.go` | step open, tools of the step, finish waiting for tools | `WriteEventStreamTo` |
| OpenAI stream writer | `openai/stream.go` | role chunk, usage option, error seen | `WriteChatCompletionStreamTo`, `CollectChatCompletion` |
| AI SDK messages | `aisdk/message.go`, requests, responses | none; they travel in the client's history | `ToSchemaMessages`, `FromSchemaMessages` |
| OpenAI messages | `openai/message.go`, requests, responses | none | `ToSchemaMessages`, `FromSchemaMessages` |
| session messages | `session_message.go`, `usage.go` | ids, in the `Extra` of stored messages | `assignSessionMessageID`, `NewSessionRunResponse` |
| demo server | `cmd/server/` | none | HTTP handlers |

How they interact: a call of the service is a sequence of Redis commands. `CreateRun` starts the
worker. The worker hands each message of its agent to the event builder, whose appends are Redis
scripts, and learns of the other calls in three ways only: through the registry of its instance
(`runCancels`, `deletedRuns`), through the reply of its next script, and through the poll of its
watcher. Subscribers only read Redis. The writers pull events from a subscription. Conversations live outside: a
client sends its history with every run, the result of a run (input and output) goes to the application's
`OnTerminated` hook, which stores it in place of what it had (README.md:84-92 of the repository), and the
client loads its history from there, through one of three conversions.

What is hard:

* Only a script is atomic. `CreateRun`, `GetRun`, `DeleteSession` and `CancelRun` are several
  commands, and the session lock does not reach other instances, `GetRun` or `CancelRun`.
* A run can be ended by its worker, by a cancellation here or elsewhere, by a timeout, a
  deletion, the expiry, or a crash, at any point of its worker.
* go-redis sends a command again when no reply came, after a backoff and up to three times, so that commands
  of other instances run between the executions; the scripts that write are not idempotent, and `initRun` looks at
  the session's pointer only.
* An agent may fail at any time, also after its finish was stored; what a model streams of one step may not fit
  together.
* Subscribers read the events and then the status, in two commands.
* The agent's content is cut anywhere, an append may fail in the middle of a handler, and the
  handlers that end the run go over the same state again.
* Results of parallel tool calls come one by one, after the finish of their step.
* A turn of an agent is one UI message and several schema messages; it is cut and merged again with
  each round trip, by ids that only some of the messages carry.

What makes each component correct is stated by the properties of section 4.

## 2. Modules

| module | models | state ↔ code |
|---|---|---|
| `RunLifecycle` | nothing: the abstract promise about one run (created once, sealed once, never changed again, only forgotten) | `status`, `log`, `born` |
| `RunStore` | `store_redis.go`, one action per script or command | `meta` = status field of `...:meta`, `current` = `...:current_run`, `events` = `...:events`; `lagging` says which streams expire before their hash; `issued` the ids used |
| `RunStoreProofs` | the theorems about `RunStore` | |
| `RunReaders` | nothing: the abstract promise to whoever follows a run, over `RunLifecycle` | `lost` = how much of the beginning of a log is gone, `reader[u]` where a reader stands, `given` what it was given |
| `EventStreamProofs` | the theorems about `EventStream`, on top of those | |
| `RunWorker` | the goroutine of a run, extends `RunStore` | `worker[r].pc` is the place in `executeRun`, `ctx` the run's context, `runCancels`, `deletedRuns` the maps of the service, `terminated` and `completed` what the hooks received |
| `RunService` | the calls, extends `RunWorker`: the composition of the three | `call[c]` is a call with its locals, `lock` the session locks; `verdict` is a history of the terminal statuses Redis held |
| `RunServiceProofs` | the theorems about `RunService`: its types, and that it drives `RunStore`; the runs of a session; outcomes and hooks; what workers and deletions leave | |
| `EventStream` | `SubscribeEvents`, `Next`, `Close`, beside an arbitrarily driven `RunStore` | `stream[u]` the fields of `redisEventStream` and the context of the call; `dropped`, `delivered`, `seen` are histories |
| `ThinkSplitter` | `feed`, `drain`, `flush` as operators; `Rounds` are the rounds of the loop in `drain` | a record `pending`, `inThink` |
| `ThinkSplitterProofs` | lemmas about the splitter and about functions on `0..n`, which stand for loops | |
| `ThinkFeed` | a text fed to the splitter in chunks, next to a reference that reads it uncut | |
| `ThinkFeedProofs` | the theorems about the splitter | |
| `EventBuilder` | `runEventBuilder` and the ends `executeRun` gives it | `builder` its fields, `log` the events that reached Redis |
| `EventBuilderProofs` | the theorems about `EventBuilder` | |
| `RunEvents` | the order in which events of a run are stored, as the writers see it | |
| `UIStream` | `WriteEventStreamTo` (AI SDK) | `state` the writer's locals, `wire` the parts written |
| `UIStreamProofs` | the theorems about `UIStream` | |
| `ChatStream` | `WriteChatCompletionStreamTo`, and next to it `CollectChatCompletion` (`collected`, its locals) | as above |
| `ChatStreamProofs` | the theorems about `ChatStream` | |
| `SchemaMessages` | `schema.Message` as the conversions use it, and `Transcript`, what a history says | a record per message; texts are sequences of tokens |
| `UIMessages` | `aisdk/message.go` as operators, and what UI messages say | |
| `ChatMessages` | `openai/message.go` as operators | |
| `SessionMessages` | ids and the session view of `session_message.go`, and what the view says | |
| `Conversation` | the composition of the three over several runs: clients of both adapters, the runs' results, the application's store | `client`, `stored` the two histories, `results[r]` = `RunResult.Messages`, `hooks` the results not stored yet; `said`, `base` are histories |
| `MC...` | instances for TLC | |

Each action is one Redis command, or what a goroutine does between two of them that another
goroutine can see. A script action takes the reply its caller sees, so that a lost reply
("unavailable", whether or not the script ran) is a behaviour of the action. A command that is sent again is
executed by actions of its own (`Unanswered`, `CallUnanswered`, `CallInitAgain`), with anything in between. Names of actions are those of the functions they model;
`PROJECT.json` maps every definition to its lines. Definitions whose comment says "Mutant" are
not part of a specification: each is the form a definition would take with a plausible bug, and
replacing the definition by it makes a run fail.

## 3. Abstractions

* An event is its type, and for a finish its reason. What an event carries is kept only where
  a property needs it (`EventBuilder`, the writers).
* In `RunService` the blocks of text are one kind of note. The block ends that `writeFinish`,
  `finishCancelled` and `finishFailed` append before they finish a run are left out: a worker
  that fails there goes where it goes when the finish itself fails. `EventBuilder` has them.
* A message of an agent is one event for the worker. `EventBuilder` has the rest.
* The session locks are sharded by a hash in the code; here each session has its own lock. Two
  sessions that share a shard only wait longer.
* A run id that `initRun` turns away is not used up, as nobody ever sees it.
* A command that is sent again is an execution whose caller waits on (`Unanswered` of a goroutine, `CallUnanswered` of a call),
  followed, after whatever others do, by the execution whose reply the caller sees. Of a script that tests the status of its run the second
  execution is a further call of it, so that `RunStore` needs an action for `initRun` only: `InitAgain`, under the fault "reinit". The number of executions
  is not bounded (go-redis stops after three retries); TLC bounds what they add to a stream (`MaxEntries`). Not modelled: a
  copy of a command that Redis executes after its caller was answered or gave up, and commands sent again that only read, which a
  later read shows as well.
* `ErrRunActive` names the active run in its text. `known`, the ids clients have, does not gain it.
* The id of a stream entry is its position among all entries the run ever had; Redis takes the
  time, which only grows.
* Expiry: the scripts refresh hash and pointer together, so these two expire together; the
  stream expires with them or before.
* SCAN returns each key that exists from its start to its end and may return others.
  With `OneBatch` one reply holds all keys of the session, which is what `COUNT` gives
  for a small database.
* In the conversions a text is a sequence of tokens, so that order, loss and repetition show; a tool
  call is its id (name and arguments go with it), a file is how its URL carries the data, the kind of
  its media type and whether it has a name. JSON is told apart into objects, quoted strings and plain
  text, because the conversions treat a result differently when it is one or the other. A history says
  a sequence of items: a tool result counts at its call, and with or without quotes.
* `Conversation` takes a run from its creation to its end as one step; how a run goes is the
  business of `RunService` and `EventBuilder`. What `useChat` makes of a stream is external code, modelled from
  the parts `UIStream` writes.
* Tags of the splitter have three symbols (`ThinkFeed`) or two (`EventBuilder`) instead of eight;
  `drain` depends only on which suffixes are proper prefixes of a tag.
* Tool calls of a step have the indexes 1 to `MaxCalls`; the code has any, in a map that it sorts. What a model call reports
  as its usage only grows while it is streamed (`Plausible`): the builder keeps the report that came last, and so takes it for the total of the call.
  A call without an index counts as having that of its place, for which eino does not ask that ids agree.
* What `schema.ConcatMessages` asks of the chunks of a step is that fields that are given more than once agree: a message has
  one such field, `name`, which stands for role, name and the rest, and the ids given for one index must agree (`Concatenates`).
* `ChatStream` knows the finish reasons that runs store; "content_filter" and "function_call" pass as they are and are left out.

## 4. Runs

Bounds are constants of the modules and are given in the `.cfg` files; all other sets are small sets of
model values. Every definition that bounds a model is named `Max...`, `AgentEvents` or is a set.

| run | configuration | what it shows |
|---|---|---|
| `store` | 1 session, 2 runs, streams of 2, expiry, lost replies, scripts other than `initRun` sent again | `PointerNotTerminal`, `SealedByOutcome`: a stream ends with the outcome its hash records; `TerminalIrreversible`; `LifecycleSpec`: the store implements `RunLifecycle` (and with it `ForgottenStaysForgotten`) |
| `create` | 2 instances, 3 calls, 2 runs, agents of 2 messages that may fail before their finish | `OneActiveRun` without deletions; `ReportAgrees` and `EveryEndReported` without cancellations: the hooks are told of every end, and what Redis recorded |
| `all_calls` | 2 instances, 3 calls, 1 run, timeouts, agents that fail (also after their finish), go on after their finish or leave a call without id | `CompletedMeansCompleted`, `NoZombie`, `DeletionComplete` |
| `faults` | 1 instance, 2 calls, 1 run, streams of 3, lost replies, any command sent again at any later time, agents that fail before or after their finish, expiry, a crash, callers that leave, SCAN in any batches | `StoreSpec`: whatever the service does, it drives Redis only as `RunStore` allows (`ServiceDrivesStore` of section 5 is this for all instances) |
| `live` | 2 instances, one of them with a run timeout, 2 calls, 1 run, fair | `CallsReturn`, `SessionFreed`, `CancelReachesWorker` |
| `event_stream` | 1 run of at most 2 entries, 3 calls of `Next`, cancelled, timed out or closed anywhere | `NoGap`, `FinishIsFinal`, `EofAfterRead` (`io.EOF` hides nothing that was there at the last XREAD), `NextReturns`; `ReadersSpec`: subscriptions implement `RunReaders` |
| `think_chunks` | all texts of up to 7 symbols over 4, in chunks of up to 3 | `ChunkingIrrelevant`, `OnlyTagsWait` |
| `messages` | 3 runs; parallel calls answered in the other order, a further call, an interrupted step; tool ids used again in every run; two kinds of files; replaying, editing, loading, client tools, an application that sends its own history | `InputKept`, `UIHistoryKept`, `EveryViewKept`, `IdsIdentify` |
| `builder` | 4 messages, some with names that contradict each other, an append failing at any place for any reason | `BlocksWellFormed`, `FinishClosesBlocks`, `TextMatchesOutput`, `OutputComplete` (in its order, results of tools included; a run that fails lacks at most a step that contradicts itself), `ToolCallsComplete`, `UsageCountedOnce`, `FeedsWriters`: the log obeys `RunEvents`, the input that `ui_stream` and `chat_stream` are checked with |
| `ui_stream` | 2 tools, 10 events, writes that fail at any part, a client with or without a cursor | `StepsBracketed`, `ToolPartsInOrder`, `StepWaitsForTools`, `EndsOnce` |
| `chat_stream` | 2 tools, 7 events, usage requested or not | `FinishedOnce`, `UsageOnRequest`, `CollectAgrees` |
| `two_active` | 1 instance, 5 calls, 3 runs | a violation, see section 6 |

Why the bounds are enough: the actions of the store touch one run and one session, so two runs in
one session have all the interference there is; an event is only told apart by being a seal or a
note, so two entries show every order of the two. In the service, the runs of a session follow
each other, and what is left of the first must be met by a call for the second: hence two runs in
`create` and three in `two_active`. The worker goes through the same loop for each message; two
messages are a step finish or a note, then an end. A splitter can wait for one tag at a time, and
seven symbols are two whole tags and more. Four messages are two steps with a cut tag or
a fragmented call in one of them; ten events are two tool steps with two calls each, one resumed. Three runs are a turn that is
stored, one that is built on it, and one that comes after a reload or a late hook; the later runs have
fewer replies, since a conversion does not know in which run it is called.

`CHECK_DEADLOCK FALSE` is given where a text, a run of an agent, a writer or a conversation comes to its end. Deadlock is
checked in `RunStore`, `EventStream` and `RunService`; the last has an explicit step `Quiet` for the state
in which every call and every worker has returned, so that a call that waits for ever is found.

Fairness (`live`, `event_stream`): goroutines that can run are scheduled (weak fairness of each call's and
each worker's own steps), the watcher's ticker goes on after a failed read, the timer of a run
fires, and an agent returns once its context has ended, which is Eino's contract. Nobody has
to make a call, and an agent whose context is live may never answer: this is why `SessionFreed`
is stated for runs with a timeout. `live` has no lost replies, crashes or leaving callers: under those
nothing is claimed of liveness, and a lost reply to the last `finishRun` of a worker does leave its run active
until it expires.

## 5. Proofs

### The store and its subscribers

`RunStoreProofs` proves, for all sets of runs and sessions, all reasons, with and without expiry
and faults:

| theorem | statement | hypotheses |
|---|---|---|
| `StoreTypes`, `StorePointer` | `StoreSpec => []StoreTypeOK`, `[]PointerNotTerminal` | |
| `StoreOnlyInitRevives` | a run that is not active keeps its hash and stream or loses them in every step but `InitAgain` | |
| `StoreSealed` | `StoreSpec => []SealedByOutcome` | `InitOnce` |
| `StoreTerminalIrreversible` | `StoreSpec => TerminalIrreversible` | `InitOnce` |
| `StoreForgotten` | `StoreSpec => ForgottenStaysForgotten` | `InitOnce` |
| `StoreRefinesLifecycle` | `StoreSpec => LifecycleSpec` | `InitOnce` |

    InitOnce == "reinit" \notin Faults

says that no `initRun` is executed again after it took effect. Without it the four are false of the code (`MCLateInit` of
section 6), and `StoreOnlyInitRevives` says that this is the only reason.

The only assumption is `StoreAssumption` (a run id belongs to one session, `NoRun` is not a run id,
and what kind of values the other constants have). The inductive invariant is

    IInv == StoreTypeOK /\ PointerNotTerminal /\ (InitOnce => SealedByOutcome) /\ PointerOwned /\ FreshUnused

`PointerNotTerminal` alone is not inductive: `finishRun` clears the pointer of one session only,
and without `PointerOwned` (a pointer names a run of its own session that was created) another pointer could be left
at the run. `SealedByOutcome` is not inductive either: without `FreshUnused` (an id that was never used
has neither hash nor stream) `initRun` could queue a run whose stream already ends with a seal. There
is one lemma per operation; the action properties rest on `InactiveUntouched` (no script but `InitAgain`
changes a run that is not active) and `OtherStepsRemove` (all other steps only remove).

`EventStreamProofs` proves, for any number of subscribers, runs and calls of `Next`:

| theorem | statement | hypotheses |
|---|---|---|
| `StreamTypes` | `Spec => []TypeOK` | |
| `StreamNoGap` | `Spec => []NoGap` | |
| `StreamEof` | `Spec => []EofAfterRead` | |
| `StreamFinish` | `Spec => []FinishIsFinal` | `InitOnce` |
| `StreamRefinesReaders` | `Spec => ReadersSpec` | `InitOnce` |

A further assumption is `StreamAssumption` (`MaxNext` is a natural number). The inductive invariant `SInv` is the
invariant `IInv` of the store, types, and for each subscriber: `Named` (a subscription has its run), `Ascending` (the
cursor is at or behind all that was delivered), `Covered` (what lies between the cursor it began with and
the cursor was delivered or is gone), `Drained` (an XREAD that found nothing, or an `io.EOF` after it,
leaves nothing of what was there), and `Final`: a seal that was delivered is the last entry its run has.
`FinishIsFinal` alone is not inductive: nothing in it keeps the run from getting another entry.
`Final` adds that the run id is used and the cursor is at the end, and `InactiveUntouched` and
`OtherStepsRemove` of the store then show that the numbering of a run that has ended stands still.
Steps of a subscriber are reduced to its own part by `OthersKeep` and `OwnIsAll`; steps of
the store are `StoreInv`.

`RunReaders` says the same in the form of a system of its own, without XREAD, cursors or calls: a reader that comes stands anywhere
in the log of a run, takes the first entry behind it that is not lost, may find nothing at a moment, and may conclude only when the
run was over and it found nothing before. Under the refinement mapping of `EventStream` (`Reader`, `given`; the log and its lost beginning come
from `RunStore`'s own mapping) `XREAD` is `Take` or `FindNothing`, the check of the status is `Conclude`, and a new call of `Next` is `AskAgain`. One lemma
shows this for each kind of step (`SubscribePromise`, `ReadPromise`, `CallPromise`, `StorePromise`); the reader whose step it is not stays where it is
(`OneMoves`, `StaysPromise`).

### The service

`RunServiceProofs` proves, for all sets of runs, sessions, instances and calls:

| theorem | statement | hypotheses |
|---|---|---|
| `ServiceTypes` | `Spec => []TypeOK` | |
| `ServiceDrivesStore` | `Spec => StoreSpec` | |
| `ServiceSealed` | `Spec => []PointerNotTerminal`, and `[]SealedByOutcome` | `InitOnce` for the second |
| `ServiceIrreversible` | `Spec => TerminalIrreversible /\ ForgottenStaysForgotten` | `InitOnce` |
| `ServiceRefinesLifecycle` | `Spec => LifecycleSpec` | `InitOnce` |
| `ExecutedOnce` | the call that registers a run finds no goroutine of it anywhere | |
| `OneRunPerSession` | `Spec => []OneActiveRun` | `KeysStay` |
| `VerdictFinal` | no second outcome of a run ever appears | `InitOnce` |
| `OnCompletedIsTrue` | `Spec => []CompletedMeansCompleted` | `InitOnce`, `PlainReasons` |
| `ReportsAreTrue` | `Spec => []ReportAgrees` | `Unmolested`, `Timed = {}`, no late errors |
| `EndsAreReported` | `Spec => []EveryEndReported` | `Unmolested`, `WellBehaved` |
| `WorkersLeaveNoZombie` | `Spec => []NoZombie` | `Undisturbed`, no `tool-calls` |
| `DeletionsAreComplete` | `Spec => []DeletionComplete` | `Thorough` |

The assumptions on the constants are `StoreAssumption`, `WorkerAssumption` and `ServiceAssumption`: what kind of values the constants
have, and that "none" is not an instance. All that has no hypothesis holds with lost replies, any command sent again, expiry,
crashes, callers that leave, timeouts, and agents that fail or misbehave; `InitOnce` excludes one of these, an `initRun` that is sent again.

*The base.* The inductive invariant is

    SInv == IInv /\ TypeOK /\ WorkerKnows /\ CallsOK /\ TargetsIssued

`IInv` is the invariant of the store. The others are what a script needs in order to be an action of `StoreNext`: a goroutine
has an instance and a run that was created, and appends what leaves the run active and finishes it with what does not
(`WorkerKnows`); a call only acts on runs of its own session and deletes keys of its session (`CallsOK`), and its run
was created (`TargetsIssued`). `WorkerDrives` and `CallDrives` show step by step that Redis is driven as
`RunStore` allows, which makes the theorems about `StoreSpec` theorems about the service. `Steps` splits a step into that of
a call, a goroutine, an expiry, a crash or nothing, for all the proofs that follow.

*Sessions.* `FreshKept`: a run between `initRun` and `registerRunCancel` has no goroutine, and one call holds it.
This is `ExecutedOnce`. `OneActiveRun` is not inductive; with it `PointerKept` (an active run is the one its session's pointer names, and
no hash disappears), `CallsHarmless` (no call is on its way to remove the pointer or the keys of an active run, and a run that is about
to be started is active) and `StartedKnown` (a run whose id a client knows has a goroutine, so that a cancellation does not come
between `initRun` and the first event) are, under

    KeysStay == "delete" \notin Ops /\ ~ ({"get", "cancel"} \subseteq Ops) /\ ~ Expires /\ "lost" \notin Faults

Each of the four conjuncts is needed: TLC finds two active runs in one session as soon as one is dropped, because a `GetRun` or `CreateRun` that finds
the hash behind its pointer gone removes the pointer by its key (section 6). In the case of `get` with `cancel` the hash goes when
`CreateRun` rolls back the run that was cancelled before its first event. `InitOnce` is not among them: where the keys stay, an `initRun` that is sent
again finds its own pointer, or a run that has ended and no other one that is active.

*Outcomes.* `VerdictKept` ties the history of outcomes to what Redis holds. `CompletedKept`: a goroutine that may still call
`OnCompleted` has its finish stored as completed; it holds under all calls and all faults but a late `initRun`, when agents report none of the four reasons
that the code reads in two ways (`PlainReasons`; `MCErrorReason` and `MCToolAlias` are what happens with them). `ReportAgrees` and `EveryEndReported` need that nobody
but the worker ends its run (`Unmolested`, which includes `KeysStay` and `InitOnce`; `MCLateCancel`, `MCRemoteCancel`) and rest on `Undeterred` (a goroutine that nobody
stops fails only by its agent or its timer, and its run is active until it has stored a finish), `Truthful` (the outcome it remembers is
the one recorded; a timer may fire, or the agent fail, between the stored finish and the report, hence `Timed = {}` and no "lateError": `MCLateError`) and `Told` (it does not get to its end without a word;
`WellBehaved` excludes scripts sent again, messages that cannot be completed and agents that write after their finish, `MCUnreported`).

*What is left.* `LeftKept`: a goroutine leaves only a run that has ended, or that a call of `DeleteSession` has marked and will remove.
`Undisturbed` excludes what can cut off either before its last command (lost replies, callers that leave, crashes) and the late `initRun` that brings a run back, and `tool-calls` is
the reason after which a run is taken for finished that is not. `DeletedKept` is the invariant behind `DeletionComplete`: who is past
`Lock` holds the lock (`LockKept`); a batch has the stream of a run with its hash, or the hash is gone (`FoundKept`); a goroutine has a stream
as long as its run has a hash, so that a SCAN that sees the hash sees the stream (`StreamKept`); no deletion of the instance has seen
a run that is about to be started there (`StartUnseen`); and what is left of a run that was found is in the batch to come (`DeletionKept`).

    Thorough == OneBatch /\ InitOnce /\ ~ Expires /\ ~ CallersLeave /\ MaxCrashes = 0

TLC violates `DeletionComplete` when any of the other four is dropped: with batches (`MCDeleteLeaves`) the worker starts its stream again after it was
deleted and before the hash is, an expired stream is started again in the same way, and a call that is cut off leaves what it has not reached. `InitOnce`
is there because a late `initRun` puts back the hash that was deleted.

### The reasoning splitter

`ThinkFeedProofs` proves, for any two tags that are not empty, any text and any way of cutting it into chunks:

| theorem | statement |
|---|---|
| `ChunksDoNotMatter` | `Spec => []ChunkingIrrelevant` |
| `OnlyPiecesOfTagsWait` | `Spec => []OnlyTagsWait` |

The assumption is `TagAssumption` (the tags are texts, and not empty). `ChunkingIrrelevant` is not inductive: it says nothing of what is pending. The
invariant `InStep` is about all texts that the text so far may become:

    InStep(f, s, ps) == \A e \in Seq(Symbols) : Stands(f \o e, Len(f) - Len(s.pending), s, ps)

`Stands(text, i, s, ps)`: the reading of the whole `text`, up to its symbol `i`, has said what the parts `ps` spell, is on the side of the tags where the splitter is,
and what is pending follows. A chunk uses the continuations that begin with it, so that it can be cut anywhere. `Longest` and `NoneTold` are why `drain` may tell a
symbol before it knows what comes: a tag that starts at it would agree with the whole rest of what is pending, and the longest end that does is
kept. `CutStands` and `Told` are the two kinds of steps of `drain`'s loop, `ReadPlain` and `ReadTag` what they mean for the reading, and `NoTagLeft` that the loop ends in
as many rounds as symbols are pending. Induction over data is by `Recursion` and `Upwards`, which `ThinkSplitterProofs` proves from the well-foundedness of finite sets: the induction
theorems of the library take an operator, which the provers cannot instantiate.

### The event builder

`EventBuilderProofs` proves, for any two tags, any set of messages, runs of any length, and an append that fails at any place of any handler
for any of its reasons:

| theorem | statement | hypotheses |
|---|---|---|
| `TypeCorrect` | `Spec => []Typed` | |
| `BlocksAreWellFormed` | `Spec => []BlocksWellFormed` | |
| `FinishesCloseBlocks` | `Spec => []FinishClosesBlocks` | |
| `UsageIsCountedOnce` | `Spec => []UsageCountedOnce` | |
| `OutputIsComplete` | `Spec => []OutputComplete` | `Unfinished = FALSE`, `PlainResults` |

The assumptions are `TagAssumption` and `MessageAssumption` (what a message is). `Unfinished = FALSE` is a model that finishes a call before its tools answer; without
it TLC finds `OutputComplete` violated (`MCNoFinish`). `OutputComplete` itself has an exception: chunks of a step that contradict each other cannot be
committed, also not by `finishFailed`, so that the finish of a run that failed or was cancelled may lack its last step. A completed run lacks nothing. `PlainResults`: a tool's answer has neither reasoning nor calls of its own.

A handler is a chain of operators on a record, and the proofs follow it: each operator has a lemma that says what it does to the record, in terms of a relation that adds
up. `Onward` (the stream only grows, by events that are no finish, and a handler that has failed does nothing more), `Quiet` (only tool calls), `Writing` (only
blocks), `Calm` (either: the step, the chunks, the output and the usage stay) and `Went` (`Calm`, but chunks and output may grow) are these relations;
`WroteFinish` and `WroteMessage` are what `writeFinish` and `writeMessage` come to, `StepIs` is the case split of `Next` in their terms. The loops over parts, calls and
indexes are functions on `0..n` (`WritingParts`, `WritingCalls`, `FlushingCalls`), whose lemmas rest on `Recursion` and `Upwards` of `ThinkSplitterProofs`.

Three inductive invariants follow, each on top of the types.

* *Blocks.* `BlocksWellFormed` says nothing of the builder. `BlocksInv` adds `Sound` (a block is open in the stream exactly if the builder has it as open, and none belongs to a
  later step), `Closing` (a finish finds all blocks closed), and `Fresh`: a block that is not open was not begun in this step. The last is false in the middle of
  `closeOpenBlocks`, which is called again after it failed: a block that was closed stays closed only because the splitter was flushed before and has nothing left to
  tell. Hence `Fresh` or an empty splitter once the run no longer streams (`Steady`). A tool call whose id never came stops `closeOpenBlocks` before the blocks, which is the
  exception `FinishClosesBlocks` makes.
* *Usage.* `UsageInv`: `builder.usage + builder.stepUsage` is never more than was reported, and equal to it while the run streams and no report came late. An append
  that fails loses at most the report of its message.
* *Output.* `OutputInv`: what was committed, followed by the chunks of the step, is all that was yielded (`Output(builder) = said`), and before its end a run
  has handed over exactly that. `Lasting` is what the last finish of a run that did not complete hands over. `CommitIs` is why it may be cut
  anywhere: a commit moves text from one to the other, and one that was done before its finish failed has left no chunks to commit again. That a tool's result, which is
  committed at once, does not overtake the message that called for it is `Orderly`.

### The Chat Completions writer

`ChatStreamProofs` proves, for any set of tools, runs of any length and writes that fail anywhere:

| theorem | statement |
|---|---|
| `StreamFinishedOnce` | `Spec => []FinishedOnce` |
| `StreamMetered` | `Spec => []UsageOnRequest` |
| `StreamCollected` | `Spec => []CollectAgrees` |

The assumption is `RunEventsAssumption` (kinds of text are text or reasoning). The inductive invariant says of the positions of the wire: the role chunk is the
first and the only one (`Opened`), only usage and `[DONE]` come after a finish_reason (`Finished`), usage follows it at once (`Metered`), and as
long as the stream is read nothing on the wire ends it and an error chunk is remembered (`Unfinished`, without
which an error could be followed by a finish_reason).

`CollectAgrees` compares two loops over the same events, `WriteChatCompletionStreamTo` and `CollectChatCompletion`; the model runs them side by side, `collected` being
the locals of the second. `CollectInv` says that while the stream is read they are at the same place: `streamErr` is set exactly when `runErr` is, and the content chunks
on the wire are the pieces collected, in their order (`Says`). `MoreSays` adds a content chunk to both, `SameSays` any other chunk, and `TerminalSays` lists
what the finish event is written as. An error that could not be written leaves the loops apart, so past the end of the
reading only `CollectAgrees` is kept: a stream with `[DONE]` had none of its chunks refused.

### The AI SDK writer

`UIStreamProofs` proves, for any set of tools, runs of any length, clients that come late, streams that end early and writes that fail at any part:

| theorem | statement |
|---|---|
| `UIStepsBracketed` | `Spec => []StepsBracketed` |
| `UIToolPartsInOrder` | `Spec => []ToolPartsInOrder` (a property of clients that missed nothing) |
| `UIStepWaitsForTools` | `Spec => []StepWaitsForTools` |
| `UIEndsOnce` | `Spec => []EndsOnce` |

The assumption is `RunEventsAssumption` again. The four properties speak of the wire alone and none is inductive. The inductive invariant `Inv` ties the wire to
what the writer knows: a wire that is being written is inside of a step and has none of the last parts (`Fine`); a call that was begun in the current step is started and listed
in `toolOrder`, and a completed one has its output in this step (`Resolved`, without which `allToolOutputsCompleted` would say nothing about the wire). For
clients that missed nothing, a tool's `available`, `completed` and `input` are what the step's parts say (`Matches`), and the tools are those of the run: called and
not available while the model speaks, available and waiting for the finish of the step afterwards (`Follows`). That no fragment of a call comes after
it was made available, and its output only once, rests on `Follows`: the writer itself does not look, it is the run that neither continues a call after the finish of its step
nor answers it twice.

The lemmas are about wires: what a block of parts adds to the current step (`SameStep`), what `finish-step` and `start-step` do (`StepEnds`, `StepBegins`), and that every
prefix of a good wire is good (`PrefixBracketed`, `PrefixWaits`, `PrefixOrderly`), which is why a failing write may come anywhere. `CallKeeps`, `ResultKeeps`,
`PendingKeeps`, `Aborts` and `Finishes` are the handlers, put together in `EventWritten`. `writePendingToolsAvailable` writes one part for each pending place of
`toolOrder`, in order; `AscendingSorts` shows that listing a finite set of places leaves none out.

### What stays with TLC

* Liveness: `NextReturns` and the properties of `live`. Fairness and `ENABLED` are outside of what the prover handles.
* `TextMatchesOutput`, `ToolCallsComplete` and `FeedsWriters` of `EventBuilder`: they compare subsequences of the log, `SelectSeq` of a sequence or a fold of
  `RunEvents!After` over it, and `SelectSeq` is recursive.
* `Conversation`: what the conversions compute is defined by folds over sequences of any length.

## 6. What the code does not keep

One disagreement between the code and its documents is a run of the project:

* `two_active` (`store_redis.go:196`). `getCurrentRun` removes the pointer by its key, after it
  found the run behind it gone. A `GetRun` that is overtaken by `DeleteSession` and `CreateRun`
  removes the pointer of the new run, and another `CreateRun` gets in beside it. `docs/api.md:9`:
  "同一 session 只能有一个非终态 run；创建占位由 Redis 原子保证".

The others have a configuration that is not part of the list of runs; TLC finds the property violated in seconds:

| configuration | property | what happens | what is said |
|---|---|---|---|
| `MCUnreported` | `EveryEndReported` | the fallback finish fails, the run is finished as failed, no hook is called (`service.go:466`) | README.md:12, "`OnTerminated` 在 completed、cancelled、failed 三种终态都会触发" |
| `MCRemoteCancel` | `EveryEndReported` | another instance ends the run; the worker is turned away and is silent (`service.go:444`) | README.md:154, "取消和失败不会触发 `OnCompleted`，但会触发 `OnTerminated`" |
| `MCErrorReason` | `CompletedMeansCompleted` | finish reason `error` is stored as failed and reported as completed (`service.go:476`) | run.go:60, "receives a successfully completed run" |
| `MCToolAlias` | `CompletedMeansCompleted` | a last message with reason `tool-calls` leaves the run running in Redis and is reported as completed (`runner.go:280`) | `2026-08-04-run-completion-hook-history-design.md:63`, "after the run reaches `completed`" |
| `MCLateCancel` | `ReportAgrees` | a cancellation after the finish was stored makes the hooks report a completed run as cancelled (`service.go:448`) | README.md:94, "取消和 agent 错误会在 Redis 终态写入后调用 `OnTerminated`" |
| `MCLateInit` | `TerminalIrreversible` | `initRun` tests the session's pointer only: its reply is lost, another instance cancels the run, which frees the pointer, and the script that is sent again sets the cancelled run to queued, with `run_created` to follow behind its finish; after a `DeleteSession` it brings the deleted run back (`store_redis.go:78`) | README.md:135, "`completed`、`cancelled`、`failed` 都不可逆" |
| `MCLateError` | `ReportAgrees` | an agent fails after its terminal finish was stored: `finishFailed` is turned away, the hooks hear that the run failed, and Redis holds it as completed (`service.go:454`) | README.md:94, as above; README.md:153, "agent 错误会写入 error/finish 事件并将 run 标记为 failed" |
| `MCDeleteHook` | `DeletionIsSilent` | `DeleteSession` on another instance: the worker finds its run gone and reports it as failed (`service.go:447`) | README.md:94, "删除整个 session 不触发 hook" |
| `MCDeleteLeaves` | `DeletionComplete` | keys deleted in two batches: the worker starts the stream again in between (`store_redis.go:211`) | docs/api.md:66, "删除该 session 的 run metadata、current pointer 和 events" |
| `MCStreamEof` | `EofMeansDrained` | `Next` reads no event, then reads the status; events and the finish that are stored in between are lost with `io.EOF` (`event_stream.go:77`). `EofAfterRead` is what holds | `2026-07-14-event-stream-context-cancellation-design.md:23`, "`io.EOF`: normal completed stream" |
| `MCNoFinish` | `OutputComplete` | a model that reports no finish reason: the tool's result is committed before the message that called for it (`runner.go:89`) | nothing that names such a model; a call without its result in front is what providers accept |
| `MCToolReuse` | `UIHistoryKept` | a later step of a run uses a tool id again: the loaded history has its result in the first part (`aisdk/message.go:316`) | `2026-08-21-protocol-stream-after-tools-design.md:11`, "response-scoped tool call IDs can be reused safely in later steps", said of the live stream |
| `MCLateUsage` | `NoUsageLost` | usage that comes after the finish of its model call is replaced or never added (`runner.go:101`) | README.md:11, "累计 usage" |

(`MCLateUsage` and `MCNoFinish` run module `MCEventBuilder`, `MCStreamEof` `MCEventStream`, `MCToolReuse`
`MCConversation`, the others `MCRunService`.) The passing
runs check the same properties where the code keeps them: `DeletionComplete` with one batch,
`CompletedMeansCompleted` with the reasons `stop` and `tool_calls`, and so on.

Reading the conversions shows more that the models abstract from, or that no run asks about:

* A text result of a tool reaches the next model call in quotes, because `marshalToolOutput` marshals what
  `parseMaybeJSON` had left as a string, and an empty result becomes `{}`; truncated arguments become a string.
* The file name of an image, audio or video part is dropped (`aisdk/message.go:463`): eino's parts of these kinds have none.
* Data behind the comma of a data URL is taken for base64, whether or not the URL says so.
* The session ids of the pieces one UI message is cut into are equal (`session_message.go:161`); `IdsIdentify` allows it.
* A client that trims its history gets `msg_<index>` ids that clash with ones it has; a loaded message without a UI id
  is `msg_<index>`, the live one was `msg_<run>`.
* Hooks that store out of order leave the application with the earlier turn.
* Calls of an interrupted run that have no result are sent to the next model as they are.
* A history with files loses them in `openai.FromSchemaMessages`, tool contents that are arrays are lost in
  the session and UI views, generated files are lost in `aisdk.ToSchemaMessages`; role "developer" becomes "user".
* `<think>` text that the stream shows as reasoning is text again after a reload, and within one step reasoning
  is put before the text.
* The usage of a loaded UI message is that of its last step, and `mergeUsageMetadata` writes into the stored message's
  metadata map.

Three limits contradict no document and restrict properties instead. A run whose last step cannot be concatenated fails, and its finish
lacks that step, because `finishFailed` tries the same once more and ignores the error (`runner.go:293`, `service.go:538`): "partial output", which
`OutputComplete` allows for. A client of the AI SDK stream with a
cursor inside of a tool step never sees the end of that step, so that `ToolPartsInOrder` is stated for
clients that missed nothing. A process that dies leaves its run active until it expires, or for
ever when `redisTTL` is 0, so that `NoZombie` speaks of workers that ran to their end.

## 7. Not modelled

JSON, hashes and their decoding, apart from what section 3 says; names of tools; values of usage and
`usage.go`; metadata; cloning of requests; what a file part carries; the HTTP handlers that only
decode, call the service and encode; the demo agent. `getRunForEvents` is not called by any code. Redis failures are in
`RunStore` and `RunService`; `EventBuilder` only knows ended contexts and ended runs. Errors of conversions
are modelled where a request can cause them (`ChatMessages!Refused`); `json.Marshal` of decoded values does not fail.

## 8. Plan

1. A module that composes a subscription with a writer, so that the `io.EOF` of `MCStreamEof` is
   followed to the wire.

## 9. How to check

    tlc -config MCRunStore.cfg MCRunStore
    tlc -config MCServiceCreate.cfg MCRunService      # and the other MCService*.cfg
    tlc -config MCConversation.cfg MCConversation
    tlapm RunStoreProofs.tla            # and EventStreamProofs, RunServiceProofs, ThinkSplitterProofs,
                                        # ThinkFeedProofs, EventBuilderProofs, ChatStreamProofs,
                                        # UIStreamProofs
