# A verification project for speech-native-kit

TLA+ modules that model the operation lifecycle of the speech host, the Parakeet
and the Apple backend below it, capability discovery and routing, and the streams
of the Tauri plugin; the TLC configurations that check them on small instances;
and TLAPS proofs about all of them, for every value of their constants: each safety
property and each refinement the passing runs check is proved. Liveness is left to TLC.

Paths below are relative to the repository. `operation_lifecycle.rs`, `lib.rs`
(host) and `task_supervisor.rs` stand for
`crates/speech-native-host/src/operation_lifecycle.rs`,
`crates/speech-native-host/src/lib.rs` and
`crates/speech-native-types/src/task_supervisor.rs`; *the Parakeet backend* is
`crates/speech-native-backend-parakeet/src/lib.rs`, *the Apple backend*
`crates/speech-native-platform/src/apple_backend.rs`.

## 1. The system and its parts

A client submits a transcription or synthesis request under an id it chose. The
host plans a route, reserves the id, hands the request to a backend, and spawns a
supervised *monitor* that relays the backend's final response into the client's
*ticket*. Everything can be cancelled: by dropping the ticket, by
`SpeechHost::cancel(id)`, by `quiesce`, by `shutdown`.

| component | state it keeps | operations | talks to | what is hard | correct when |
|---|---|---|---|---|---|
| operation registry (`operation_lifecycle.rs`) | the next sequence; per id the record of its live operation (identity, phase, cancel mark, terminal class, progress, attempts); a released slot shared with each lease | reserve, queue, start, terminal, release, finish_attempt_and_release, fail_setup_and_release, request_cancel(_all), publish_progress, start_attempt, attempt finish, guard drop | called by the host and by whoever holds a lease, a guard or an attempt | leases are clones that outlive their operation and meet the next admission of the same id | each generation has one fate, keeps its own marks and attempts, ends once and never changes after |
| task supervisor (`task_supervisor.rs`) | phase, active count, totals, first failure, active ids, join handles, an archive of 1,024 joined ids, a fault flag, a `Notify` | spawn, spawn_blocking, the reaper's finish, begin_shutdown, wait_for_idle, snapshot | host monitors, backend workers | worker, reaper and spawner race; the `Notify` stores no permit | it never faults itself, counts exactly, and "idle" after closing is for ever |
| speech host (`lib.rs`) | phase, backends, routes, retained shutdown result, a fault flag, a `Notify` | register_backend, transcribe, synthesize, cancel, quiesce, shutdown, the tickets' drop | registry, supervisor, backends | the state lock, the registry lock and the backend's lock are taken one after another; three kinds of cancel race with completion and id reuse; the shutdown caller may go away | routes and operations match, no accepted cancel is lost, Ok from shutdown means nothing is left, everybody waiting is woken |
| backend protocol (`SpeechBackend`) | phase, active operations by id, their cancelled flags | transcribe/synthesize (admission), cancel by id, shutdown | called by the host | cancel is by id, not by identity; the answer is out before the id is free | refuses an id it still holds; answers what was cancelled |
| Parakeet backend | the above, with a nonce per operation, a stream sink, a bounded audio and a bounded event channel, a retained shutdown result, a `Notify` | push, finish, worker loop, terminal event, shutdown | host, client's audio sink, task supervisor | push races finish and cancel; a full event channel must still take the terminal event; the stream is resampled chunk by chunk | the terminal event always fits and agrees with the final response, accepted audio is transcribed, a cancel is answered, the map follows the workers, the samples do not depend on the cuts |
| Apple backend | as above, but nothing per operation beyond its flag; one lock of the process around synthesis, the choice of a voice and the probes' inventory | choosing a voice in the call, run_synthesis on a blocking thread, the WAV made of the buffers | Apple frameworks by FFI | a native call cannot be interrupted; the voice is looked up with a blocking wait on an executor thread; probes abandoned by their time-out keep the lock; lengths and fields of fixed width | those three never overlap, shutdown waits for them, nobody waits for ever, the payload holds every sample |
| platform probes (`speech-native-platform`) | the registered sources | register, probe all at once, each under a time-out; validate and collect reports | host snapshot, router | reports come in any order, late, invalid, or claiming ids of others | only what a source saw itself counts, and one source does not spoil the others |
| router (`speech-native-router`) | none (pure) | plan_transcription, plan_synthesis | host | many gates in a fixed order; the preferences of backend and voice packed into one rank | a local-only plan is proven local, and a plan is the best of the eligible |
| Tauri plugin | sinks of live streams by request id | transcribe_stream, audio_push, audio_finish, shutdown hook | host | removes a sink by id after the backend has given the id back | a stream's audio reaches the stream; no sink is left behind |
| W1 contract projections | none (pure) | closed summary, JSON projections | host facts | - | summaries agree with the facts |

Modelled: everything but the last row, the text tables and the native calls
themselves (section 7).

## 2. Modules

| module | what it is |
|---|---|
| `OperationLedger` | what the registry promises, without phases, leases or attempts: generations are opened under an id that is free, cancelled, decided once and closed |
| `OperationRegistry` | `operation_lifecycle.rs`, one action per method, all of them callable for every generation ever issued |
| `OperationRegistryProofs` | the registry's invariants and action properties, retained progress among them, and that the registry implements the ledger: proved |
| `SupervisedTasks` | what the supervisor promises: tasks are admitted while it is open, each is joined once |
| `TaskSupervisor` | `task_supervisor.rs`: spawner, worker, reaper, waiters and the `Notify` |
| `TaskSupervisorProofs` | the supervisor never faults, a drained one is done, its failure summary is exact, it implements `SupervisedTasks`, and no waiter misses its wakeup: proved |
| `SpeechBackends` | the backends as the host meets them, by request id |
| `SpeechService` | what the host promises its clients, without registry, backends, tasks, locks or wakeups |
| `SpeechHost` | the host, which implements `SpeechService`, composing `OperationRegistry` (INSTANCE R), `SpeechBackends` (B) and, for its monitors, `SupervisedTasks` (T) |
| `SpeechHostProofs` | the host runs the registry, the backends and the supervisor as their specifications say, keeps all its safety properties and implements `SpeechService`: proved |
| `ParakeetBackend` | the backend around its workers: admission under a nonce, leases, cancel, shutdown with its coordinator and callers; implements `SpeechBackends` and uses `SupervisedTasks` (INSTANCE T) |
| `ParakeetBackendProofs` | what a shutdown retains is true; the backend implements `SpeechBackends`; no caller of shutdown misses its wakeup: proved |
| `ParakeetTranscription` | one transcription: worker, sink, cancel, audio and event channel, final response, lease; implements `SpeechBackends` for one request |
| `ParakeetTranscriptionProofs` | the terminal event always fits; a cancel stops the model; events tell the answer; accepted audio is heard; types; the refinement of `SpeechBackends`: proved |
| `StreamResampling` | `StreamingNormalizer` and the cutting into model chunks, against `resample_complete` |
| `StreamResamplingProofs` | up to twice the model's rate a stream resamples to what the whole buffer does, however it is cut: proved |
| `SpeechCapabilities` | descriptors, capabilities, evidence and requests, with the checks `speech-native-types` makes of them |
| `SpeechRouter` | the router: gates, voice selection, ranks, the order of candidates, plans and rejections |
| `AppleVoices` | the two backends the Apple probe describes, and the voice the Apple backend gives a request |
| `CapabilityRouting` | discovery and routing composed: sources, the concurrent probe, a system that changes, planning, pinning, speaking |
| `CapabilityRoutingProofs` | a local-only plan is proven local; one source cannot spoil a snapshot; a plan is the best; a planned voice speaks: proved |
| `WavEncoding` | the WAV payload made of native buffers |
| `AppleRuntime` | the Apple backend at work beside the Apple probes; extends `ParakeetBackend` (the admission protocol is the same line for line) and `WavEncoding` |
| `PluginStreams` | the plugin's stream commands over `ParakeetBackend` |
| `BackendExtensionsProofs` | the backend's theorems hold below the plugin and the Apple backend; no sink outlives its command or is lost but to an overlap; native calls are exclusive, an answered shutdown left no worker, the audio answered is whole: proved |
| `MC*` | constants for TLC |

### How the models follow the code

*Registry.* A method that takes the registry mutex is one action; its early
returns are its guards, and a method that returns an error changes nothing, so it
has no step. `operations` is `RegistryState::operations`; `leases` maps each
generation (the `sequence` of an `OperationIdentity`) to its id; `released` is the
filled released slots; `attempt_leases` and `armed` are the attempts and the
consumer guards not used up. `asked` and `published` are histories. The `u64`
bounds are the constants `MaxSequence` and `MaxAttemptSequence`: `checked_add`
refuses where the guard `< Max...` does. `release` holds the slot's lock and the
registry lock while it moves a record into the slot, and `snapshot` takes the
registry lock first, so both are single steps.

*Supervisor.* `spawn` is three steps (admit, retain the reaper's join handle, open
the reaper's gate); the worker may end between any two of them. A `Notify` is the
set of futures enabled and the set woken; `notify_waiters` wakes exactly the
enabled ones. `wait_for_idle` is enable, check, sleep, with the check on its own
step.

*Host.* `transcribe` and `synthesize` are the same procedure, written once, as the
stages of `executor[g]`: reserve (one step, under the state lock, with the
registry inside), queue/start/start_attempt (three registry locks), the backend's
admission, the second look at the cancel mark, `spawn_monitor`, the backend's
final response, `finish` (registry, then route), the answer, the join. A call ends as
its final response says, as Failed when its executor was dropped, and, refused by the
backend, as the error's class says, Failed or Cancelled (`TerminalsOf`). A cancel is
three steps (route under the state lock, mark under the registry lock, then the
backend by id), whoever makes it. `shutdown` is a caller (enable, read the phase,
read the fault flag, sleep) and the coordinator it spawns. `strays` is a history
of backend cancels that hit another generation than the one they were captured
for. The host uses the supervisor through its abstraction `SupervisedTasks`, which
`TaskSupervisor` implements (run `supervisor`). To its clients the host is
`SpeechService`: an id is in use while the host has a route for it, the outcome of a
call is what its released slot says, an answer is owed from `spawn_monitor` to the
delivery, admission is open in the phase Running, and the report is the shutdown
result retained.

*Backends.* A request's `cancelled` flag, its final response and its place in the
active map. A worker may answer any class at any time, and leaves the active map
only after it has answered.

*Parakeet backend.* In `ParakeetBackend` an operation is its nonce; `active` is the
map, with `Free` for an id that is not in it. `spawn_operation` is one step,
because it holds the lock over `spawn_blocking` and the lease's drop needs that
lock. A caller of `shutdown` is enable, read the phase, await, wake, like the
supervisor's waiters; the coordinator closes the supervisor, waits until no task
is live, and publishes (under the lock, then notifies).

*One transcription.* In `ParakeetTranscription` the worker is `stage`:
`run_transcription` is Begin, Start, the loop, Conclude (the last look at the
flag), Terminal, Final, Returned; the loop is Receive, Chunk, Loop, Infer, Tail for
a stream and Loop, Infer for complete audio. `cancel_operation` sets the flag, sets
`finished` and takes the sender in three steps, all under the backend's lock, which
the lease's drop waits for. `push` is four steps (look at `finished`, clone the
sender, send, look again) and holds its clone to the end, so the channel stays open
behind a sender that was taken. `finish` is two. Audio is counted in frames; what
the model returns is a choice between text, no text, an error and a panic.

*Resampling.* In `StreamResampling` a sample is its index and an output sample the
point it interpolates, so two outputs are equal exactly when they read the same
samples at the same fraction. Positions are exact; the code's are `f64`.

*Discovery and routing.* Identifiers are naturals whose order is that of their
bytes; `Empty` is one without text and `None` an optional one that is absent, which the
code tells apart (an empty model id is reported freely and refused when it is asked
for). A backend's voices are a sequence, in which ids may repeat; a language tag is a
base with or without a region, in one case. What a request's text or number would fail is
a set of codes it carries (`defects`), so
the order of the checks is kept and their parsing is not. `Plans` is the set of
plans the sort in `finalize` may put first; that it has one element is part of
`PlanIsBest`. `Report` is a source's probe with `source_report` after it, in any
order; `ReportsNothing` is an error, a panic or a time-out. `HostSnapshot` is the other
way to a snapshot, `snapshot_from_backends` of the host: one report under the host's own
source id, successful by construction, of the registered backends' descriptors, which
`validate_report` never sees. The router's `validate_snapshot` looks at both. `Speak` is
`pin_route` and the Apple backend's checks of the pinned request, against the voices
there are by then.

*Apple runtime.* `runtime` is the holder of `APPLE_RUNTIME_LOCK`. A call of
synthesize takes it in `BeginResolve`, before it is admitted, and does not give its
executor thread back while it waits (`CanPoll`); a worker takes it for the native
call and the encoding; the blocking task of a probe takes it whether its caller
still waits or has timed out. A panic inside the native call poisons the lock,
which `lock_apple_runtime` takes no notice of. `validate_request` reads the constants of
the speech rate from the library without the lock; they are values, and no step.
A buffer is its rate, shape and
planes of bytes. In the run samples are bytes known by their
place, so a payload is right only when every byte is where it belongs.

*Plugin.* A command is known by the nonce of the operation it started; it opens,
enters its sink, relays, removes whatever is under its id, and returns. A push
borrows the sink and changes no state of the plugin, so it has no step. There is
no host between plugin and backend here, so an id is free earlier than the host
would let it be: there are more behaviours than the program has, which is sound for
the properties checked.

### What the models leave out

Poisoned mutexes, panics under a lock, a runtime that refuses to spawn, and a
client that drops the future of `transcribe` (neither built-in backend awaits in
it). The branches the host has for a registry call that fails (`rollback_setup`, a
failing `finish`) have no action because no such call fails: that is the invariant
`LifecycleCallsSucceed`. Likewise, the host reads the supervisor's fault flag as
false, which is `NeverFaults`. Request contents, plans and event payloads are not
modelled in the host; a plan may select any registered backend or fail there, and
`CapabilityRouting` says what it selects.

The `Faulty...` operators (and a few others marked "for mutation") are versions of
an action with one plausible bug: a dropped guard, a forgotten notification, an id
where an identity belongs. They are not part of any specification; each shows that
a property notices the bug when the operator is put in place of the original.

## 3. Runs

| run | checks | instance |
|---|---|---|
| `registry` | `OneFate`, `CancelReachesOnlyItsGeneration`, `AttemptsBelongToTheirLeases`, `ProgressIsLatest`, refinement of `OperationLedger` | 2 ids (symmetric), 2 generations, 2 attempts each, queue of 1, 2 publications of 2 values |
| `supervisor` | `NeverFaults`, `FailureSummaryIsExact`, `DrainedMeansDone`, refinement of `SupervisedTasks`, `ClosedWaitersReturn`, under `FairSpec` | 3 workers, archive of 2, 1 waiter |
| `host_reuse` | `RoutesMatchOperations`, `LifecycleCallsSucceed`, `CancelIsNeverLost`, `OnlyRacingCancelsStray`, refinement of `SpeechService` | 2 calls of one id, ticket drops, quiesce, 1 caller of shutdown |
| `host_liveness` | `AbandonedOnlyWhenFaulted`, `CleanShutdownIsQuiet`, `ShutdownCompletes`, `CallersReturn`, `CancelledTicketsAreAnswered`, under `FairSpec` | 1 call, a caller of cancel, 1 caller of shutdown who may abort and come again |
| `parakeet_transcription` | `AcceptedAudioIsHeard`, `TerminalNeverBlocks`, `EventsAgreeWithFinal`, `CancelStopsTheModel`, refinement of `SpeechBackends`, `RequestsAreAnswered`, under `FairSpec` | both inputs, 1 pusher, 2 pushes of 0 or 5 frames and any sequence number, model chunks of 2 frames, audio channel of 1, event channel of 2 |
| `parakeet_backend` | `ResultIsTrue`, refinement of `SpeechBackends`, `CallersReturn` of the backend, `NoSinkOutlivesItsCommand` and `SinkIsLostOnlyToOverlap` of the plugin above it, under `FairPluginSpec` | 2 ids, 2 nonces, 1 caller of shutdown who may abort and come again |
| `resampling_cuts` | `StreamedMatchesComplete` | 8, 16, 22, 24 and 32 kHz; every way to cut up to 20 samples into chunks of up to 8 |
| `routing` | `LocalOnlyIsProven`, `SpoiledOnlyTogether`, `PlanIsBest`, `PlannedVoiceIsSpoken` | 2 sources, 12 reports of the second, 3 snapshots of the host's, 4 states of the system, 31 requests |
| `apple` | `NativeCallsDoNotOverlap`, `EncodedAudioIsWhole`, `ClosedMeansQuiet`, `NobodyWaitsForever`, under `FairAppleSpec` | 2 calls of 2 ids, 1 probe, 1 executor thread, 1 caller of shutdown, 7 utterances |
| `resampling_48k`, `host_stray_cancel`, `routing_voices` | the statements of section 4, each found violated | 48 kHz; 2 calls of one id; the instance of `routing` |

The `TypeOK` of each module documents the shape of its variables; the registry's and
the transcription's are proved, and none is among the runs. `NoWakeupIsMissed` of the
supervisor, the backend and the host is the safety half of `ClosedWaitersReturn` and of
the two `CallersReturn`; it is proved (section 5), and the runs check the liveness it serves.

*Bounds.* The registry's hazards need an old lease and the live generation that took
its id, or one of another id: two generations over two ids. Two attempts are the
fewest with which `finish_attempt_and_release` can meet an attempt that is not its
own; the progress queue needs more publications than it holds. All of it is proved
for every instance besides. In the supervisor three
workers and an archive of two give one eviction, two failures after a first one,
and workers at all the different stages of a spawn; waiters do not see one another,
so one is enough. In the host two calls of one id are one reuse; all that a cancel
captured for a call can meet later is a call of the same id, so one id is where
races happen, and calls of different ids only share the locks and the supervisor.
The ticket, the executor, quiesce and shutdown are the sources of cancels in
`host_reuse`; `SpeechHost::cancel` takes the steps of a dropped ticket and is added
in `host_liveness`. There a caller of shutdown who aborts and calls again is the
second caller, who finds the coordinator of the first; two who wait at once share
nothing but the notification, which wakes all. There is one backend: with two, the
coordinator's loop makes a second turn, and the state space no longer fits beside
the canceller. `FinalClasses` is cut to one class where the class does not matter to
the properties of the run.

In `ParakeetTranscription` a chunk of five frames is two model runs and a rest, so
a cancel can fall between any two of them and before the rest. An audio channel of
one slot and an event channel of two are full at once. Two pushes are enough to
fill the audio channel while the worker is busy, to arrive out of order, and to
stand on both sides of `finish`. In `ParakeetBackend` and `PluginStreams` two nonces
over two ids are two operations beside each other, or one after the other under one
id, which is the reuse that a late removal of a sink meets. In `StreamResampling`
the outcome depends on where in a step a cut falls; twenty samples contain every
such place several times.

In `CapabilityRouting` the instance is the list of reports, systems and requests
that `MCCapabilityRouting` names, chosen so that every gate, every kind of evidence,
every clash within and between reports, and every branch of voice selection is met;
one bridge claims the id of Apple's own backend, one reports a model and a voice with
blank ids and two voices of one id, and one of the host's snapshots carries the evidence
of a stranger. The four theorems of section 5 hold for all instances. In `AppleRuntime`
one executor thread is the hardest
case for `NobodyWaitsForever`: a call that waits for the lock leaves nobody to poll
the rest. The two calls have ids of their own, since reuse is `ParakeetBackend`'s
affair. `U16Max` and `U32Max` stand for the widths of the header's fields at 64 and
72, so small that every overflow in the utterances is one step past the bound; the
other utterances are both layouts, a short plane, a change of format and no audio.

*Deadlock.* The registry and the supervisor always have a step (a lease is
usable for ever; a snapshot may always be taken), and deadlock is checked there.
A host may really stop: closed, with every call returned and every ticket
collected; so may a backend, a transcription whose client never ends its stream, a stream that
has ended, and a request that was planned and spoken. Their configurations say `CHECK_DEADLOCK FALSE`;
that nobody is left asleep is stated by the liveness properties instead (a caller that misses its
wakeup never returns) and by `NoWakeupIsMissed`.

*Fairness.* The supervisor's and the host's `Fairness` is weak fairness of each
task's own steps: the runtime polls every spawned task and every future somebody
awaits, locks are held for a few instructions only, and the supervisor's owner
runs workers that end. In the host a backend worker must answer once it was
cancelled (it looks at its flag between chunks) and give its lease back once it
has answered; a worker that was not cancelled owes nothing, since a stream may
wait for its client for ever. No client has to submit, cancel, drop, quiesce or
shut down. That a cancelled worker answers is itself checked one level below, as
`RequestsAreAnswered` of `ParakeetTranscription`, which assumes that the worker
thread runs, that model runs end, that a cancel or finish under way goes on, and
that the client polls a push it started; nobody is assumed to read events.

In `AppleRuntime` threads run, a future is polled as soon as a thread of the
executor is free, and a native call returns, with a result, an error or a panic;
the library gives no handle to stop one. The lock need not be fair: there are
finitely many calls, workers and probes, and each takes it once or twice, so the
last one gets it, too. No call, probe, cancel or shutdown has to be made, and a time-out
need not fire.

## 4. Where the code and its documents differ

1. `TicketCancelIsScoped` (`host_stray_cancel`). The shutdown follow-up receipt
   (`docs/audit-receipts/2026-08-12-shutdown-followup.md:36-37`) says "Ticket
   cancellation remains generation-scoped and cannot cancel a newer request." The
   host compares identities and marks the lease in the registry by generation, but
   then calls `backend.cancel(request_id)`. If the operation ends and the id is
   admitted again in between, the newer request is cancelled in its backend. The
   registry's mark stays right (`CancelReachesOnlyItsGeneration`), and no other
   source than ticket and id cancels can stray (`OnlyRacingCancelsStray`).
2. `StreamedMatchesComplete` (`resampling_48k`), a bug. `docs/IMPLEMENTATION.md:167-168`
   says "Complete and live audio are downmixed and linearly resampled to the model's
   exact mono 16 kHz input." When a step is longer than two samples (rates above
   32 kHz, 44.1 and 48 kHz among them) the last position of a chunk may lie beyond
   its end. `StreamingNormalizer::push` then drains only the samples there are but
   takes the whole distance off the position, so the samples still to be skipped are
   not. The live samples depend on how the client cuts its audio: at 48 kHz, chunks
   of 2 and 4 samples give samples 0 and 2 where complete audio gives 0 and 3. Up to
   32 kHz it cannot happen (`resampling_cuts`).
3. `NetworkVoicesAreExcluded` (`routing_voices`). The router checks the network
   behaviour of the capability; `select_voice` reads id, language, gender and quality
   of the backend's voices and never `VoiceDescriptor::network`. A backend whose
   capability says Never but one of whose voices says Required therefore gets a
   local-only plan with that voice. `docs/IMPLEMENTATION.md:127` says, of Android,
   "TTS voices requiring network are excluded"; no adapter for it exists yet, and the
   Apple adapter reports every voice as Never. Everything else a local-only plan
   promises is `LocalOnlyIsProven`.

One more is stated by a passing run. `docs/IMPLEMENTATION.md:11-13` says the host
keeps an operation "until the selected backend's final response resolves". A
shutdown that closes the supervisor between a call's admission by its backend and
`spawn_monitor` makes the host release the operation as Failed while the backend,
only asked to cancel, still runs it. The host faults itself then, and nothing else
causes it: `AbandonedOnlyWhenFaulted`.

Smaller things met while modelling, which contradict no document: a push that
finds `finished` at its second look returns an error although its chunk will be
transcribed; a request for "en" passes the language gate of a backend with "en-US",
but no voice is chosen for it then (`voice_id` is none); at equal preference a route
without a voice goes before one whose voice is not of the best quality; one voice
with a blank language makes the whole Apple report invalid; the router does not
know the range of pitch and rate that Apple accepts, so a plan may be refused by the
backend; and two live streams of one id, the second admitted after the first was
answered and before its command removed its sink, lose the second's sink, which is
what `SinkIsLostOnlyToOverlap` allows and no more. Three were met in the proofs about routing.
Nothing checks that the voices a bridge reports have ids, and each its own: of two voices
of one id the router takes the first it finds, and the plan of the pinned request may
rank another one than the plan did; `PlanIsBest` says that it is the same plan but for
its rank. Nothing checks that a reported model or voice has text in its id either; it may
be planned, and then the pinned request is refused (`model_id_empty`, `route_voice_id_empty`),
which `PlanIsBest` says, too. And a
bridge may report a backend under Apple's id when Apple's own source failed; a plan then
speaks with Apple's voices what the bridge described, so `PlannedVoiceIsSpoken` is about
plans made on Apple's own report (`NativeReported`).

## 5. What is proved

All theorems are checked by TLAPS. `OperationRegistryProofs` holds for every set of
ids and every value of the bounds. Its only assumption is
`RegistryAssumption`: the two sequence bounds are positive naturals, the progress
capacity and the history bound are naturals.

The argument goes in layers, each inductive given the ones before it:

1. `TypeCorrect`: `TypeOK` is inductive.
2. `EveryGenerationHasOneFate`: every step is of one of three kinds, it opens a
   new generation (`Opened`), retires a held one (`Retired`), or keeps every id's
   identity (`IdentitiesKept`). `OneFate` follows each kind, so the many actions
   are seen once and never again.
3. `Traced` strengthens the cancel and attempt properties: cancel marks agree with
   the history *and* only issued generations are in the history and in the attempt
   leases, since otherwise a fresh generation could be born cancelled or with an
   attempt. From it `CancelsStayWithTheirGeneration` and
   `AttemptsStayWithTheirGeneration`.
4. `Sound` adds that phase, terminal class and attempts agree, which is what makes
   a released slot terminal: `PhasesAgree`, `ReleasedSlotsAreTerminal`.
5. From the layers, `ReleasedSlotsAreFinal` (action property) and
   `LeasesReadTheirOwn`.
6. `RegistryImplementsLedger`: initial states map to the ledger's, and every step
   is Open, Cancel, Decide, Close, or a stutter of the ledger. The refinement
   reads an operation's outcome from the record while it is live and from the
   released slot after, and needs `OneFate` for there being exactly one of them.
7. `RetainedProgressIsLatest`: the bounded queue holds the latest of what was accepted
   (`PushLatest`: with room, full, and at capacity zero). `ProgressTraced` adds that
   nothing was published for a generation that was not issued.

`SpeechHostProofs` holds for any number of ids, calls, backends, cancellers and callers
of shutdown; it assumes `HostAssumption`: the two sequence bounds are positive, a final
response has one of the three classes, and the coordinator is not one of the callers.
The invariant `Kept` has nine parts, which need each other:

- `RegistryKept`: the registry's invariants, carried over by citing its lemmas for an
  instance; and `ExecutorsHold`: the stage an executor is in decides whether its call
  holds its operation, in which phase and with which attempts. That makes every
  lifecycle call succeed (`ExecutorsAreNeverRefused`).
- `RoutesOwned`: a call owns the route of its id until it released it, and only the
  latest call of an id is not past that (`RoutesFollowOperations`).
- `MonitorsRelay`, `BackendsKnowCalls`: a ticket is answered with what the registry
  recorded, which is what the backend sent (`AnswersComeLast`).
- `AnsweredBeforeReuse`: a call leaves its backend without an answer only when its
  monitor was refused (`NothingIsAbandonedSilently`), so a later call of the id never
  meets an unanswered one. `CancelsAimed` rests on it: whoever is bound to cancel is bound to
  it for a call, quiesce and shutdown for the newest of its id (`HostCancelsAreAimed`);
  an unanswered call that was asked to stop is cancelled in its backend or is about to
  be (`CancelsReachTheBackend`).
- `ClosingStages`, `NothingComesBack`: what the coordinator has seen done stays done, so
  Ok is true when it is published (`ShutdownIsClean`).

`HostRunsRegistry`, `HostRunsBackends` and `HostRunsTasks` say that the host steps the
registry, the backends and its monitors' supervisor only as their specifications do. So
every registry theorem is true of the registry inside the host, the refinement of the
ledger included (`HostImplementsLedger`); and what `TaskSupervisor`, `ParakeetBackend`
and `ParakeetTranscription` are proved to implement is what the host is proved to use.

`HostIsTheService` (`ImplementsService`) is the whole of it: executors, monitors,
tickets, cancellers, quiesce, callers and coordinator, under their several locks, do
Accept, Promise, Decide, Free, Answer, Stop, Report or nothing that a client sees. A step
is sorted by what it changes of the client's view; the others leave it (`ViewStays`).
`Kept` gives the rest: `RoutesOwned` that Accept finds the id free and that Free comes
after Decide, `MonitorsRelay` and `BackendsKnowCalls` that the answer is the outcome, and
`ClosingStages` with `ShutdownIsClean` that Ok owes nobody anything. `Settled` is needed
besides: what has ended was decided, and a monitor that was joined had its answer, so
that no answer is taken back.

`NobodySleepsThrough` (`NoWakeupIsMissed`) needs `Listening` besides: a task has an
enabled future from before it reads the phase, the fault flag or the count, and what
changed since has woken it. The coordinator's case is the subtle one. An operation is
released in the registry, which notifies nobody; only the release of the route after it
does. So the coordinator may sleep with no operation left, but then an executor is at
`releasing` and notifies it (`ReleaseIsDue`).

`TaskSupervisorProofs` holds for any number of workers and waiters and any archive;
it assumes `SupervisorAssumption`, that the archive and the sequence bound are not
zero. Its invariant is `Sound`, in five parts. `StagesAgree` is the one the races
are about: how far the spawner, the worker and the reaper got decides which id sets
a worker is in, so a worker that ended before its handle was retained is still
reaped in an accountable state (`ReapedIsAccountable`). `CountsAgree` ties `active`
to the number of active ids, `ArchiveAgrees` keeps the archive free of repetitions
through its evictions, `DrainedStays` says what a waiter was told stays true.

- `SupervisorNeverFaults`: neither the entry check of `finish` nor the checks of
  `snapshot` (`SoundIsConsistent`) ever fail.
- `DrainedIsDone`: with no active id, `StagesAgree` leaves every admitted worker joined.
- `SummaryIsExact`: with no first failure nobody joined has failed, since the count
  is then zero; that is why the one recorded first is first.
- `SupervisorImplementsTasks`: `Admit`, `Finish` and `BeginShutdown` are the
  abstract steps; the rest is invisible, as a joined worker's outcome is settled.
- `WaitersMissNothing` (`NoWakeupIsMissed`): given `Sound`, only `Finish` can bring
  `active` to zero or set the fault flag, and it wakes every enabled future; by `WaitersListen` a waiter that
  has looked, or sleeps, has one.

`ParakeetBackendProofs` holds for any number of ids, operations and callers; it
assumes `NonceAssumption`, that the bound on nonces is a natural. Its invariant
`Kept` says that the map follows the leases, the supervisor the workers, and the
coordinator both, and that no answer differs from the result retained.

- `RetainedResultIsTrue`: the result is retained after the last live task was
  joined, and a worker that failed is among the failed when it is no longer live.
- `BackendKeepsProtocol`: an operation is under its id exactly while its lease is
  held, so admission, cancel, answer and release are those of `SpeechBackends`.
- `CallersMissNothing` (`NoWakeupIsMissed`): its `Listening` says the same of a caller at
  `Await`, which has read the phase but does not sleep yet; without that it is not
  inductive. A result that is published but not yet notified keeps the coordinator at
  `Notify`.

`StreamResamplingProofs` holds for every set of pairs of rates (`RateAssumption`: they
are positive), every model chunk, and streams of any length cut into any chunks
(`BoundAssumption`: the bounds are naturals). `StreamIsResampledWhole` has one hypothesis
that is no assumption of the module, `AtMostTwice`: no step is longer than two samples.
It is what the code needs: the rates of `resampling_cuts` satisfy it, and at 48 kHz,
where it fails, so does the property (`resampling_48k`). The invariant is `Aligned`.
After every push at most one sample is kept, and the position in it is the place of the
next output in the whole stream (`PositionIsGlobal`), which is the equation
`Len(output) * In = (received - Len(source)) * Out + position`; every output so far
reads the two samples it reads in the whole buffer (`OutputIsSettled`); and what
the model was given and what is pending make up the output, less than a model chunk of it
pending (`ModelIsFed`). A longer step may
leave the position beyond the samples there are, and the drain is then cut short
(`DrainIsWhole` is where the proof needs the hypothesis).

`BackendExtensionsProofs` needs `NonceAssumption` for the plugin.

- `PluginRunsBackend`: the plugin's steps are steps of the backend or leave it alone, so
  the backend's theorems hold below it (`PluginKeepsTheBackend`).
- `NoSinkIsLeftBehind`, `SinksAreLostOnlyToOverlap`: the invariant `Streams` says that a
  sink in the map belongs to a command that has not removed it, under that command's id
  (`SinksFollowCommands`), and that the operation the backend has under an id is the newest
  of that id (`HolderIsNewest`), so a command that removes another's sink is the older one.

`ParakeetTranscriptionProofs` holds for every number of pushers and chunks, every
chunk length, and all capacities; it assumes `CapacityAssumption`, that the event
channel has two slots (it has 64), and, for types and audio, that capacities, bounds and frame
counts are naturals (`AudioAssumption`, `ModelAssumption`, `InputAssumption`).

- `TerminalAlwaysFits`: a consumer that never reads cannot block the terminal
  event. That is not inductive: the strengthening `SlotReserved` says that a slot
  is free at every stage before the terminal event is sent, and that the channel is
  empty before Started.
- `CancelledModelStops`: at most two model runs end after a cancel. The
  strengthening `LateByStage` bounds the number stage by stage: none when a run
  that was checked is under way, one in the loop, two after the unchecked rest of
  a stream.
- `EventsTellTheAnswer`: `AnswerFollowsStage` says when the result is there and that the
  final response says it; `EventsFollowStage` that Started is first, a terminal event last
  and of the result's class, and sent unless nobody listens or the model panicked.
- `AcceptedIsHeard`: by `AudioIsKept`, until the transcription ends all audio that was sent
  (by pushes not yet returned, too) is heard, in the worker's hands, or in the channel. The
  worker takes the end of the channel for the end of the stream only when it is empty and
  no push holds a clone of the sender, and nothing can fill it after that.
- `TypeCorrect`, and `TranscriptionKeepsProtocol`: the whole is one operation of a
  `SpeechBackends`.

`CapabilityRoutingProofs` holds for every set of sources, reports, systems and
requests. It assumes that the Apple source is one of the sources and the host's id none
(`RoutingAssumption`), and for the last two theorems what the types say: ids are naturals,
voices come in a sequence and have one of five qualities (`IdAssumption`,
`OfferAssumption`, `SystemAssumption`), and a request carries no defect of
a part it does not have (`RequestAssumption`). That ids are blank or repeat is allowed.
`Routed` is inductive: every successful report passed its own check
(`ReportsChecked`), and a plan was made of the present snapshot, in which no report is missing
(`PlanIsCurrent`). The rest is about the operators, without induction.

- `LocalOnlyHolds`: what is selected is a capability of the snapshot that every
  gate let through (`SelectedIsAdmissible`, `LocalOnlyGates`); the evidence it was let
  through for is the source's own because the report was checked (`ReportValid`). On the
  host's snapshot nobody checked that, and the theorem does not say it; the rest is the
  router's and holds there, too.
- `SpoiledOnlyTogetherHolds`: within a report nothing clashes, so what clashes
  belongs to two. Of the host's snapshot it says nothing: two backends of the host that
  share an id are refused by the router alone.
- `PlansAreBest`: the router's lists of gates refuse a capability once (`RefusedOnce`), the
  order of candidates is total because ids are unique in a valid snapshot
  (`LeastSelectionIsOne`), and the request with the plan pinned into it has that plan among
  its candidates and, but for the rank where voices share an id, none that it had not
  before (`PinnedCandidates`), so planning again gives the same plan; with a blank id
  pinned it does not pass the checks of a request. That one voice is the first of its id
  rests on the order of the naturals (`LeastExists`, `FirstIsChosen`).
- `PlannedVoicesSpeak`: on Apple's own report a plan for its backend is one for the only
  capability that the probe describes (`NativePlan`); pinned, the request passes Apple's own
  checks but for pitch and rate (`AppleAccepts`), and the voice is found as the exact one or
  is gone (`ExactVoiceIsResolved`). The invariant `Described` says what reports, systems and
  requests are like.

For the Apple backend `BackendExtensionsProofs` holds for any number of calls, probes,
operations, callers and threads, for any sequences of buffers (`UtteranceAssumption` says
only that they are such), and any widths of the header's fields of at least 64
(`WidthAssumption`).

- `AppleRunsBackend`: around the native lock its steps are the backend's or none, so what
  is proved of `ParakeetBackend` holds here (`AppleKeepsTheBackend`: results are true, no
  caller of shutdown misses its wakeup, the host's protocol is kept).
- `NativeCallsAreExclusive`: by `Entitled`, whoever is inside holds the lock.
- `ShutdownLeavesQuiet`: by `Accounted`, a worker leaves its stages before its
  lease, its lease before the supervisor's live tasks; the coordinator publishes
  only when no task is live and admission is closed for good.
- `EncodedAudioStaysWhole`, from `EncodingKeepsEveryByte`: for every sequence of buffers
  that `encode_wav` accepts, in either layout, every byte of every sample is in the
  payload in its place, and the header agrees. This is an induction over data. It is done
  without the library's induction theorems, which take an operator as a parameter:
  `LeastNatural` (every set of naturals that is not empty has a least element, from the
  well-founded order of finite sets) gives the first index at which a statement about a
  recursive function would fail. By it the recursive functions exist (`FlattenExists`,
  `SumsExist`), sequences put together keep every item at the sum of the lengths before
  it (`FlattenedAt`), and the loop that looks for a buffer to refuse has looked at all
  (`NoneIsRefused`). Channels within a frame, frames within a buffer (`InterleavedAt`)
  and buffers within the payload (`BuffersInPlace`) are the same lemma three times.

## 6. What is only model-checked

- Above twice the model's rate `StreamedMatchesComplete` is no theorem, since the code
  does not keep it there (`resampling_48k`, section 4).
- Liveness under fairness (`ClosedWaitersReturn`, `ShutdownCompletes`, `CallersReturn`,
  `CancelledTicketsAreAnswered`, `RequestsAreAnswered`, `NobodyWaitsForever`): the prover
  does not cover it. Of the sleepers it is proved that they miss no wakeup.
- The `TypeOK` of modules other than the registry and the transcription, which no run
  needs; what the proofs need of them is in their invariants.

## 7. Not modelled

- *W1 contract projections* and the W1 application: formatting of facts the host
  already has, and a test program.
- *Native calls*: the Apple frameworks behind FFI are external; the table of adapter
  candidates per platform (`adapter_candidates`) is text.
- *The plugin's other commands* forward to the host and keep nothing.
- *Serialization and the parsing of identifiers, languages and samples*: data.
- *A poisoned mutex of the host*: no code under its locks panics short of an
  allocation that fails or a backend's `descriptor()` that panics.
- *A dropped `transcribe` future* (`lib.rs:295`): no built-in backend awaits in it; a
  custom backend may, and the host then faults itself.
- *The two locks of `release` and `snapshot`* (`operation_lifecycle.rs:262`) as separate
  steps. The argument that one step is enough: release fills the slot before it lets
  the registry go, and snapshot looks at the slot only after it let the registry go.
- *A ticket used without the host*: a ticket of the backend whose worker panicked
  cancels by id when it is dropped; the host holds its id as long as it holds that ticket.

## 8. What would come next

1. The plugin over the host instead of over the backend, with two backends.
2. The two locks of a released slot, implementing the registry's single step.
3. The liveness a client may rely on as part of `SpeechService` (an answer owed to a
   cancelled call is given), checked by TLC as the host's own liveness is now.

Proofs still to be written: the types of the supervisor, the host and the backends; and
the single step of a released slot from its two locks.
