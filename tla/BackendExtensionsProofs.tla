----------------------- MODULE BackendExtensionsProofs ----------------------
(***************************************************************************)
(* The two that work with the backend's protocol, for any number of ids,   *)
(* operations and callers.  The steps of each are steps of the backend, so *)
(* what is proved of the backend holds there, too.                         *)
(*                                                                         *)
(* The plugin leaves no sink behind, and takes a sink from a running       *)
(* stream only by a shutdown or an overlapping command of the same id.     *)
(*                                                                         *)
(* The Apple backend enters the native library by one thread at a time,    *)
(* and a shutdown that was answered left nobody on the way to it.  The     *)
(* first rests on the one lock (Entitled), the second on the order in      *)
(* which a worker gives up its stages, its lease and its place in the      *)
(* supervisor (Accounted).  What it encodes is whole, whatever the buffers *)
(* are: each sequence that is put together of others is followed from its  *)
(* start to its end (RunsTo), by the least natural number that would       *)
(* refute it (LeastNatural).                                               *)
(***************************************************************************)
EXTENDS PluginStreams, AppleRuntime, ParakeetBackendProofs, Integers, FiniteSetTheorems,
        WellFoundedInduction

(* The plugin.                                                             *)

(* A command carries the id of the operation it started, ...               *)
CommandsFollowNonces ==
  /\ DOMAIN command = Nonces /\ DOMAIN inputs = RequestIds
  /\ \A n \in Nonces : command[n] # "None" => n < next_nonce /\ request_of[n] \in RequestIds

(* ... a sink is in the map under its command's id, ...                    *)
SinksFollowCommands ==
  \A id \in RequestIds : inputs[id] # Free =>
    /\ inputs[id] \in Nonces
    /\ request_of[inputs[id]] = id
    /\ command[inputs[id]] \in {"Relays", "Removes"}

(* ... and the operation that has an id is the newest there was under it,  *)
(* because the backend refuses an id it holds.                             *)
HolderIsNewest ==
  \A n, m \in Nonces :
    /\ worker[n] \in Leased
    /\ m < next_nonce
    /\ request_of[m] = request_of[n]
    => m <= n

Streams == CommandsFollowNonces /\ SinksFollowCommands /\ HolderIsNewest

(* What a step of the backend alone must leave to the plugin: every step   *)
(* but a spawn does.                                                       *)
LEMMA BackendStepKeepsStreams ==
  ASSUME Streams, UNCHANGED pluginVars, UNCHANGED <<next_nonce, request_of>>,
         \A n \in Nonces : worker'[n] \in Leased => worker[n] \in Leased
  PROVE  Streams'
BY DEF Streams, CommandsFollowNonces, SinksFollowCommands, HolderIsNewest, pluginVars

LEMMA TranscribeKeepsStreams ==
  ASSUME Kept, Streams, NEW id \in RequestIds, TranscribeStream(id)
  PROVE  Streams'
<1> USE NonceAssumption, FreeIsNoNonce DEF Streams
<1>1. /\ next_nonce \in Nonces /\ next_nonce' = next_nonce + 1
      /\ command[next_nonce] = "None" /\ active[id] = Free
  BY DEF TranscribeStream, SpawnOperation, Admits, Kept, MapFollowsLeases, CommandsFollowNonces,
         Nonces
<1>2. /\ \A n \in Nonces \ {next_nonce} :
           request_of'[n] = request_of[n] /\ worker'[n] = worker[n] /\ command'[n] = command[n]
      /\ request_of'[next_nonce] = id /\ inputs' = inputs
      /\ DOMAIN command' = DOMAIN command
  BY <1>1 DEF TranscribeStream, SpawnOperation, Kept, MapFollowsLeases, CommandsFollowNonces
<1>3. CommandsFollowNonces'
  BY <1>1, <1>2 DEF CommandsFollowNonces, Nonces
<1>4. SinksFollowCommands'
  BY <1>1, <1>2 DEF SinksFollowCommands
<1>5. HolderIsNewest'
  <2>1. ASSUME NEW n \in Nonces, NEW m \in Nonces, worker'[n] \in Leased, m < next_nonce',
               request_of'[m] = request_of'[n]
        PROVE  m <= n
    <3>1. CASE n = next_nonce
      BY <1>1, <2>1, <3>1 DEF Nonces
    <3>2. CASE n # next_nonce
      <4>1. worker[n] \in Leased /\ request_of'[n] = request_of[n]
        BY <1>2, <2>1, <3>2
      <4>2. m # next_nonce
        BY <1>1, <1>2, <2>1, <4>1 DEF Kept, MapFollowsLeases
      <4> QED BY <1>1, <1>2, <2>1, <4>1, <4>2 DEF HolderIsNewest, Nonces
    <3> QED BY <3>1, <3>2
  <2> QED BY <2>1 DEF HolderIsNewest
<1> QED BY <1>3, <1>4, <1>5

LEMMA CommandsKeepStreams ==
  ASSUME Kept, Streams, NEW n \in Nonces, CommandStep(n)
  PROVE  Streams'
<1> USE FreeIsNoNonce DEF Streams
<1>1. UNCHANGED <<next_nonce, request_of, worker>>
  BY DEF CommandStep, EnterSink, StopsRelaying, RemoveSink, ReturnFinal, ReturnChannelError,
         Cancel, vars, operationVars
<1>2. /\ command[n] # "None" /\ n < next_nonce /\ request_of[n] \in RequestIds
      /\ \A m \in Nonces \ {n} : command'[m] = command[m]
      /\ DOMAIN command' = DOMAIN command /\ DOMAIN inputs' = DOMAIN inputs
  BY DEF CommandStep, EnterSink, StopsRelaying, RemoveSink, ReturnFinal, ReturnChannelError,
         CommandsFollowNonces
<1>3. CommandsFollowNonces' /\ HolderIsNewest'
  BY <1>1, <1>2 DEF CommandsFollowNonces, HolderIsNewest
<1>4. SinksFollowCommands'
  <2>1. CASE EnterSink(n)
    <3>1. command[n] = "Opened" /\ command'[n] = "Relays"
      BY <2>1 DEF EnterSink, CommandsFollowNonces
    <3>2. \A id \in RequestIds :
            inputs'[id] = inputs[id] \/ (inputs'[id] = n /\ id = request_of[n])
      BY <2>1 DEF EnterSink, CommandsFollowNonces
    <3> QED BY <1>1, <1>2, <3>1, <3>2 DEF SinksFollowCommands
  <2>2. CASE StopsRelaying(n)
    <3>1. command'[n] = "Removes" /\ inputs' = inputs
      BY <2>2 DEF StopsRelaying, CommandsFollowNonces
    <3> QED BY <1>1, <1>2, <3>1 DEF SinksFollowCommands
  <2>3. CASE RemoveSink(n)
    <3>1. /\ inputs'[request_of[n]] = Free
          /\ \A id \in RequestIds \ {request_of[n]} : inputs'[id] = inputs[id]
      BY <1>2, <2>3 DEF RemoveSink, CommandsFollowNonces
    <3> QED BY <1>1, <1>2, <3>1 DEF SinksFollowCommands
  <2>4. CASE ReturnFinal(n) \/ ReturnChannelError(n)
    <3>1. command[n] = "Returns" /\ inputs' = inputs
      BY <2>4 DEF ReturnFinal, ReturnChannelError
    <3> QED BY <1>1, <1>2, <3>1 DEF SinksFollowCommands
  <2> QED BY <2>1, <2>2, <2>3, <2>4 DEF CommandStep
<1> QED BY <1>3, <1>4

(* Every step of the plugin is a step of the backend, or none.             *)
LEMMA PluginStepsBackend ==
  ASSUME Streams, PluginNext
  PROVE  [Next]_vars
<1> USE DEF Next
<1>1. ASSUME NEW id \in RequestIds,
             TranscribeStream(id) \/ FinishInput(id) \/ (Cancel(id) /\ UNCHANGED pluginVars)
      PROVE  [Next]_vars
  BY <1>1 DEF TranscribeStream, FinishInput
<1>2. ASSUME NEW n \in Nonces, CommandStep(n) PROVE [Next]_vars
  <2>1. CASE ReturnChannelError(n)
    <3>1. request_of[n] \in RequestIds
      BY <2>1 DEF ReturnChannelError, Streams, CommandsFollowNonces
    <3> QED BY <2>1, <3>1 DEF ReturnChannelError
  <2>2. CASE ~ReturnChannelError(n)
    BY <1>2, <2>2 DEF CommandStep, EnterSink, StopsRelaying, RemoveSink, ReturnFinal
  <2> QED BY <2>1, <2>2
<1>3. ASSUME NEW n \in Nonces, WorkerEnds(n) \/ WorkerLeaves(n) PROVE [Next]_vars
  BY <1>3
<1>4. ASSUME NEW c \in Callers,
             \/ ClearInputs(c) \/ PluginShutdown(c)
             \/ (CallerProgress(c) \/ CallerAborts(c)) /\ UNCHANGED pluginVars
      PROVE  [Next]_vars
  BY <1>4 DEF ClearInputs, PluginShutdown
<1> QED BY <1>1, <1>2, <1>3, <1>4 DEF PluginNext

LEMMA PluginStepKeepsStreams ==
  ASSUME Kept, Streams, [PluginNext]_allPluginVars
  PROVE  Streams'
<1>1. ASSUME NEW id \in RequestIds, TranscribeStream(id) PROVE Streams'
  BY <1>1, TranscribeKeepsStreams
<1>2. ASSUME NEW n \in Nonces, CommandStep(n) PROVE Streams'
  BY <1>2, CommandsKeepStreams
<1>3. ASSUME NEW id \in RequestIds, FinishInput(id) \/ (Cancel(id) /\ UNCHANGED pluginVars)
      PROVE  Streams'
  BY <1>3, BackendStepKeepsStreams DEF FinishInput, Cancel, vars, operationVars
<1>4. ASSUME NEW n \in Nonces, WorkerEnds(n) \/ WorkerLeaves(n), UNCHANGED pluginVars
      PROVE  Streams'
  <2>1. UNCHANGED <<next_nonce, request_of>>
    BY <1>4 DEF WorkerEnds, WorkerLeaves, LeaseDrops, Join, operationVars
  <2>2. \A m \in Nonces : worker'[m] \in Leased => worker[m] \in Leased
    BY <1>4 DEF WorkerEnds, WorkerLeaves, LeaseDrops, Join, operationVars, Leased, Kept,
       MapFollowsLeases
  <2> QED BY <1>4, <2>1, <2>2, BackendStepKeepsStreams
<1>5. ASSUME NEW c \in Callers, ClearInputs(c) PROVE Streams'
  BY <1>5 DEF ClearInputs, vars, operationVars, Streams, CommandsFollowNonces,
     SinksFollowCommands, HolderIsNewest
<1>6. ASSUME NEW c \in Callers, PluginShutdown(c) PROVE Streams'
  BY <1>6 DEF PluginShutdown, CallShutdown, FollowShutdown, operationVars, Streams,
     CommandsFollowNonces, SinksFollowCommands, HolderIsNewest
<1>7. ASSUME NEW c \in Callers, CallerProgress(c) \/ CallerAborts(c), UNCHANGED pluginVars
      PROVE  Streams'
  BY <1>7, BackendStepKeepsStreams DEF CallerProgress, CallerEnables, CallerChecks,
     CallerAwaits, CallerWakes, CallerAborts, operationVars
<1>8. CASE CoordinatorStep /\ UNCHANGED pluginVars
  BY <1>8, BackendStepKeepsStreams DEF CoordinatorStep, CloseTasks, Drained, Publish,
     PublishNotifies, operationVars
<1>9. CASE UNCHANGED allPluginVars
  BY <1>9, BackendStepKeepsStreams DEF allPluginVars, vars, operationVars
<1> QED BY <1>1, <1>2, <1>3, <1>4, <1>5, <1>6, <1>7, <1>8, <1>9 DEF PluginNext

LEMMA StreamsInvariant == PluginSpec => [](Kept /\ Streams)
<1>1. PluginInit => Kept /\ Streams
  BY KeptInitially, NonceAssumption DEF PluginInit, Init, Streams, CommandsFollowNonces, SinksFollowCommands,
     HolderIsNewest, Leased
<1>2. Kept /\ Streams /\ [PluginNext]_allPluginVars => (Kept /\ Streams)'
  BY PluginStepKeepsStreams, PluginStepsBackend, NextKeeps DEF allPluginVars
<1> QED BY <1>1, <1>2, PTL DEF PluginSpec
-----------------------------------------------------------------------------
(* Under the plugin the backend is still the backend ...                   *)
THEOREM PluginRunsBackend == PluginSpec => Spec
<1>1. PluginInit => Init
  BY DEF PluginInit
<1>2. Streams /\ [PluginNext]_allPluginVars => [Next]_vars
  BY PluginStepsBackend DEF allPluginVars
<1> QED BY <1>1, <1>2, StreamsInvariant, PTL DEF PluginSpec, Spec

(* ... and its theorems carry over: what a shutdown of the plugin returns  *)
(* is true, nobody sleeps through it, and the host's protocol is kept.     *)
THEOREM PluginKeepsTheBackend ==
  PluginSpec => []ResultIsTrue /\ []NoWakeupIsMissed /\ ImplementsBackend
BY PluginRunsBackend, RetainedResultIsTrue, CallersMissNothing, BackendKeepsProtocol

(* However a command ends, whatever replaced or removed its sink, and      *)
(* whoever shuts the plugin down: no sink of a command that is gone stays  *)
(* in the map (speech_transcribe_stream, shutdown_plugin).                 *)
THEOREM NoSinkIsLeftBehind == PluginSpec => []NoSinkOutlivesItsCommand
<1>1. Streams => NoSinkOutlivesItsCommand
  BY DEF Streams, SinksFollowCommands, NoSinkOutlivesItsCommand
<1> QED BY <1>1, StreamsInvariant, PTL

(* A running stream keeps its sink against pushes, finishes and newer      *)
(* streams; the map is keyed by id, so an older command of the id that is  *)
(* still there may take it, and nothing else but a shutdown.               *)
THEOREM SinksAreLostOnlyToOverlap == PluginSpec => SinkIsLostOnlyToOverlap
<1> DEFINE Lost(id) ==
      LET n == inputs[id] IN
      n # Free /\ worker[n] = "Working" /\ inputs'[id] # n =>
        \/ clearing \subseteq clearing' /\ clearing' # clearing
        \/ \E m \in 0..n : request_of[m] = id /\ command'[m] # command[m]
<1>1. ASSUME Kept, Streams, PluginNext, NEW id \in RequestIds PROVE Lost(id)
  <2> SUFFICES ASSUME inputs[id] # Free, worker[inputs[id]] = "Working", inputs'[id] # inputs[id]
               PROVE  \/ clearing \subseteq clearing' /\ clearing' # clearing
                      \/ \E m \in 0..inputs[id] : request_of[m] = id /\ command'[m] # command[m]
    OBVIOUS
  <2>1. inputs[id] \in Nonces /\ request_of[inputs[id]] = id
    BY <1>1 DEF Streams, SinksFollowCommands
  <2>2. ASSUME NEW m \in Nonces, command[m] # "None", request_of[m] = id, command'[m] # command[m]
        PROVE  m \in 0..inputs[id] /\ request_of[m] = id /\ command'[m] # command[m]
    <3>1. m < next_nonce /\ worker[inputs[id]] \in Leased
      BY <1>1, <2>2 DEF Streams, CommandsFollowNonces, Leased
    <3>2. m <= inputs[id]
      BY <1>1, <2>1, <2>2, <3>1 DEF Streams, HolderIsNewest
    <3> QED BY <2>1, <2>2, <3>2 DEF Nonces
  <2>3. ASSUME NEW m \in Nonces, EnterSink(m) \/ RemoveSink(m)
        PROVE  command[m] # "None" /\ request_of[m] = id /\ command'[m] # command[m]
    BY <1>1, <2>3 DEF EnterSink, RemoveSink, Streams, CommandsFollowNonces
  <2>4. ASSUME NEW c \in Callers, ClearInputs(c)
        PROVE  clearing \subseteq clearing' /\ clearing' # clearing
    BY <2>4 DEF ClearInputs
  <2>5. \/ \E m \in Nonces : EnterSink(m) \/ RemoveSink(m)
        \/ \E c \in Callers : ClearInputs(c)
    BY <1>1 DEF PluginNext, TranscribeStream, FinishInput, CommandStep, StopsRelaying,
       ReturnFinal, ReturnChannelError, PluginShutdown, pluginVars
  <2> QED BY <2>2, <2>3, <2>4, <2>5
<1>2. Kept /\ Streams /\ [PluginNext]_allPluginVars => [\A id \in RequestIds : Lost(id)]_allPluginVars
  BY <1>1
<1> QED BY <1>2, StreamsInvariant, PTL DEF PluginSpec, SinkIsLostOnlyToOverlap
-----------------------------------------------------------------------------
(* The audio of a synthesis.                                               *)

(* Induction: where something is wrong, it is first wrong somewhere.       *)
LEMMA LeastNatural ==
  ASSUME NEW S, S \subseteq Nat, S # {}
  PROVE  \E n \in S : \A m \in S : n <= m
<1> DEFINE Upto(n) == 1 .. n
           Uptos == {Upto(n) : n \in S}
<1>1. Uptos \subseteq FiniteSubsetsOf(Nat) /\ Uptos # {}
  <2>1. ASSUME NEW n \in S PROVE Upto(n) \in FiniteSubsetsOf(Nat)
    <3>1. n \in Nat /\ IsFiniteSet(1 .. n)
      <4>1. n \in Int /\ n \in Nat /\ 1 \in Int
        OBVIOUS
      <4> QED BY <4>1, FS_Interval
    <3>2. Upto(n) \in SUBSET Nat
      BY <3>1
    <3> QED BY <3>1, <3>2 DEF FiniteSubsetsOf
  <2> QED BY <2>1
<1>2. PICK U \in Uptos : \A V \in Uptos : ~ (<<V, U>> \in StrictSubsetOrdering(Nat))
  <2> HIDE DEF Uptos
  <2> QED BY <1>1, FS_StrictSubsetOrderingWellFounded, WFMin
<1>3. PICK n \in S : U = Upto(n)
  OBVIOUS
<1>4. ASSUME NEW m \in S, m < n PROVE FALSE
  <2>1. n \in Upto(n) /\ n \notin Upto(m) /\ Upto(m) \subseteq Upto(n)
    BY <1>4
  <2>2. Upto(m) \in SUBSET Nat /\ Upto(n) \in SUBSET Nat /\ Upto(m) \in Uptos
    OBVIOUS
  <2> HIDE DEF Upto, Uptos
  <2>3. <<Upto(m), Upto(n)>> \in StrictSubsetOrdering(Nat)
    BY <2>1, <2>2 DEF StrictSubsetOrdering
  <2> QED BY <1>2, <1>3, <2>2, <2>3
<1> QED BY <1>4

(* The recursion that FlattenSeq is made of, for the first n sequences.    *)
Flattens(g, s, n) == g = [i \in 1 .. n |-> IF i = 1 THEN s[i] ELSE g[i - 1] \o s[i]]

LEMMA FlattenExists ==
  ASSUME NEW s, NEW n \in Nat \ {0}
  PROVE  \E g : Flattens(g, s, n)
<1> DEFINE Bad == {m \in Nat \ {0} : ~ \E g : Flattens(g, s, m)}
<1>1. SUFFICES ASSUME Bad # {} PROVE FALSE
  OBVIOUS
<1>2. PICK m \in Bad : \A k \in Bad : m <= k
  BY <1>1, LeastNatural
<1>3. CASE m = 1
  <2> DEFINE h == [i \in 1 .. 1 |-> s[i]]
  <2>1. Flattens(h, s, 1)
    BY DEF Flattens
  <2> QED BY <1>3, <2>1
<1>4. CASE m # 1
  <2>1. m - 1 \in Nat \ {0} /\ m \in Nat /\ m - 1 \notin Bad
    BY <1>2, <1>4
  <2>2. PICK g : Flattens(g, s, m - 1)
    BY <2>1
  <2> DEFINE h == [i \in 1 .. m |-> IF i = m THEN g[m - 1] \o s[m] ELSE g[i]]
  <2>3. ASSUME NEW i \in 1 .. m PROVE h[i] = IF i = 1 THEN s[i] ELSE h[i - 1] \o s[i]
    <3>1. CASE i = m
      <4>1. m \in 1 .. m /\ m - 1 \in 1 .. m /\ m - 1 # m
        BY <2>1
      <4>2. h[m] = g[m - 1] \o s[m] /\ h[m - 1] = g[m - 1]
        BY <4>1
      <4> HIDE DEF h
      <4> QED BY <1>4, <3>1, <4>2
    <3>2. CASE i # m
      <4>1. i \in 1 .. (m - 1)
        BY <2>1, <3>2
      <4>2. g[i] = IF i = 1 THEN s[i] ELSE g[i - 1] \o s[i]
        BY <2>2, <4>1 DEF Flattens
      <4>3. i # 1 => i - 1 \in 1 .. m /\ i - 1 # m
        BY <2>1, <4>1
      <4> QED BY <3>2, <4>2, <4>3
    <3> QED BY <3>1, <3>2
  <2>4. Flattens(h, s, m)
    <3> HIDE DEF h
    <3>1. h = [i \in 1 .. m |-> h[i]]
      BY DEF h
    <3> QED BY <2>3, <3>1 DEF Flattens
  <2> QED BY <2>4
<1> QED BY <1>3, <1>4

LEMMA FlattenRuns ==
  ASSUME NEW s, Len(s) \in Nat \ {0}
  PROVE  \E g : Flattens(g, s, Len(s)) /\ FlattenSeq(s) = g[Len(s)]
<1> DEFINE f == CHOOSE h : h = [i \in 1 .. Len(s) |-> IF i = 1 THEN s[i] ELSE h[i - 1] \o s[i]]
<1>1. f = [i \in 1 .. Len(s) |-> IF i = 1 THEN s[i] ELSE f[i - 1] \o s[i]]
  BY FlattenExists DEF Flattens
<1>2. FlattenSeq(s) = f[Len(s)]
  BY DEF FlattenSeq
<1> HIDE DEF f
<1> QED BY <1>1, <1>2 DEF Flattens

(* Where each of the sequences starts, and the last one ends.              *)
Offsets(off, s, n) ==
  /\ off \in [0 .. n -> Nat] /\ off[0] = 0
  /\ \A i \in 1 .. n : off[i] = off[i - 1] + Len(s[i])

(* A run that has all of the first m sequences, each at its offset.        *)
RunsTo(run, s, off, m) ==
  /\ Len(run) = off[m]
  /\ \A i \in 0 .. m : off[i] <= off[m]
  /\ \A i \in 1 .. m, j \in Nat : j \in 1 .. Len(s[i]) => run[off[i - 1] + j] = s[i][j]

LEMMA ConcatAt ==
  ASSUME NEW E, NEW a \in Seq(E), NEW b \in Seq(E)
  PROVE  /\ a \o b \in Seq(E) /\ Len(a \o b) = Len(a) + Len(b)
         /\ \A x \in 1 .. Len(a) : (a \o b)[x] = a[x]
         /\ \A x \in 1 .. Len(b) : (a \o b)[Len(a) + x] = b[x]
OBVIOUS

LEMMA WithinTheRun ==
  ASSUME NEW a \in Nat, NEW l \in Nat, NEW j \in 1 .. l, NEW b \in Nat, a + l <= b
  PROVE  a + j \in 1 .. b
OBVIOUS

LEMMA RunExtends ==
  ASSUME NEW E, NEW n \in Nat, NEW s \in [1 .. n -> Seq(E)], NEW off, Offsets(off, s, n),
         NEW m \in 1 .. (n - 1), NEW run \in Seq(E), RunsTo(run, s, off, m)
  PROVE  run \o s[m + 1] \in Seq(E) /\ RunsTo(run \o s[m + 1], s, off, m + 1)
<1> DEFINE longer == run \o s[m + 1]
<1>1. /\ m + 1 \in 1 .. n /\ s[m + 1] \in Seq(E) /\ Len(run) = off[m] /\ off[m] \in Nat
      /\ m \in 0 .. n /\ off[m + 1] = off[m] + Len(s[m + 1]) /\ Len(s[m + 1]) \in Nat
  <2>1. m + 1 \in 1 .. n /\ m \in 0 .. n
    OBVIOUS
  <2>2. s[m + 1] \in Seq(E) /\ Len(s[m + 1]) \in Nat
    BY <2>1
  <2>3. off[m + 1] = off[(m + 1) - 1] + Len(s[m + 1]) /\ (m + 1) - 1 = m
    BY <2>1 DEF Offsets
  <2> QED BY <2>1, <2>2, <2>3 DEF Offsets, RunsTo
<1>2. /\ longer \in Seq(E) /\ Len(longer) = off[m + 1]
      /\ \A x \in 1 .. off[m] : longer[x] = run[x]
      /\ \A x \in 1 .. Len(s[m + 1]) : longer[off[m] + x] = s[m + 1][x]
  <2> DEFINE next == s[m + 1]
  <2>1. next \in Seq(E)
    BY <1>1
  <2> HIDE DEF next
  <2>2. /\ run \o next \in Seq(E) /\ Len(run \o next) = Len(run) + Len(next)
        /\ \A x \in 1 .. Len(run) : (run \o next)[x] = run[x]
        /\ \A x \in 1 .. Len(next) : (run \o next)[Len(run) + x] = next[x]
    BY <2>1, ConcatAt
  <2>3. longer = run \o next
    BY DEF next
  <2> HIDE DEF longer
  <2> QED BY <1>1, <2>2, <2>3 DEF next
<1> HIDE DEF longer
<1>3. ASSUME NEW i \in 0 .. (m + 1) PROVE off[i] <= off[m + 1]
  <2>1. CASE i = m + 1
    BY <1>1, <2>1
  <2>2. CASE i # m + 1
    <3>1. i \in 0 .. m /\ off[i] \in Nat
      BY <2>2 DEF Offsets
    <3>2. off[i] <= off[m]
      BY <3>1 DEF RunsTo
    <3> QED BY <1>1, <3>1, <3>2
  <2> QED BY <2>1, <2>2
<1>4. ASSUME NEW i \in 1 .. (m + 1), NEW j \in Nat, j \in 1 .. Len(s[i])
      PROVE  longer[off[i - 1] + j] = s[i][j]
  <2>1. CASE i = m + 1
    <3>1. i - 1 = m
      BY <2>1
    <3> QED BY <1>2, <1>4, <2>1, <3>1
  <2>2. CASE i # m + 1
    <3>1. i \in 1 .. m /\ i \in 1 .. n /\ i - 1 \in 0 .. n /\ i \in 0 .. m /\ i \in 0 .. n
      BY <2>2
    <3>2. run[off[i - 1] + j] = s[i][j]
      BY <1>4, <3>1 DEF RunsTo
    <3>3. off[i] = off[i - 1] + Len(s[i]) /\ off[i - 1] \in Nat /\ off[i] \in Nat
      BY <3>1 DEF Offsets
    <3>4. off[i] <= off[m]
      BY <3>1 DEF RunsTo
    <3>5. off[i - 1] + j \in 1 .. off[m]
      <4>1. Len(s[i]) \in Nat
        BY <3>1
      <4>2. off[m] \in Nat /\ off[i - 1] + Len(s[i]) <= off[m]
        BY <1>1, <3>3, <3>4
      <4> QED BY <1>4, <3>3, <4>1, <4>2, WithinTheRun
    <3> QED BY <1>2, <3>2, <3>5
  <2> QED BY <2>1, <2>2
<1> QED BY <1>2, <1>3, <1>4 DEF RunsTo, longer

(* FlattenSeq keeps every item of every sequence, in its place.            *)
LEMMA FlattenedAt ==
  ASSUME NEW E, NEW n \in Nat, NEW s \in [1 .. n -> Seq(E)], NEW off, Offsets(off, s, n)
  PROVE  FlattenSeq(s) \in Seq(E) /\ RunsTo(FlattenSeq(s), s, off, n)
<1>1. s \in Seq(Seq(E)) /\ Len(s) = n
  OBVIOUS
<1>2. CASE n = 0
  <2>1. FlattenSeq(s) = << >>
    BY <1>1, <1>2 DEF FlattenSeq
  <2> QED BY <1>2, <2>1 DEF RunsTo, Offsets
<1>3. CASE n # 0
  <2>1. PICK g : Flattens(g, s, n) /\ FlattenSeq(s) = g[n]
    BY <1>1, <1>3, FlattenRuns
  <2> DEFINE Good(m) == g[m] \in Seq(E) /\ RunsTo(g[m], s, off, m)
             Bad == {m \in Nat : m \in 1 .. n /\ ~Good(m)}
  <2>2. SUFFICES ASSUME Bad # {} PROVE FALSE
    <3>1. Bad = {} => Good(n)
      <4> HIDE DEF Good
      <4>1. n \in Nat /\ n \in 1 .. n
        BY <1>3
      <4> QED BY <4>1
    <3> QED BY <2>1, <3>1
  <2>3. PICK m \in Bad : \A k \in Bad : m <= k
    <3> HIDE DEF Good
    <3> QED BY <2>2, LeastNatural
  <2> HIDE DEF Good
  <2>4. CASE m = 1
    <3>1. 1 \in 1 .. n /\ g[1] = s[1] /\ s[1] \in Seq(E)
      BY <1>3, <2>1 DEF Flattens
    <3>2. off[1] = off[1 - 1] + Len(s[1]) /\ off[0] = 0 /\ 1 - 1 = 0 /\ off[1] \in Nat
      BY <3>1 DEF Offsets
    <3>3. off[1] = Len(s[1]) /\ Len(s[1]) \in Nat
      BY <3>1, <3>2
    <3>4. RunsTo(s[1], s, off, 1)
      <4>1. ASSUME NEW i \in 0 .. 1 PROVE off[i] <= off[1]
        <5>1. i = 0 \/ i = 1
          OBVIOUS
        <5> QED BY <3>2, <5>1
      <4>2. ASSUME NEW i \in 1 .. 1, NEW j \in Nat, j \in 1 .. Len(s[i])
            PROVE  s[1][off[i - 1] + j] = s[i][j]
        <5>1. i = 1 /\ i - 1 = 0 /\ off[0] + j = j
          BY <3>2
        <5> QED BY <5>1
      <4> QED BY <3>3, <4>1, <4>2 DEF RunsTo
    <3> QED BY <2>3, <2>4, <3>1, <3>4 DEF Good
  <2>5. CASE m # 1
    <3>1. PICK k \in 1 .. (n - 1) : m = k + 1
      BY <2>3, <2>5
    <3>2. Good(k)
      <4>1. k \in Nat /\ k \in 1 .. n /\ ~(m <= k)
        BY <3>1
      <4> QED BY <2>3, <4>1
    <3>3. g[k + 1] = g[k] \o s[k + 1]
      <4>1. k + 1 \in 1 .. n /\ k + 1 # 1 /\ (k + 1) - 1 = k
        BY <3>1
      <4> QED BY <2>1, <4>1 DEF Flattens
    <3>4. g[k] \o s[k + 1] \in Seq(E) /\ RunsTo(g[k] \o s[k + 1], s, off, k + 1)
      BY <3>2, RunExtends DEF Good
    <3> QED BY <2>3, <3>1, <3>3, <3>4 DEF Good
  <2> QED BY <2>4, <2>5
<1> QED BY <1>2, <1>3

LEMMA SubSeqAt ==
  ASSUME NEW E, NEW s \in Seq(E), NEW a \in Nat, NEW b \in Nat, b <= Len(s), a <= b
  PROVE  /\ SubSeq(s, a + 1, b) \in Seq(E) /\ Len(SubSeq(s, a + 1, b)) = b - a
         /\ \A x \in 1 .. (b - a) : SubSeq(s, a + 1, b)[x] = s[a + x]
OBVIOUS

LEMMA ProductsGrow ==
  ASSUME NEW a \in Nat, NEW b \in Nat, NEW c \in Nat, a <= b
  PROVE  a * c \in Nat /\ b * c \in Nat /\ a * c <= b * c
OBVIOUS

LEMMA NextProduct ==
  ASSUME NEW i \in Nat, NEW l \in Nat
  PROVE  i * l \in Nat /\ (i + 1) * l = i * l + l /\ 0 * l = 0
OBVIOUS

(* The place of item j of group i, when groups have l items.               *)
LEMMA PlaceOf ==
  ASSUME NEW n \in Nat, NEW l \in Nat, NEW i \in 1 .. n, NEW j \in 1 .. l
  PROVE  (i - 1) * l + j \in 1 .. (n * l)
<1>1. PICK h \in Nat : i = h + 1 /\ i - 1 = h
  OBVIOUS
<1>2. h * l \in Nat /\ (h + 1) * l = h * l + l
  BY NextProduct
<1>3. (h + 1) * l <= n * l /\ n * l \in Nat
  BY <1>1, ProductsGrow
<1> QED BY <1>1, <1>2, <1>3

(* n sequences over E, each of length l.                                   *)
EvenRuns(E, s, n, l) ==
  /\ n \in Nat /\ l \in Nat /\ s \in [1 .. n -> Seq(E)]
  /\ \A i \in 1 .. n : Len(s[i]) = l

(* Of sequences of one length, the place can be computed.                  *)
LEMMA FlattenedEvenly ==
  ASSUME NEW E, NEW n, NEW l, NEW s, EvenRuns(E, s, n, l)
  PROVE  /\ FlattenSeq(s) \in Seq(E) /\ Len(FlattenSeq(s)) = n * l
         /\ \A i \in 1 .. n, j \in 1 .. l : FlattenSeq(s)[(i - 1) * l + j] = s[i][j]
<1> USE DEF EvenRuns
<1> DEFINE off == [i \in 0 .. n |-> i * l]
<1>1. ASSUME NEW i \in 1 .. n PROVE off[i] = off[i - 1] + Len(s[i])
  <2>1. PICK h \in Nat : i = h + 1 /\ i - 1 = h /\ h \in 0 .. n /\ i \in 0 .. n
    OBVIOUS
  <2>2. off[i] = (h + 1) * l /\ off[i - 1] = h * l
    BY <2>1
  <2> HIDE DEF off
  <2> QED BY <2>1, <2>2, NextProduct
<1>2. off \in [0 .. n -> Nat] /\ off[0] = 0 /\ off[n] = n * l
  BY NextProduct
<1>3. \A i \in 1 .. n : off[i - 1] = (i - 1) * l
  OBVIOUS
<1> HIDE DEF off
<1>4. Offsets(off, s, n)
  BY <1>1, <1>2 DEF Offsets
<1>5. FlattenSeq(s) \in Seq(E) /\ RunsTo(FlattenSeq(s), s, off, n)
  BY <1>4, FlattenedAt
<1>6. ASSUME NEW i \in 1 .. n, NEW j \in 1 .. l PROVE FlattenSeq(s)[(i - 1) * l + j] = s[i][j]
  <2>1. j \in Nat /\ j \in 1 .. Len(s[i])
    OBVIOUS
  <2>2. FlattenSeq(s)[off[i - 1] + j] = s[i][j]
    BY <1>5, <2>1 DEF RunsTo
  <2>3. off[i - 1] = (i - 1) * l
    BY <1>3
  <2> QED BY <2>2, <2>3
<1> QED BY <1>2, <1>5, <1>6 DEF RunsTo

LEMMA SampleOf ==
  ASSUME NEW E, NEW plane \in Seq(E), NEW w \in Nat, NEW n \in Nat, w * n <= Len(plane),
         NEW f \in 1 .. n
  PROVE  LET sample == SubSeq(plane, (f - 1) * w + 1, f * w) IN
         /\ sample \in Seq(E) /\ Len(sample) = w
         /\ \A k \in 1 .. w : sample[k] = plane[(f - 1) * w + k]
<1>1. PICK h \in Nat : f = h + 1 /\ f - 1 = h
  OBVIOUS
<1>2. h * w \in Nat /\ f * w = h * w + w
  BY <1>1, NextProduct
<1>3. f * w <= n * w /\ n * w = w * n /\ f * w \in Nat
  BY ProductsGrow
<1>4. f * w <= Len(plane) /\ h * w <= f * w /\ f * w - h * w = w
  BY <1>2, <1>3
<1> QED BY <1>1, <1>2, <1>3, <1>4, SubSeqAt

LEMMA SamplePlaces ==
  ASSUME NEW f \in Nat, NEW c \in Nat, NEW k \in Nat, NEW channels \in Nat, NEW w \in Nat
  PROVE  f * (channels * w) + (c * w + k) = (f * channels + c) * w + k
OBVIOUS

(* One buffer.                                                             *)
Supported(buffer) ==
  buffer \in Buffers /\ buffer.format \in DOMAIN SampleFormat /\ HoldsItsFrames(buffer)

(* The bytes of a buffer's samples, in place.                              *)
HasSamples(bytes, buffer) ==
  LET w == Width(buffer) IN
  /\ bytes \in Seq(Bytes) /\ Len(bytes) = buffer.frames * (buffer.channels * w)
  /\ \A f \in 1 .. buffer.frames, c \in 1 .. buffer.channels, k \in 1 .. w :
       bytes[(f - 1) * (buffer.channels * w) + ((c - 1) * w + k)] = SampleByte(buffer, f, c, k)

LEMMA WidthsArePositive ==
  ASSUME NEW buffer, buffer.format \in DOMAIN SampleFormat
  PROVE  Width(buffer) \in Nat \ {0} /\ (8 * Width(buffer)) \div 8 = Width(buffer)
BY DEF Width, SampleFormat

(* One frame of a buffer that has a plane for each channel.                *)
LEMMA PlanarFrame ==
  ASSUME NEW buffer, Supported(buffer), ~buffer.interleaved, NEW f \in 1 .. buffer.frames
  PROVE  LET w == Width(buffer)
             frame == FlattenSeq([c \in 1 .. buffer.channels |->
                                    SubSeq(buffer.planes[c], (f - 1) * w + 1, f * w)])
         IN  /\ frame \in Seq(Bytes) /\ Len(frame) = buffer.channels * w
             /\ \A c \in 1 .. buffer.channels, k \in 1 .. w :
                  frame[(c - 1) * w + k] = buffer.planes[c][(f - 1) * w + k]
<1> DEFINE w == Width(buffer)
           channels == buffer.channels
           s == [c \in 1 .. channels |-> SubSeq(buffer.planes[c], (f - 1) * w + 1, f * w)]
<1>1. w \in Nat /\ channels \in Nat /\ buffer.frames \in Nat
  BY WidthsArePositive DEF Supported, Buffers
<1>2. ASSUME NEW c \in 1 .. channels
      PROVE  buffer.planes[c] \in Seq(Bytes) /\ w * buffer.frames <= Len(buffer.planes[c])
  BY <1>2 DEF Supported, Buffers, HoldsItsFrames
<1> HIDE DEF w
<1>3. ASSUME NEW c \in 1 .. channels
      PROVE  /\ s[c] \in Seq(Bytes) /\ Len(s[c]) = w
             /\ \A k \in 1 .. w : s[c][k] = buffer.planes[c][(f - 1) * w + k]
  <2> DEFINE plane == buffer.planes[c]
             n == buffer.frames
  <2>1. plane \in Seq(Bytes) /\ w * n <= Len(plane) /\ w \in Nat /\ n \in Nat /\ f \in 1 .. n
    BY <1>1, <1>2, <1>3
  <2>2. s[c] = SubSeq(plane, (f - 1) * w + 1, f * w)
    BY <1>3
  <2> HIDE DEF plane, n, s
  <2>3. LET sample == SubSeq(plane, (f - 1) * w + 1, f * w) IN
        /\ sample \in Seq(Bytes) /\ Len(sample) = w
        /\ \A k \in 1 .. w : sample[k] = plane[(f - 1) * w + k]
    BY <2>1, SampleOf
  <2> QED BY <2>2, <2>3 DEF plane
<1> HIDE DEF s
<1>4. s \in [1 .. channels -> Seq(Bytes)]
  BY <1>3 DEF s
<1>5. /\ FlattenSeq(s) \in Seq(Bytes) /\ Len(FlattenSeq(s)) = channels * w
      /\ \A c \in 1 .. channels, k \in 1 .. w : FlattenSeq(s)[(c - 1) * w + k] = s[c][k]
  <2> HIDE DEF channels
  <2>1. EvenRuns(Bytes, s, channels, w)
    BY <1>1, <1>3, <1>4 DEF EvenRuns
  <2> QED BY <2>1, FlattenedEvenly
<1> QED BY <1>3, <1>5 DEF s, w

(* Either layout comes out frame by frame and channel by channel.          *)
LEMMA InterleavedAt ==
  ASSUME NEW buffer, Supported(buffer)
  PROVE  HasSamples(InterleavedBytes(buffer), buffer)
<1> DEFINE w == Width(buffer)
           channels == buffer.channels
           frames == buffer.frames
<1>1. w \in Nat /\ channels \in Nat /\ frames \in Nat /\ channels * w \in Nat
  BY WidthsArePositive DEF Supported, Buffers
<1>2. CASE buffer.interleaved
  <2> DEFINE plane == buffer.planes[1]
             n == w * channels * frames
  <2>1. plane \in Seq(Bytes) /\ Len(plane) >= (w * frames) * channels
    BY <1>2 DEF Supported, Buffers, HoldsItsFrames
  <2>2. n = frames * (channels * w) /\ n = (w * frames) * channels /\ n \in Nat
    <3> HIDE DEF w, channels, frames
    <3> QED BY <1>1
  <2>3. InterleavedBytes(buffer) = SubSeq(plane, 1, n)
    BY <1>2 DEF InterleavedBytes
  <2> HIDE DEF plane, n
  <2>4. /\ SubSeq(plane, 1, n) \in Seq(Bytes) /\ Len(SubSeq(plane, 1, n)) = n
        /\ \A x \in 1 .. n : SubSeq(plane, 1, n)[x] = plane[x]
    <3>1. n \in Nat /\ n <= Len(plane)
      BY <2>1, <2>2
    <3> QED BY <2>1, <3>1
  <2>5. ASSUME NEW f \in 1 .. frames, NEW c \in 1 .. channels, NEW k \in 1 .. w
        PROVE  SubSeq(plane, 1, n)[(f - 1) * (channels * w) + ((c - 1) * w + k)]
                 = SampleByte(buffer, f, c, k)
    <3> HIDE DEF w, channels, frames
    <3>1. (c - 1) * w + k \in 1 .. (channels * w)
      BY <1>1, PlaceOf
    <3>2. (f - 1) * (channels * w) + ((c - 1) * w + k) \in 1 .. n
      BY <1>1, <2>2, <3>1, PlaceOf
    <3>3. (f - 1) * (channels * w) + ((c - 1) * w + k) = ((f - 1) * channels + c - 1) * w + k
      <4>1. f - 1 \in Nat /\ c - 1 \in Nat /\ k \in Nat
        BY <1>1
      <4>2. (f - 1) * channels + (c - 1) = (f - 1) * channels + c - 1
        BY <1>1, <4>1
      <4> QED BY <1>1, <4>1, <4>2, SamplePlaces
    <3>4. SampleByte(buffer, f, c, k) = plane[((f - 1) * channels + c - 1) * w + k]
      BY <1>2 DEF SampleByte, plane, w, channels
    <3> QED BY <2>2, <2>4, <3>2, <3>3, <3>4
  <2>6. SubSeq(plane, 1, n) \in Seq(Bytes) /\ Len(SubSeq(plane, 1, n)) = frames * (channels * w)
    BY <2>2, <2>4
  <2> DEFINE bytes == SubSeq(plane, 1, n)
  <2> HIDE DEF bytes
  <2>7. HasSamples(bytes, buffer)
    BY <2>5, <2>6 DEF HasSamples, bytes
  <2> QED BY <2>3, <2>7 DEF bytes
<1>3. CASE ~buffer.interleaved
  <2> DEFINE frame(f) == FlattenSeq([c \in 1 .. channels |->
                                       SubSeq(buffer.planes[c], (f - 1) * w + 1, f * w)])
             s == [f \in 1 .. frames |-> frame(f)]
  <2>1. ASSUME NEW f \in 1 .. frames
        PROVE  /\ s[f] \in Seq(Bytes) /\ Len(s[f]) = channels * w
               /\ \A c \in 1 .. channels, k \in 1 .. w :
                    s[f][(c - 1) * w + k] = buffer.planes[c][(f - 1) * w + k]
    BY <1>3, PlanarFrame
  <2>2. InterleavedBytes(buffer) = FlattenSeq(s)
    BY <1>3 DEF InterleavedBytes
  <2>3. s \in [1 .. frames -> Seq(Bytes)]
    BY <2>1
  <2> HIDE DEF s, frame
  <2>4. /\ FlattenSeq(s) \in Seq(Bytes) /\ Len(FlattenSeq(s)) = frames * (channels * w)
        /\ \A f \in 1 .. frames, j \in 1 .. (channels * w) :
             FlattenSeq(s)[(f - 1) * (channels * w) + j] = s[f][j]
    <3> DEFINE l == channels * w
    <3>1. l \in Nat /\ \A f \in 1 .. frames : Len(s[f]) = l
      BY <1>1, <2>1
    <3> HIDE DEF w, channels, frames, l
    <3>2. /\ FlattenSeq(s) \in Seq(Bytes) /\ Len(FlattenSeq(s)) = frames * l
          /\ \A f \in 1 .. frames, j \in 1 .. l : FlattenSeq(s)[(f - 1) * l + j] = s[f][j]
      <4>1. EvenRuns(Bytes, s, frames, l)
        BY <1>1, <2>3, <3>1 DEF EvenRuns
      <4> QED BY <4>1, FlattenedEvenly
    <3> QED BY <3>2 DEF l
  <2>5. ASSUME NEW f \in 1 .. frames, NEW c \in 1 .. channels, NEW k \in 1 .. w
        PROVE  FlattenSeq(s)[(f - 1) * (channels * w) + ((c - 1) * w + k)]
                 = SampleByte(buffer, f, c, k)
    <3>1. SampleByte(buffer, f, c, k) = buffer.planes[c][(f - 1) * w + k]
      BY <1>3 DEF SampleByte
    <3> HIDE DEF w, channels, frames
    <3>2. (c - 1) * w + k \in 1 .. (channels * w)
      BY <1>1, PlaceOf
    <3> QED BY <2>1, <2>4, <3>1, <3>2
  <2> QED BY <2>2, <2>4, <2>5 DEF HasSamples
<1> QED BY <1>2, <1>3

(* What the encoder has found out about the buffers it accepts.            *)
Acceptable(given) ==
  /\ given \in Seq(Buffers) /\ given # << >>
  /\ RateAccepted(given[1].rate) /\ given[1].channels <= U16Max
  /\ given[1].format \in DOMAIN SampleFormat
  /\ \A i \in 1 .. Len(given) : BufferRefusal(given[i], given[1]) = "None"
  /\ FitsHeader(Wav(given))

(* The loop that looks for the first buffer to refuse has looked at all.   *)
LEMMA NoneIsRefused ==
  ASSUME NEW given \in Seq(Buffers), given # << >>, WavRefusal(given) = "None"
  PROVE  Acceptable(given)
<1> DEFINE Refused == {i \in 1 .. Len(given) : BufferRefusal(given[i], given[1]) # "None"}
           stopped == IF Refused # {} THEN Min(Refused) ELSE 0
<1>1. /\ RateAccepted(given[1].rate) /\ ~(given[1].channels > U16Max)
      /\ given[1].format \in DOMAIN SampleFormat
      /\ IF stopped # 0 THEN BufferRefusal(given[stopped], given[1]) = "None"
         ELSE FitsHeader(Wav(given))
  <2>1. SelectInSeq(given, LAMBDA b : BufferRefusal(b, given[1]) # "None") = stopped
    BY DEF SelectInSeq
  <2> HIDE DEF stopped
  <2> QED BY <2>1 DEF WavRefusal
<1>2. Refused # {} => Min(Refused) \in Refused
  <2>1. SUFFICES ASSUME Refused # {} PROVE Min(Refused) \in Refused
    OBVIOUS
  <2>2. Refused \subseteq Nat
    OBVIOUS
  <2> HIDE DEF Refused
  <2>3. \E n \in Refused : \A m \in Refused : n <= m
    BY <2>1, <2>2, LeastNatural
  <2> QED BY <2>3 DEF Min
<1>3. Refused = {}
  <2>1. SUFFICES ASSUME Refused # {} PROVE FALSE
    OBVIOUS
  <2>2. stopped \in Refused
    BY <1>2, <2>1
  <2>3. stopped # 0 /\ BufferRefusal(given[stopped], given[1]) # "None"
    BY <2>2
  <2> QED BY <1>1, <2>3
<1>4. stopped = 0
  BY <1>3
<1>5. given[1].channels \in Nat
  <2>1. 1 \in 1 .. Len(given)
    OBVIOUS
  <2>2. given[1] \in Buffers
    BY <2>1
  <2> QED BY <2>2 DEF Buffers
<1> HIDE DEF stopped
<1>6. FitsHeader(Wav(given)) /\ given[1].channels <= U16Max
  BY <1>1, <1>4, <1>5, WidthAssumption
<1> QED BY <1>1, <1>3, <1>6 DEF Acceptable

(* The frames before each buffer.                                          *)
Sums(g, given, n) == g = [m \in 0 .. n |-> IF m = 0 THEN 0 ELSE g[m - 1] + given[m].frames]

LEMMA SumsExist ==
  ASSUME NEW given, NEW n \in Nat
  PROVE  \E g : Sums(g, given, n)
<1> DEFINE Bad == {m \in Nat : ~ \E g : Sums(g, given, m)}
<1>1. SUFFICES ASSUME Bad # {} PROVE FALSE
  OBVIOUS
<1>2. PICK m \in Bad : \A k \in Bad : m <= k
  BY <1>1, LeastNatural
<1>3. CASE m = 0
  <2> DEFINE h == [i \in 0 .. 0 |-> 0]
  <2>1. Sums(h, given, 0)
    BY DEF Sums
  <2> QED BY <1>3, <2>1
<1>4. CASE m # 0
  <2>1. m - 1 \in Nat /\ m \in Nat /\ m - 1 \notin Bad
    BY <1>2, <1>4
  <2>2. PICK g : Sums(g, given, m - 1)
    BY <2>1
  <2> DEFINE h == [i \in 0 .. m |-> IF i = m THEN g[m - 1] + given[m].frames ELSE g[i]]
  <2>3. ASSUME NEW i \in 0 .. m PROVE h[i] = IF i = 0 THEN 0 ELSE h[i - 1] + given[i].frames
    <3>1. CASE i = m
      <4>1. m \in 0 .. m /\ m - 1 \in 0 .. m /\ m - 1 # m
        BY <2>1
      <4>2. h[m] = g[m - 1] + given[m].frames /\ h[m - 1] = g[m - 1]
        BY <4>1
      <4> HIDE DEF h
      <4> QED BY <1>4, <3>1, <4>2
    <3>2. CASE i # m
      <4>1. i \in 0 .. (m - 1)
        BY <2>1, <3>2
      <4>2. g[i] = IF i = 0 THEN 0 ELSE g[i - 1] + given[i].frames
        BY <2>2, <4>1 DEF Sums
      <4>3. i # 0 => i - 1 \in 0 .. m /\ i - 1 # m
        BY <2>1, <4>1
      <4> QED BY <3>2, <4>2, <4>3
    <3> QED BY <3>1, <3>2
  <2>4. Sums(h, given, m)
    <3> HIDE DEF h
    <3>1. h = [i \in 0 .. m |-> h[i]]
      BY DEF h
    <3> QED BY <2>3, <3>1 DEF Sums
  <2> QED BY <2>4
<1> QED BY <1>3, <1>4

LEMMA FramesAddUp ==
  ASSUME NEW given \in Seq(Buffers)
  PROVE  /\ FramesOf(given) \in [0 .. Len(given) -> Nat] /\ FramesOf(given)[0] = 0
         /\ \A i \in 1 .. Len(given) :
              FramesOf(given)[i] = FramesOf(given)[i - 1] + given[i].frames
<1> DEFINE n == Len(given)
           total == FramesOf(given)
<1>1. Sums(total, given, n)
  <2>1. n \in Nat
    OBVIOUS
  <2>2. \E g : Sums(g, given, n)
    <3> HIDE DEF n
    <3> QED BY <2>1, SumsExist
  <2> DEFINE f == CHOOSE g : g = [m \in 0 .. n |->
                                  IF m = 0 THEN 0 ELSE g[m - 1] + given[m].frames]
  <2>3. f = [m \in 0 .. n |-> IF m = 0 THEN 0 ELSE f[m - 1] + given[m].frames]
    BY <2>2 DEF Sums
  <2>4. total = f
    BY DEF FramesOf
  <2> HIDE DEF f, total
  <2> QED BY <2>3, <2>4 DEF Sums
<1> HIDE DEF total
<1>2. ASSUME NEW i \in 1 .. n PROVE total[i] = total[i - 1] + given[i].frames
  <2>1. i \in 0 .. n /\ i # 0
    OBVIOUS
  <2> QED BY <1>1, <2>1 DEF Sums
<1>3. total[0] = 0 /\ total = [m \in 0 .. n |-> total[m]]
  BY <1>1 DEF Sums
<1>4. ASSUME NEW m \in 0 .. n PROVE total[m] \in Nat
  <2> DEFINE Bad == {k \in Nat : k \in 0 .. n /\ total[k] \notin Nat}
  <2>1. SUFFICES ASSUME Bad # {} PROVE FALSE
    BY <1>4
  <2>2. PICK k \in Bad : \A j \in Bad : k <= j
    BY <2>1, LeastNatural
  <2>3. k \in 1 .. n /\ k - 1 \in Nat /\ k - 1 \in 0 .. n /\ k - 1 \notin Bad
    BY <1>3, <2>2
  <2>4. total[k - 1] \in Nat
    BY <2>3
  <2>5. given[k] \in Buffers
    BY <2>3
  <2>6. given[k].frames \in Nat
    BY <2>5 DEF Buffers
  <2> QED BY <1>2, <2>2, <2>3, <2>4, <2>6
<1> QED BY <1>2, <1>3, <1>4 DEF total

LEMMA AcceptableBuffer ==
  ASSUME NEW given, Acceptable(given), NEW i \in 1 .. Len(given)
  PROVE  /\ Supported(given[i]) /\ given[i].channels = given[1].channels
         /\ Width(given[i]) = Width(given[1])
<1>1. given[i] \in Buffers
  BY DEF Acceptable
<1>2. SameAudioFormat(given[i], given[1]) /\ HoldsItsFrames(given[i])
  BY DEF Acceptable, BufferRefusal
<1>3. given[i].channels = given[1].channels /\ given[i].format = given[1].format
  BY <1>2 DEF SameAudioFormat
<1> QED BY <1>1, <1>2, <1>3 DEF Acceptable, Supported, Width

LEMMA FirstBuffer ==
  ASSUME NEW given, Acceptable(given)
  PROVE  /\ 1 \in 1 .. Len(given) /\ Len(given) \in Nat
         /\ Supported(given[1]) /\ given[1].channels \in Nat /\ given[1].rate \in Nat
         /\ Width(given[1]) \in Nat \ {0}
<1>1. 1 \in 1 .. Len(given) /\ Len(given) \in Nat
  BY DEF Acceptable
<1>2. Supported(given[1])
  BY <1>1, AcceptableBuffer
<1> QED BY <1>1, <1>2, WidthsArePositive DEF Supported, Buffers

LEMMA NextBlock ==
  ASSUME NEW a \in Nat, NEW b \in Nat, NEW l \in Nat
  PROVE  (a + b) * l = a * l + b * l
OBVIOUS

(* The payload is the buffers' samples, each buffer's after the frames of  *)
(* the buffers before it.                                                  *)
LEMMA BuffersInPlace ==
  ASSUME NEW given, Acceptable(given)
  PROVE  LET block == given[1].channels * Width(given[1])
             samples == Wav(given).samples
         IN  /\ samples \in Seq(Bytes)
             /\ Len(samples) = FramesOf(given)[Len(given)] * block
             /\ \A i \in 1 .. Len(given) : \A j \in 1 .. (given[i].frames * block) :
                  samples[FramesOf(given)[i - 1] * block + j] = InterleavedBytes(given[i])[j]
<1> DEFINE n == Len(given)
           block == given[1].channels * Width(given[1])
           total == FramesOf(given)
           s == [i \in 1 .. n |-> InterleavedBytes(given[i])]
           off == [i \in 0 .. n |-> total[i] * block]
<1>1. n \in Nat /\ block \in Nat /\ given \in Seq(Buffers)
  <2>1. given[1].channels \in Nat /\ Width(given[1]) \in Nat /\ n \in Nat
    BY FirstBuffer
  <2> HIDE DEF n
  <2> QED BY <2>1 DEF Acceptable
<1>2. ASSUME NEW i \in 1 .. n
      PROVE  /\ s[i] \in Seq(Bytes) /\ Len(s[i]) = given[i].frames * block
             /\ given[i].frames \in Nat
  <2>1. /\ Supported(given[i]) /\ given[i].channels = given[1].channels
        /\ Width(given[i]) = Width(given[1])
    BY <1>2, AcceptableBuffer
  <2>2. HasSamples(InterleavedBytes(given[i]), given[i])
    BY <2>1, InterleavedAt
  <2>3. given[i].frames \in Nat
    BY <2>1 DEF Supported, Buffers
  <2> QED BY <2>1, <2>2, <2>3 DEF HasSamples
<1>3. /\ total \in [0 .. n -> Nat] /\ total[0] = 0
      /\ \A i \in 1 .. n : total[i] = total[i - 1] + given[i].frames
  BY <1>1, FramesAddUp
<1>4. Wav(given).samples = FlattenSeq(s)
  <2>1. DOMAIN given = 1 .. n
    BY <1>1
  <2> QED BY <2>1 DEF Wav
<1>5. s \in [1 .. n -> Seq(Bytes)]
  BY <1>2
<1> HIDE DEF s, block, total, n
<1>6. ASSUME NEW i \in 1 .. n PROVE off[i] = off[i - 1] + Len(s[i])
  <2>1. i \in 0 .. n /\ i - 1 \in 0 .. n
    BY <1>1
  <2>2. off[i] = total[i] * block /\ off[i - 1] = total[i - 1] * block
    BY <2>1
  <2>3. total[i - 1] \in Nat /\ given[i].frames \in Nat
    BY <1>2, <1>3, <2>1
  <2>4. (total[i - 1] + given[i].frames) * block
          = total[i - 1] * block + given[i].frames * block
    BY <1>1, <2>3, NextBlock
  <2> HIDE DEF off
  <2> QED BY <1>2, <1>3, <2>2, <2>4
<1>7. off \in [0 .. n -> Nat] /\ off[0] = 0
  <2>1. ASSUME NEW i \in 0 .. n PROVE total[i] * block \in Nat
    <3>1. total[i] \in Nat
      BY <1>3, <2>1
    <3> QED BY <1>1, <3>1
  <2>2. 0 \in 0 .. n /\ total[0] * block = 0
    BY <1>1, <1>3
  <2> QED BY <2>1, <2>2
<1>8. \A i \in 0 .. n : off[i] = total[i] * block
  OBVIOUS
<1> HIDE DEF off
<1>9. Offsets(off, s, n)
  BY <1>6, <1>7 DEF Offsets
<1>10. FlattenSeq(s) \in Seq(Bytes) /\ RunsTo(FlattenSeq(s), s, off, n)
  BY <1>1, <1>5, <1>9, FlattenedAt
<1>11. ASSUME NEW i \in 1 .. n, NEW j \in 1 .. (given[i].frames * block)
       PROVE  FlattenSeq(s)[total[i - 1] * block + j] = InterleavedBytes(given[i])[j]
  <2>1. j \in Nat /\ j \in 1 .. Len(s[i])
    BY <1>2
  <2>2. FlattenSeq(s)[off[i - 1] + j] = s[i][j]
    BY <1>10, <2>1 DEF RunsTo
  <2>3. i - 1 \in 0 .. n
    BY <1>1
  <2>4. off[i - 1] = total[i - 1] * block
    BY <1>8, <2>3
  <2> QED BY <2>2, <2>4 DEF s
<1>12. Len(FlattenSeq(s)) = total[n] * block
  <2>1. n \in 0 .. n
    BY <1>1
  <2> QED BY <1>8, <1>10, <2>1 DEF RunsTo
<1> QED BY <1>4, <1>10, <1>11, <1>12 DEF n, block, total

LEMMA WholePlaces ==
  ASSUME NEW b \in Nat, NEW f \in Nat, NEW c \in Nat, NEW k \in Nat,
         NEW channels \in Nat, NEW w \in Nat
  PROVE  ((b + f) * channels + c) * w + k
           = b * (channels * w) + (f * (channels * w) + (c * w + k))
<1>1. (b + f) * (channels * w) = b * (channels * w) + f * (channels * w)
  <2> DEFINE l == channels * w
  <2>1. l \in Nat
    OBVIOUS
  <2> HIDE DEF l
  <2>2. (b + f) * l = b * l + f * l
    BY <2>1, NextBlock
  <2> QED BY <2>2 DEF l
<1>2. (b + f) * (channels * w) + (c * w + k) = ((b + f) * channels + c) * w + k
  BY SamplePlaces
<1> QED BY <1>1, <1>2

LEMMA ByteInPlace ==
  ASSUME NEW given, Acceptable(given), NEW i \in 1 .. Len(given),
         NEW f \in 1 .. given[i].frames, NEW c \in 1 .. given[i].channels,
         NEW k \in 1 .. Width(given[i])
  PROVE  LET wav == Wav(given) IN
         wav.samples[((FramesOf(given)[i - 1] + f - 1) * wav.channels + c - 1)
                       * (wav.bits_per_sample \div 8) + k]
           = SampleByte(given[i], f, c, k)
<1> DEFINE w == Width(given[1])
           channels == given[1].channels
           frames == given[i].frames
           before == FramesOf(given)[i - 1]
           place == (f - 1) * (channels * w) + ((c - 1) * w + k)
           samples == Wav(given).samples
<1>1. /\ Supported(given[i]) /\ given[i].channels = channels /\ Width(given[i]) = w
  BY AcceptableBuffer
<1>2. channels \in Nat /\ w \in Nat /\ frames \in Nat /\ before \in Nat
  <2>1. channels \in Nat /\ w \in Nat
    BY FirstBuffer
  <2>2. frames \in Nat
    BY <1>1 DEF Supported, Buffers
  <2>3. given \in Seq(Buffers) /\ i - 1 \in 0 .. Len(given)
    BY DEF Acceptable
  <2>4. before \in Nat
    BY <2>3, FramesAddUp
  <2> QED BY <2>1, <2>2, <2>4
<1>3. InterleavedBytes(given[i])[place] = SampleByte(given[i], f, c, k)
  BY <1>1, InterleavedAt DEF HasSamples
<1>4. Wav(given).channels = channels /\ Wav(given).bits_per_sample = 8 * w
  BY DEF Wav
<1>5. \A j \in 1 .. (frames * (channels * w)) :
         samples[before * (channels * w) + j] = InterleavedBytes(given[i])[j]
  BY BuffersInPlace
<1>6. f \in 1 .. frames /\ c \in 1 .. channels /\ k \in 1 .. w
  BY <1>1
<1>7. (8 * w) \div 8 = w
  BY <1>2
<1> HIDE DEF w, channels, frames, before, samples
<1>8. place \in 1 .. (frames * (channels * w))
  <2>1. (c - 1) * w + k \in 1 .. (channels * w) /\ channels * w \in Nat
    BY <1>2, <1>6, PlaceOf
  <2> QED BY <1>2, <1>6, <2>1, PlaceOf
<1>9. ((before + f - 1) * channels + c - 1) * w + k = before * (channels * w) + place
  <2>1. f - 1 \in Nat /\ c - 1 \in Nat /\ k \in Nat
    BY <1>2, <1>6
  <2>2. before + f - 1 = before + (f - 1)
    BY <1>2, <2>1
  <2>3. ((before + (f - 1)) * channels + (c - 1)) * w + k
          = before * (channels * w) + ((f - 1) * (channels * w) + ((c - 1) * w + k))
    BY <1>2, <2>1, WholePlaces
  <2>4. (before + (f - 1)) * channels + c - 1 = (before + (f - 1)) * channels + (c - 1)
    BY <1>2, <2>1
  <2> QED BY <2>2, <2>3, <2>4
<1> HIDE DEF place
<1>10. samples[((before + f - 1) * channels + c - 1) * w + k] = SampleByte(given[i], f, c, k)
  BY <1>3, <1>5, <1>8, <1>9
<1> QED BY <1>4, <1>7, <1>10 DEF before, samples

(* A quotient rounded down.                                                *)
LEMMA QuotientBounds ==
  ASSUME NEW x \in Nat, NEW b \in Nat \ {0}
  PROVE  (x \div b) * b <= x /\ x < ((x \div b) + 1) * b
OBVIOUS

LEMMA RatesArePositive ==
  ASSUME NEW rate \in Nat, RateAccepted(rate)
  PROVE  RoundedRate(rate) \in Nat \ {0}
BY DEF RateAccepted, RoundedRate

LEMMA AcceptableIsWhole ==
  ASSUME NEW given, Acceptable(given)
  PROVE  IsWhole(Wav(given), given)
<1> DEFINE wav == Wav(given)
           total == FramesOf(given)[Len(given)]
           block == given[1].channels * Width(given[1])
<1>1. ASSUME NEW i \in DOMAIN given,
             NEW f \in 1 .. given[i].frames, NEW c \in 1 .. given[i].channels,
             NEW k \in 1 .. Width(given[i])
      PROVE  wav.samples[((FramesOf(given)[i - 1] + f - 1) * wav.channels + c - 1)
                           * (wav.bits_per_sample \div 8) + k]
               = SampleByte(given[i], f, c, k)
  <2>1. i \in 1 .. Len(given)
    BY DEF Acceptable
  <2> QED BY <2>1, ByteInPlace
<1>2. total \in Nat /\ block \in Nat
  <2>1. given \in Seq(Buffers) /\ Len(given) \in 0 .. Len(given)
    BY DEF Acceptable
  <2> QED BY <2>1, FramesAddUp, FirstBuffer
<1>3. /\ wav.data_len = Len(wav.samples) /\ wav.riff_len = 36 + wav.data_len
      /\ wav.block_align = block /\ wav.channels = given[1].channels
      /\ wav.sample_rate = RoundedRate(given[1].rate)
      /\ wav.duration_ms = (total * 1000) \div RoundedRate(given[1].rate)
  BY DEF Wav
<1>4. wav.data_len = total * block
  BY <1>3, BuffersInPlace
<1>5. wav.data_len \in Nat /\ wav.data_len < wav.riff_len
  <2> HIDE DEF wav, total, block
  <2>1. total * block \in Nat
    BY <1>2
  <2> QED BY <1>3, <1>4, <2>1
<1>6. /\ wav.riff_len <= U32Max /\ wav.channels <= U16Max
      /\ wav.block_align <= U16Max /\ wav.byte_rate <= U32Max
  BY <1>3 DEF Acceptable, FitsHeader
<1>7. /\ wav.duration_ms * wav.sample_rate <= total * 1000
      /\ total * 1000 < (wav.duration_ms + 1) * wav.sample_rate
  <2>1. RoundedRate(given[1].rate) \in Nat \ {0}
    BY FirstBuffer, RatesArePositive DEF Acceptable
  <2> DEFINE x == total * 1000
             rate == RoundedRate(given[1].rate)
  <2>2. x \in Nat /\ rate \in Nat \ {0}
    BY <1>2, <2>1
  <2> HIDE DEF x, rate
  <2>3. (x \div rate) * rate <= x /\ x < ((x \div rate) + 1) * rate
    BY <2>2, QuotientBounds
  <2> QED BY <1>3, <2>3 DEF x, rate
<1> HIDE DEF wav, total
<1>8. \A i \in DOMAIN given :
        \A f \in 1 .. given[i].frames, c \in 1 .. given[i].channels,
           k \in 1 .. Width(given[i]) :
          wav.samples[((FramesOf(given)[i - 1] + f - 1) * wav.channels + c - 1)
                        * (wav.bits_per_sample \div 8) + k]
            = SampleByte(given[i], f, c, k)
  BY <1>1
<1>9. wav.data_len = total * wav.block_align /\ wav.data_len = Len(wav.samples)
  BY <1>3, <1>4
<1>10. IsWhole(wav, given)
  BY <1>5, <1>6, <1>7, <1>8, <1>9, Zenon DEF IsWhole, total
<1> QED BY <1>10 DEF wav

(* Whatever the buffers, what encode_wav answers is whole.                 *)
THEOREM EncodingKeepsEveryByte ==
  ASSUME NEW given \in Seq(Buffers), given # << >>, WavRefusal(given) = "None"
  PROVE  IsWhole(Wav(given), given)
BY NoneIsRefused, AcceptableIsWhole
-----------------------------------------------------------------------------
(* The Apple backend.                                                      *)

(* Whatever its threads do, it makes the backend's steps or none.          *)
LEMMA AppleStepsBackend ==
  ASSUME AppleNext
  PROVE  [Next]_vars
<1> USE DEF Next
<1>1. ASSUME NEW c \in Calls, CallSynthesize(c) \/ CallProceeds(c) PROVE [Next]_vars
  <2>1. RequestOf[c] \in RequestIds
    BY CallAssumption
  <2> QED BY <1>1, <2>1 DEF CallSynthesize, CallProceeds, BeginResolve, EndResolve,
             CallAdmitted, CallRefused
<1>2. ASSUME NEW n \in Nonces, Synthesizes(n) \/ AppleLeaseDrops(n) \/ AppleReaps(n)
      PROVE  [Next]_vars
  BY <1>2 DEF Synthesizes, BeginSynthesis, BeginNative, NativeDelivers, NativeFails,
     NativePanics, Encode, Decide, Answer, AppleLeaseDrops, AppleReaps, WorkerLeaves
<1>3. ASSUME NEW p \in Probes, StartInquiry(p) \/ Inspects(p) \/ InquiryTimesOut(p)
      PROVE  [Next]_vars
  BY <1>3 DEF StartInquiry, Inspects, BeginInspect, EndInspect, InquiryAnswered, InquiryTimesOut
<1>4. CASE \/ \E id \in RequestIds : AppleCancel(id)
           \/ \E s \in Callers :
                AppleCallShutdown(s) \/ AppleAwaitShutdown(s) \/ AppleShutdownDropped(s)
           \/ AppleCoordinates
  BY <1>4 DEF AppleCancel, AppleCallShutdown, AppleAwaitShutdown, AppleShutdownDropped,
     AppleCoordinates
<1> QED BY <1>1, <1>2, <1>3, <1>4 DEF AppleNext

(* The Apple backend is the backend, too ...                               *)
THEOREM AppleRunsBackend == AppleSpec => Spec
<1>1. AppleInit => Init
  BY DEF AppleInit
<1>2. [AppleNext]_allAppleVars => [Next]_vars
  BY AppleStepsBackend DEF allAppleVars
<1> QED BY <1>1, <1>2, PTL DEF AppleSpec, Spec

(* ... and keeps what the backend does: its shutdown returns what is true, *)
(* no caller of it sleeps through its end, and the host's protocol holds.  *)
THEOREM AppleKeepsTheBackend ==
  AppleSpec => []ResultIsTrue /\ []NoWakeupIsMissed /\ ImplementsBackend
BY AppleRunsBackend, RetainedResultIsTrue, CallersMissNothing, BackendKeepsProtocol

(* Whoever is inside the native library holds the lock of the process.     *)
Entitled ==
  /\ DOMAIN stage = Nonces /\ DOMAIN call = Calls /\ DOMAIN inventory = Probes
  /\ \A n \in Nonces : stage[n] \in {"Native", "Encode"} => runtime = <<"worker", n>>
  /\ \A p \in Probes : inventory[p] = "Inspects" => runtime = <<"probe", p>>
  /\ \A c \in Calls : call[c] = "Resolving" => runtime = <<"call", c>>

(* A step that leaves the lock, the stages, the calls and the inventories. *)
LEMMA EntitledIsLocal ==
  ASSUME Entitled, UNCHANGED <<runtime, stage, call, inventory>>
  PROVE  Entitled'
BY DEF Entitled

LEMMA SynthesisKeepsEntitled ==
  ASSUME Entitled, NEW n \in Nonces, Synthesizes(n)
  PROVE  Entitled'
<1>1. CASE BeginSynthesis(n) \/ Decide(n) \/ NativeFails(n) \/ NativePanics(n) \/ Encode(n)
            \/ Answer(n)
  BY <1>1 DEF Entitled, BeginSynthesis, Decide, NativeFails, NativePanics, Encode, Answer,
              UnlockRuntime
<1>2. CASE BeginNative(n)
  BY <1>2 DEF Entitled, BeginNative, LockRuntime, Unheld
<1>3. CASE NativeDelivers(n)
  BY <1>3 DEF Entitled, NativeDelivers
<1> QED BY <1>1, <1>2, <1>3 DEF Synthesizes

LEMMA CallsKeepEntitled ==
  ASSUME Entitled, NEW c \in Calls, CallSynthesize(c) \/ CallProceeds(c)
  PROVE  Entitled'
<1>1. CASE CallSynthesize(c) \/ CallAdmitted(c) \/ CallRefused(c) \/ EndResolve(c)
  BY <1>1 DEF Entitled, CallSynthesize, CallAdmitted, CallRefused, EndResolve, UnlockRuntime
<1>2. CASE BeginResolve(c)
  BY <1>2 DEF Entitled, BeginResolve, LockRuntime, Unheld
<1> QED BY <1>1, <1>2 DEF CallProceeds

LEMMA ProbesKeepEntitled ==
  ASSUME Entitled, NEW p \in Probes, StartInquiry(p) \/ Inspects(p) \/ InquiryTimesOut(p)
  PROVE  Entitled'
<1>1. CASE StartInquiry(p) \/ InquiryAnswered(p) \/ InquiryTimesOut(p) \/ EndInspect(p)
  BY <1>1 DEF Entitled, StartInquiry, InquiryAnswered, InquiryTimesOut, EndInspect, UnlockRuntime
<1>2. CASE BeginInspect(p)
  BY <1>2 DEF Entitled, BeginInspect, LockRuntime, Unheld
<1> QED BY <1>1, <1>2 DEF Inspects

LEMMA EntitledInvariant == AppleSpec => []Entitled
<1>1. AppleInit => Entitled
  BY DEF AppleInit, Entitled
<1>2. Entitled /\ [AppleNext]_allAppleVars => Entitled'
  <2> SUFFICES ASSUME Entitled, [AppleNext]_allAppleVars PROVE Entitled'
    OBVIOUS
  <2>1. CASE \E c \in Calls : CallSynthesize(c) \/ CallProceeds(c)
    BY <2>1, CallsKeepEntitled
  <2>2. CASE \E n \in Nonces : Synthesizes(n)
    BY <2>2, SynthesisKeepsEntitled
  <2>3. CASE \E p \in Probes : StartInquiry(p) \/ Inspects(p) \/ InquiryTimesOut(p)
    BY <2>3, ProbesKeepEntitled
  <2>4. CASE UNCHANGED appleVars
    BY <2>4, EntitledIsLocal DEF appleVars
  <2>5. CASE \/ \E id \in RequestIds : AppleCancel(id)
             \/ \E n \in Nonces : AppleLeaseDrops(n) \/ AppleReaps(n)
             \/ \E s \in Callers :
                  AppleCallShutdown(s) \/ AppleAwaitShutdown(s) \/ AppleShutdownDropped(s)
             \/ AppleCoordinates
             \/ UNCHANGED allAppleVars
    BY <2>4, <2>5 DEF AppleCancel, AppleLeaseDrops, AppleReaps, AppleCallShutdown,
                      AppleAwaitShutdown, AppleShutdownDropped, AppleCoordinates, allAppleVars
  <2> QED BY <2>1, <2>2, <2>3, <2>5 DEF AppleNext
<1> QED BY <1>1, <1>2, PTL DEF AppleSpec

(* A synthesis, the choice of a voice and a probe, one whose caller gave   *)
(* up included, never overlap in the native library.                       *)
THEOREM NativeCallsAreExclusive == AppleSpec => []NativeCallsDoNotOverlap
<1>1. Entitled => NativeCallsDoNotOverlap
  <2> SUFFICES ASSUME Entitled, NEW x \in InNative PROVE x = runtime
    BY DEF NativeCallsDoNotOverlap
  <2> QED BY DEF Entitled, InNative
<1> QED BY <1>1, EntitledInvariant, PTL
-----------------------------------------------------------------------------
(* What a shutdown counts on: a worker is somewhere in run_synthesis only  *)
(* while its lease is held, its task is live until the lease is gone, and  *)
(* the coordinator goes on only when no task is live.                      *)
Accounted ==
  /\ DOMAIN stage = Nonces /\ DOMAIN worker = Nonces
  /\ next_nonce \in Nat
  /\ \A n \in Nonces :
       /\ worker[n] = "None" => stage[n] = "Start"
       /\ worker[n] \notin {"None", "Working"} => stage[n] = "Done"
       /\ worker[n] \notin {"None", "Ended", "Failed"} => n \in live
  /\ phase = "Running" => coordinator = "None"
  /\ coordinator = "None" => phase = "Running"
  /\ coordinator \in {"Publish", "Notify", "Done"} => live = {}
  /\ shutdown_result # "None" => coordinator \in {"Notify", "Done"}

LEMMA AccountedIsLocal ==
  ASSUME Accounted,
         UNCHANGED <<stage, worker, next_nonce, live, phase, coordinator, shutdown_result>>
  PROVE  Accounted'
BY DEF Accounted

LEMMA SynthesisKeepsAccounted ==
  ASSUME Accounted, NEW n \in Nonces, Synthesizes(n)
  PROVE  Accounted'
<1>1. CASE BeginSynthesis(n)
  BY <1>1 DEF Accounted, BeginSynthesis, vars, operationVars, superVars, shutdownVars
<1>2. CASE BeginNative(n) \/ NativeDelivers(n) \/ NativeFails(n) \/ Encode(n) \/ Decide(n)
  BY <1>2 DEF Accounted, BeginNative, NativeDelivers, NativeFails, Encode, Decide,
              vars, operationVars, superVars, shutdownVars
<1>3. CASE Answer(n) \/ NativePanics(n)
  BY <1>3 DEF Accounted, Answer, NativePanics, WorkerEnds, superVars, shutdownVars
<1> QED BY <1>1, <1>2, <1>3 DEF Synthesizes

LEMMA CallsKeepAccounted ==
  ASSUME Accounted, NEW c \in Calls, CallSynthesize(c) \/ CallProceeds(c)
  PROVE  Accounted'
<1>1. CASE CallSynthesize(c) \/ BeginResolve(c) \/ EndResolve(c) \/ CallRefused(c)
  BY <1>1, AccountedIsLocal DEF CallSynthesize, BeginResolve, EndResolve, CallRefused,
     vars, operationVars, superVars, shutdownVars
<1>2. CASE CallAdmitted(c)
  BY <1>2, NonceAssumption DEF Accounted, CallAdmitted, SpawnOperation, Admits, T!Admit,
     Nonces, shutdownVars
<1> QED BY <1>1, <1>2 DEF CallProceeds

LEMMA ProtocolKeepsAccounted ==
  ASSUME Accounted, UNCHANGED appleVars,
         \/ \E id \in RequestIds : Cancel(id)
         \/ \E n \in Nonces : WorkerLeaves(n)
         \/ \E s \in Callers :
              CallShutdown(s) \/ FollowShutdown(s) \/ CallerProgress(s) \/ CallerAborts(s)
         \/ CoordinatorStep
  PROVE  Accounted'
<1>1. ASSUME NEW id \in RequestIds, Cancel(id) PROVE Accounted'
  BY <1>1, AccountedIsLocal DEF Cancel, appleVars, superVars, shutdownVars
<1>2. ASSUME NEW n \in Nonces, LeaseDrops(n) PROVE Accounted'
  BY <1>2 DEF Accounted, LeaseDrops, appleVars, superVars, shutdownVars
<1>3. ASSUME NEW n \in Nonces, Join(n) PROVE Accounted'
  BY <1>3 DEF Accounted, Join, T!Join, appleVars, operationVars, shutdownVars
<1>4. ASSUME NEW s \in Callers, CallShutdown(s) PROVE Accounted'
  BY <1>4 DEF Accounted, CallShutdown, appleVars, superVars
<1>5. ASSUME NEW s \in Callers, FollowShutdown(s) \/ CallerProgress(s) \/ CallerAborts(s)
      PROVE  Accounted'
  BY <1>5, AccountedIsLocal DEF FollowShutdown, CallerProgress, CallerAborts, CallerEnables,
     CallerChecks, CallerAwaits, CallerWakes, appleVars, operationVars, superVars, shutdownVars
<1>6. CASE CloseTasks
  BY <1>6 DEF Accounted, CloseTasks, T!Close, appleVars, operationVars
<1>7. CASE Drained
  BY <1>7 DEF Accounted, Drained, appleVars, operationVars, superVars
<1>8. CASE Publish \/ PublishNotifies
  BY <1>8 DEF Accounted, Publish, PublishNotifies, appleVars, operationVars, superVars
<1> QED BY <1>1, <1>2, <1>3, <1>4, <1>5, <1>6, <1>7, <1>8 DEF CoordinatorStep, WorkerLeaves

LEMMA AccountedInvariant == AppleSpec => []Accounted
<1>1. AppleInit => Accounted
  BY DEF AppleInit, Init, T!Init, Accounted
<1>2. Accounted /\ [AppleNext]_allAppleVars => Accounted'
  <2> SUFFICES ASSUME Accounted, [AppleNext]_allAppleVars PROVE Accounted'
    OBVIOUS
  <2>1. CASE \E c \in Calls : CallSynthesize(c) \/ CallProceeds(c)
    BY <2>1, CallsKeepAccounted
  <2>2. CASE \E n \in Nonces : Synthesizes(n)
    BY <2>2, SynthesisKeepsAccounted
  <2>3. ASSUME NEW p \in Probes, StartInquiry(p) \/ Inspects(p) \/ InquiryTimesOut(p)
        PROVE  Accounted'
    BY <2>3, AccountedIsLocal DEF StartInquiry, Inspects, BeginInspect, EndInspect,
       InquiryAnswered, InquiryTimesOut, vars, operationVars, superVars, shutdownVars
  <2>4. CASE \/ \E id \in RequestIds : AppleCancel(id)
             \/ \E n \in Nonces : AppleLeaseDrops(n) \/ AppleReaps(n)
             \/ \E s \in Callers :
                  AppleCallShutdown(s) \/ AppleAwaitShutdown(s) \/ AppleShutdownDropped(s)
             \/ AppleCoordinates
    BY <2>4, ProtocolKeepsAccounted DEF AppleCancel, AppleLeaseDrops, AppleReaps,
       AppleCallShutdown, AppleAwaitShutdown, AppleShutdownDropped, AppleCoordinates,
       WorkerLeaves
  <2>5. CASE UNCHANGED allAppleVars
    BY <2>5, AccountedIsLocal DEF allAppleVars, vars, appleVars, operationVars, superVars, shutdownVars
  <2> QED BY <2>1, <2>2, <2>3, <2>4, <2>5 DEF AppleNext
<1> QED BY <1>1, <1>2, PTL DEF AppleSpec

(* A shutdown that was answered, by a result retained for everybody, left  *)
(* no worker in the native library or on its way to it.                    *)
THEOREM ShutdownLeavesQuiet == AppleSpec => []ClosedMeansQuiet
<1>1. Accounted => ClosedMeansQuiet
  BY DEF Accounted, ClosedMeansQuiet
<1> QED BY <1>1, AccountedInvariant, PTL

(* Sequences over E put together are one.                                  *)
LEMMA FlattenedIsASequence ==
  ASSUME NEW E, NEW n \in Nat, NEW s \in [1 .. n -> Seq(E)]
  PROVE  FlattenSeq(s) \in Seq(E)
<1>1. Len(s) = n
  OBVIOUS
<1>2. CASE n = 0
  BY <1>1, <1>2 DEF FlattenSeq
<1>3. CASE n # 0
  <2>1. PICK g : Flattens(g, s, n) /\ FlattenSeq(s) = g[n]
    BY <1>1, <1>3, FlattenRuns
  <2> DEFINE Bad == {m \in Nat : m \in 1 .. n /\ g[m] \notin Seq(E)}
  <2>2. SUFFICES ASSUME Bad # {} PROVE FALSE
    BY <1>3, <2>1
  <2>3. PICK m \in Bad : \A k \in Bad : m <= k
    BY <2>2, LeastNatural
  <2>4. CASE m = 1
    BY <2>1, <2>3, <2>4 DEF Flattens
  <2>5. CASE m # 1
    <3>1. m \in 1 .. n /\ m - 1 \in Nat /\ m - 1 \in 1 .. n /\ ~(m <= m - 1)
      BY <2>3, <2>5
    <3>2. g[m - 1] \in Seq(E) /\ s[m] \in Seq(E)
      BY <2>3, <3>1
    <3>3. g[m] = g[m - 1] \o s[m]
      BY <2>1, <2>5, <3>1 DEF Flattens
    <3>4. g[m - 1] \o s[m] \in Seq(E)
      BY <3>2, ConcatAt
    <3> QED BY <2>3, <3>3, <3>4
  <2> QED BY <2>4, <2>5
<1> QED BY <1>2, <1>3

(* Only the native library fills the buffers, and an encoding empties them.*)
LEMMA WhoTouchesBuffers ==
  ASSUME AppleNext
  PROVE  buffers' \in {buffers, << >>} \/ \E n \in Nonces : NativeDelivers(n)
<1>1. ASSUME NEW c \in Calls, CallSynthesize(c) \/ CallProceeds(c) PROVE buffers' = buffers
  BY <1>1 DEF CallSynthesize, CallProceeds, BeginResolve, EndResolve, CallAdmitted, CallRefused
<1>2. ASSUME NEW n \in Nonces, Synthesizes(n) \/ AppleLeaseDrops(n) \/ AppleReaps(n),
             ~NativeDelivers(n)
      PROVE  buffers' \in {buffers, << >>}
  BY <1>2 DEF Synthesizes, BeginSynthesis, BeginNative, NativeFails, NativePanics, Encode,
     Decide, Answer, AppleLeaseDrops, AppleReaps, appleVars
<1>3. ASSUME NEW p \in Probes, StartInquiry(p) \/ Inspects(p) \/ InquiryTimesOut(p)
      PROVE  buffers' = buffers
  BY <1>3 DEF StartInquiry, Inspects, BeginInspect, EndInspect, InquiryAnswered, InquiryTimesOut
<1>4. CASE \/ \E id \in RequestIds : AppleCancel(id)
           \/ \E s \in Callers :
                AppleCallShutdown(s) \/ AppleAwaitShutdown(s) \/ AppleShutdownDropped(s)
           \/ AppleCoordinates
  BY <1>4 DEF AppleCancel, AppleCallShutdown, AppleAwaitShutdown, AppleShutdownDropped,
     AppleCoordinates, appleVars
<1> QED BY <1>1, <1>2, <1>3, <1>4 DEF AppleNext

LEMMA BuffersInvariant == AppleSpec => [](buffers \in Seq(Buffers))
<1>1. AppleInit => buffers \in Seq(Buffers)
  BY DEF AppleInit
<1>2. ASSUME NEW n \in Nonces, NativeDelivers(n) PROVE buffers' \in Seq(Buffers)
  <2>1. PICK utterance \in Seq(Buffers) :
          buffers' = FlattenSeq([i \in DOMAIN utterance |->
                       IF utterance[i].last THEN << >> ELSE <<utterance[i]>>])
    BY <1>2, UtteranceAssumption DEF NativeDelivers
  <2> DEFINE l == Len(utterance)
             kept == [i \in 1 .. l |-> IF utterance[i].last THEN << >> ELSE <<utterance[i]>>]
  <2>2. l \in Nat /\ DOMAIN utterance = 1 .. l
    OBVIOUS
  <2>3. buffers' = FlattenSeq(kept)
    BY <2>1, <2>2
  <2>4. ASSUME NEW i \in 1 .. l PROVE kept[i] \in Seq(Buffers)
    <3>1. utterance[i] \in Buffers
      BY <2>4
    <3> HIDE DEF Buffers
    <3>2. <<utterance[i]>> \in Seq(Buffers) /\ << >> \in Seq(Buffers)
      BY <3>1
    <3> QED BY <3>2
  <2>5. kept \in [1 .. l -> Seq(Buffers)]
    BY <2>4
  <2> HIDE DEF kept, l
  <2> QED BY <2>2, <2>3, <2>5, FlattenedIsASequence
<1>3. buffers \in Seq(Buffers) /\ [AppleNext]_allAppleVars => (buffers \in Seq(Buffers))'
  <2> SUFFICES ASSUME buffers \in Seq(Buffers), [AppleNext]_allAppleVars
               PROVE  buffers' \in Seq(Buffers)
    OBVIOUS
  <2> HIDE DEF Buffers
  <2>1. << >> \in Seq(Buffers)
    OBVIOUS
  <2>2. CASE AppleNext
    BY <1>2, <2>1, <2>2, WhoTouchesBuffers
  <2>3. CASE UNCHANGED allAppleVars
    BY <2>3 DEF allAppleVars, appleVars
  <2> QED BY <2>2, <2>3
<1> QED BY <1>1, <1>3, PTL DEF AppleSpec

(* Whatever the native library delivers, the payload that is answered      *)
(* holds every sample once and in its place, and its header is true: by    *)
(* induction over the buffers, the frames and the channels.                *)
THEOREM EncodedAudioStaysWhole == AppleSpec => []EncodedAudioIsWhole
<1>1. buffers \in Seq(Buffers) => EncodedAudioIsWhole
  BY EncodingKeepsEveryByte DEF EncodedAudioIsWhole
<1> QED BY <1>1, BuffersInvariant, PTL
=============================================================================
