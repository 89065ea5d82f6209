# TAPSwitch: models, checks and proofs

TAPSwitch (`src/`) is the daemon that decides which audio player may use the
sound device.  This directory holds TLA+ modules for it, TLC configurations
that check them on small instances, and proofs checked by TLAPS.

File names without a directory are those of `src/src/`; "README" with a line
number is the README of TAPSwitch, not this one.

## The system

One process with one thread: a GLib main loop that runs one D-Bus handler at
a time.  While a handler calls another process (synchronously, with D-Bus's
timeout), nothing else runs in the daemon, but everything else runs in the
other processes.

| Component | State | Operations | Interaction |
|---|---|---|---|
| Registry, `AudioPath::Paths` (`audiopath.cc`) | players and sources by ID, each with a D-Bus proxy; a source names its player | `add_player`, `add_source`, `lookup_*`, `for_each` | filled by the registration handlers, read by the switch and by queries |
| Switch, `AudioPath::Switch` (`audiopathswitch.cc`) | selected source, active player, pending activation | `activate_source`, `release_path`, `complete_pending_source_activation`, `cancel_pending_source_activation` | calls players (`Activate`, `Deactivate`) and sources (`Selected`, `SelectedOnHold`, `Deselected`) and waits for their answers |
| Appliance, `AudioPath::Appliance` (`appliance.cc`) | power state and audio state, each yes, no or unknown | setters; a repeated suspend is reported as "no change" | set by `SetReadyState`, read by `RequestSource` |
| Switching handlers (`dbus_handlers.cc`) | the queue of `RequestSource` calls that wait for the appliance | `RequestSource`, `ReleasePath`, `SetReadyState` | call the switch, answer callers, emit `PathActivated`, `PathReactivated`, `PathDeferred` |
| Registration handlers (`dbus_handlers.cc`) | registrations whose proxy is being created | `RegisterPlayer`, `RegisterSource`, and their bottom halves | GLib creates proxies asynchronously and calls back; emit `PathAvailable` |
| Query handlers (`dbus_handlers.cc`) | none | `GetPaths`, `GetCurrentPath`, `GetActivePlayer`, `GetPlayerInfo`, `GetSourceInfo`, `GetState` | read only; the two `Get...Info` read the proxy of the component |
| Connection (`dbus_iface.cc`) and main (`tapswitch.cc`) | bus name, main loop, signal sources | `dbus_setup`, `bus_acquired`, `name_acquired`, `name_lost`, `signal_handler`, `dbus_shutdown` | handlers may run as soon as the name is acquired, and until the main loop returns; signals end the loop or the process |
| Players and sources (other processes) | what they were told last | handle calls, crash, restart, register again | outside the repository |

What is hard in it:

- A switch of the path is up to four calls to other processes, and each may
  fail after the others have taken effect.
- A call may time out although the process handles it later.
- A process may crash and come back under the same ID.
- `RequestSource` calls are held back while the appliance is not ready, and
  overlap with other requests, releases and changes of the appliance's state.
  The one pending activation (in the switch) and the queue of calls (in the
  handlers) are separate pieces of state that must agree.
- Lookups and results of earlier calls are used without a check, on the
  strength of checks made in earlier calls.
- Proxies are created asynchronously, so that registrations may be finished
  in any order, or fail, or be overtaken by a restart of the process.
- A process that registers waits for the daemon, and the daemon waits for
  the processes it calls: they may wait for each other.
- The daemon itself may end, be killed in the middle of a handler, and start
  again with nothing, while the processes still believe what they were told.

`PROJECT.json` lists each hazard with its line and the properties that cover
it, or the reason why none does.

What makes each component correct: the registry never loses or rewires a
path and lists each component; the switch always has a complete path selected
or pending, or none, and makes its calls in an order that keeps the device
exclusive; the handlers answer every call, answer it truthfully, and let
observers follow the route by signals; the whole keeps two players from
using the device at the same time and calls nobody whose registration it has
not answered; and the daemon ends when it is told to and does not take its
predecessor's state for its own.

## The modules

    AudioPath  <-  AudioPathSwitch  <-  TAPSwitch            D-Bus handlers
                                    <-  AudioSystem          other processes
               <-  Registration                              both halves of registering

    AudioSystem  <-  RegisteringSystem                       with both halves of registering
                 <-  AudioService                            with the life of the daemon

    AudioPathSwitch  implements  AudioRoute
    AudioSystem      implements  AudioDevice
    RegisteringSystem  implements  AudioSystem

`A <- B` is "B extends A".  `XProofs` extends `X` and holds its theorems;
the proofs follow the modules:

    AudioPathSwitchProofs  <-  TAPSwitchProofs  <-  TAPSwitchAnswerProofs   answers, signals
                                                <-  TAPSwitchLivenessProofs handlers finish
                           <-  AudioSystemProofs  <-  RegisteringSystemProofs
                                                  <-  AudioServiceProofs
    RegistrationProofs

- **AudioPath** is the registry.  The maps are functions with `None` for an
  ID that is not in the map.  The operators have the names of the C++
  functions; `StoredPlayerOf` is the one subtle thing in `add_item()`:
  registering a source again replaces its proxy, not its player.
- **AudioPathSwitch** is `AudioPath::Switch`.  A member function is a chain
  of steps: the part before its first D-Bus call (`ActivateSource`,
  `ReleasePath`, `CompletePending`, `CancelPending`), then for each call one
  step that makes it (`CallDeselected`, `CallDeactivate`, `CallActivate`,
  `CallSelected`, `CallCanceled`) and one that handles its return
  (`DeselectedReturned`, ...), then `Return`.  `pc` is the location, `frame`
  the parameters and locals, `call` the call the daemon waits for.  The
  helper functions are shared between member functions as they are in the
  code.  `Register` stands for the registration handlers, which run between
  member functions only.  Calling through a null proxy ends in
  `pc = "crashed"`.
- **AudioRoute** is the abstract specification of the switch: a player, and a
  selected or held-back source, with one rule: the player is stopped or
  started only while no source is selected or held back.
- **TAPSwitch** adds the handlers to the switch.  A handler begins with a
  member function and ends with a `Finish...` action when that has returned,
  which contains all that the handler does afterwards (answer, fail the
  queued calls, enqueue, emit a signal).  The queries are operators: what
  they would answer in the current state.  `calls` records what became of
  each invocation; an invocation that is answered can be used again, so that
  runs are unbounded.
- **AudioSystem** puts the switch together with the processes it calls.  A
  process has incarnations (`life`), each with its own proxy, remembers what
  it was told last (`told`), and handles calls in the order they were made.
  A call returns because the process answers it (`PeerAnswers`), because the
  process is gone (`PeerGone`), or because the daemon gives up (`TimesOut`);
  in the last case the process finds the call later (`HandleLate`).  The
  processes are external; they do what the calls and the README require.
- **AudioDevice** is the abstract device: taken only while free, or while it
  has no more users than there were timeouts.
- **Registration** is the asynchronous part of registration, with an observer
  who calls `GetPaths` and then follows `PathAvailable`.
- **RegisteringSystem** takes registration apart in the composed system: a
  process calls `RegisterPlayer` or `RegisterSource` (`BeginRegistration`),
  the daemon creates the proxy meanwhile, and finishes the registration
  between two handlers (`RegistrationDone`).  The process may crash, restart
  and register again in between, and a process that runs may register as often
  as it likes, also when it is registered already (audiopath.cc:66).  Proxies
  may be created in any order among different IDs.  A process that waits for an
  answer may or may not handle calls; if it does not, they time out
  (`TimesOut`).  `answered` is a history of who has been answered.
- **AudioService** is the life of the daemon around `AudioSystem`.  `stage`
  says how far `main()` has got.  `Serving` tells when handlers may run: from
  the last iteration of the loop in `dbus_setup()`, together with
  `name_acquired()`, to the last iteration of the main loop, after
  `signal_handler()` has told it to quit.  `End` is what is left when the
  process is gone, whatever the reason: nothing of the daemon's state
  (`Forget`), everything of the others', and the call that was under way,
  which is delivered all the same.  `orphans` are the processes that have
  heard from an earlier daemon last.  `Fragile` processes may be registered
  with a null proxy, so that the daemon may also end by a segmentation fault.
- **MC...** modules give the constants their values for TLC.

Definitions named `X_Something` before a definition `X` are mutants: the
definition with a plausible bug, which the property named in `PROJECT.json`
detects.  They are not part of any specification.

### Abstractions

- IDs, proxies, request data and invocations are model values.  Request data
  is only ever forwarded; that the right data arrives is a matter of
  identity, not of content.
- Names of components, object paths, wording of errors and all logging are
  left out.
- A handler's answers, signals and changes of state after the switch has
  returned are one step: nothing else runs in the daemon, and other
  processes cannot tell the order of messages to different receivers.
- `signal` is the last signal that was emitted.
- Registration is one step (`Register`) in `AudioPathSwitch`, `TAPSwitch`,
  `AudioSystem` and `AudioService`.  `Registration` has its two halves for
  observers, `RegisteringSystem` has them for the switch and the processes;
  that the latter implements `AudioSystem` is why one step is enough there.
- The owners of an ID come one after the other.
- A process that owns several components (README:43) is several elements of
  `Process`.  They crash, restart and handle their calls independently, which
  includes that they do so together.
- GLib and the bus finish the proxies for one ID in the order of its
  registrations.  Nothing in the daemon checks this: the registry takes
  whichever proxy comes last (audiopath.cc:68).  It is an assumption, which is
  why `NotOlder` (`AudioSystem`) and `Created` (`RegisteringSystem`) are
  external in the map of `PROJECT.json`.
- A player that is told to deactivate itself does not use the device
  afterwards, whether it answers with success or with an error, because
  README:37 requires that it releases the device before the call returns
  (`Meaning`).  So `Exclusive` says nothing of a player that refuses to stop.

## The runs

All instances have two players.  Two players are needed for a switch to
replace one by the other, and no action involves more than the previous and
the next one.  Three sources allow for one that is selected or pending, one
that is requested on the same player, and one on the other player.

| Run | Instance | Shows |
|---|---|---|
| MCAudioPathSwitch | 3 sources, each wired to either player; 2 kinds of data | types; a selected and a pending source exclude each other; the route is always a registered path; unchecked lookups succeed; the calls of a switch come in order; the inductive invariant; the switch implements AudioRoute |
| MCTAPSwitch | 3 sources, 3 overlapping calls, 2 kinds of data, symmetric in calls and data | an activation is pending only while the appliance may not play; the queue matches the pending activation; no call is forgotten; signals track route and player; no unexpected result; answers are truthful |
| MCTAPSwitchLive | 2 sources, 2 overlapping calls, no symmetry | no handler is ever stuck; every handler finishes; every `RequestSource` call is answered if the appliance may play again and again |
| MCAudioSystem | 1 source per player; one player and its source may crash once; up to 1 timeout | at most one player may use the device; it is free in between; processes believe what the switch believes; each timeout makes at most one exception; the switch is never ahead of the processes |
| MCRegisteringSystem | 1 source, which names either player whenever it registers; one player may crash twice; up to 2 timeouts; all may register again at any time | nobody is called before its registration has been answered; the switch is never ahead of the processes; registering in two halves implements registering in one step |
| MCAudioService | 2 players, 1 source that names either, the source may crash for good; the daemon ends and starts again for ever | a process that believes something the daemon does not has heard from an earlier daemon last; a daemon never takes for its own what an earlier one did; it ends when told to |
| MCRegistration | 2 sources, 2 players, each source for either player, 2 overlapping registrations | an observer misses no path; paths are never lost or rewired; every component is listed |

The other runs each find one property violated (see Findings).

Bounds: `MaxLives` (2: one restart, which is what tells a stale proxy from a
current one; 3 in `MCRegisteringSystem`, where proxies of several incarnations
may be in creation together), `MaxTimeouts` (0 to 2: one late call, and, in
`MCRegisteringSystem`, one while another is still in the inbox) and `MaxInbox` (1: how many processes may have a call of
an ended daemon to handle when the daemon is killed waiting for another).  The
number of overlapping invocations is the size of `Invocation`; everything
else is unbounded, and all state spaces are explored completely
(`MCRegisteringSystem` has 2.9 million states).
In `MCAudioService` no process comes back: restarts of processes and of the
daemon are separate causes of the same state, a process that does not believe
what the daemon does, and the former are what the runs of `AudioSystem` are
for.
`Fragile` is its source, which is enough for a null proxy to be used by a
query and by each kind of call to a source.

No run disables the deadlock check: the daemon can always take another
request, or is waiting for a call, which always ends, or is off and can be
started.  A use of a null proxy (`pc = "crashed"`) is the violation in
`MCAudioPathSwitchNullProxy`, and one of the ends of the daemon in
`MCAudioService`; the other instances have no null proxies.

### Properties in brief

- `SourceXorPending` is what `deselect_source()` and `activate_source()`
  assert (audiopathswitch.cc:86 and 191).
- `PathIntact` and `LookupsSucceed` are why the unchecked lookups are safe:
  components are never removed, and a source keeps its player.
- `CallsInOrder` and `ImplementsRoute` are the protocol: deselect the old
  source, stop the old player, start the new player, select the new source.
- `PendingOnlyWhileBlocked` is a fact `RequestSource` relies on silently: a
  request for the source that is already pending returns a "deferred" result
  whatever the appliance's state, and if the appliance were ready, the call
  would be neither answered nor queued.
- `QueueMatchesPending`, `NoRequestLost`, `AnswersTruthful` and
  `DeferredAnswered` are what a caller of `RequestSource` cares about.
- `SignalTracksRoute` is what an observer cares about.  It holds in one
  direction for deferred signals: what is on hold was announced last, but
  canceling it on suspend, or by a request for an unknown source, is not
  announced.  `SignalTracksPlayer` does the same for the queries: the player
  in the last signal is the one that `GetActivePlayer` names, or
  `GetCurrentPath` has no path to show.  The exception is needed: a player that
  has failed to activate is named as well (see below), and an observer cannot
  tell from the signal.
- `Exclusive`, `ImplementsDevice`: the purpose of the daemon.  It depends on
  players that answer in time; each timeout makes up for one user too many.
- `ProcessesBelieveSwitch` and `SwitchBelievesProcesses` relate the switch to
  what running processes were told.  The former is why `Exclusive` holds, and
  has the same exception: each call that times out leads at most one process
  astray.  The latter has none.
- `AnsweredBeforeCalled`: the daemon calls an incarnation only when it has
  answered a registration of it.  ChangeLog:57 says that creating proxies
  asynchronously was to avoid a deadlock; this is how far it does.  A process
  that waits for its *first* answer is never called, so neither waits for the
  other.  One that has been answered and registers again, or registers another
  component, may be called while it waits; if it does not handle calls then,
  both wait until D-Bus's timeout.  The code does not prevent that.  For the
  daemon it is a call that times out, as any other.
- `ImplementsSystem`: registering in two halves behaves as one step does.
  Given the order in which proxies are created, the registry never returns to
  an earlier incarnation of a process.  It is the daemon's part not to enter a
  component before its proxy has been created.
- `BelieveOrOrphaned` is what is left of `ProcessesBelieveSwitch` when the
  daemon may end at any time, and `ToldByThisDaemon` what
  `SwitchBelievesProcesses` becomes.  `Exclusive` does not survive
  (finding 3).
- `HandlerCanGoOn` is why `HandlersFinish` holds: whatever path a handler has
  found and whatever its calls have returned, there is a next step for it.  It
  is stated with `ENABLED`, whose value only TLC knows; that the guard of a step
  is true is also proved.
- `SignalHonoured`: a running daemon that is told to terminate does so.

### Fairness

`TAPSwitch` assumes weak fairness of `HandlerStep`: a handler that has begun
goes on.  It only ever waits for synchronous D-Bus calls, and these end with
an answer, an error or GLib's timeout.  Nobody is assumed to call the daemon.
`DeferredAnswered` has the assumption `[]<>Allowed` in the property: a
deferred call is answered when the appliance gets ready, or by other requests,
but nothing forces either to happen.

`AudioService` assumes:

- weak fairness of `HandlerGoesOn` and `SegmentationFault`, for the same
  reason;
- strong fairness of `SignalHandler` and `Shutdown`: they are possible only
  between two handlers, and GLib's main loop dispatches all sources that are
  ready, and looks whether it shall return, in every iteration, which runs
  finitely many handlers;
- weak fairness of `HandleLate` for each process: a process gets to its calls.

Nobody is assumed to start the daemon, to call it, or to send it a signal.
The other specifications are about safety only and have no fairness.

## Proofs

### The switch

`AudioPathSwitchProofs` proves, for any sets of sources, players, proxies,
data and any wiring, and also if proxies may be null:

- `SwitchTypeCorrect`: `SwitchTypeOK` is an invariant
- `SourceXorPendingAlways`, `PathIntactAlways`, `LookupsSucceedAlways`,
  `CallsInOrderAlways`, `SwitchInvAlways`: so are the safety properties of
  the switch
- `SwitchImplementsRoute`: the switch implements `AudioRoute`.

Assumptions (named in the modules that declare the constants): `None` is no
ID, proxy or data (the empty string cannot be registered); `NullProxy` is not
a proxy; `ProxyOutcome` and `Wiring` have the right types.

The argument: none of the properties is inductive, because a member function
is interrupted at every D-Bus call and goes on with what it found out before
the call.  `SwitchInv` says what it relies on at each location (`AtDeselect`,
`AtPlayers`, `AtActivate`, `AtSelect`, `AtCancel`): for instance, at
"activate" there is no active player, nothing is selected or pending, and the
path in the frame is complete.  `InitInv` and `NextInv` show that
`Inv == SwitchTypeOK /\ SwitchInv` is inductive, with one lemma for each group
of actions; TLC checks `SwitchInv` as well.  Every theorem follows from `Inv`.
For `SwitchImplementsRoute` the refinement mapping is the identity on the
registry, the active player and the selected source, and `held` is the pending
source; each step is a step of `AudioRoute` whose guard is in `SwitchInv`, or
changes nothing that `AudioRoute` sees.  `RouteIsConsistent` shows that the rule
of `AudioRoute` is worth implementing: whoever follows it always has the player
of what is selected or held back active.

`StepsRunOut` proves that no member function loops: `StepsLeft` counts how many
steps it still may take, each step leaves fewer, and nine are the most.

`PeersCanBeCalledUnlessNull` is the other half of the finding about null
proxies: if no registration stores a null pointer (`NullProxy \notin
ProxyOutcome`), none is ever called, so that checking for it when registering
would be enough.  That the registry holds no null pointer (`NoNullPeer`) is one
part of the argument; the other is that each call is made through the result of
a lookup that finds a registered component (`InvLookups`).

### The handlers

`TAPSwitchProofs` proves, for any number of overlapping invocations, besides
what the switch's theorems are for:

- `TypeCorrect` (`TypeOK`)
- `PendingOnlyWhileBlockedAlways`, `NoUnexpectedResultEver`,
  `NoRequestLostAlways`, `QueueMatchesPendingAlways`.

The argument: every step of `TAPSwitch` is a step of the switch or leaves the
switch alone (`TapStepIsSwitchStep`), so that `Inv` holds here as well.  Then,
each on top of the ones before:

- `PolicyInv` and `ResultInv` connect the appliance with the switch: an
  activation is pending only while the appliance may not play, the frame's
  `select_now` is what the appliance allows, and a "deferred" result means
  that it did not.  The appliance cannot change meanwhile, since
  `SetReadyState` is a handler, too.
- `HandlerInv` says that the invocation that is being handled is open, and
  of the method that has called the switch.
- `QueueInv` says what the queue and the result have to do with each other
  *while* the switch is under way: `QueueMatchesPending` is about the time
  between two handlers only, and is broken and restored by every handler that
  cancels or replaces what is on hold.  `QueueOpen`: what is queued is open,
  once, and not being handled.  `RouteQueue`: the part of the queue that a
  request or release will keep waits for what is on hold now.  `ReturnInv`: a
  request returns with something on hold exactly if it is to be queued.
  `ReadyQueue`: `SetReadyState` has taken from the switch what was on hold.

`TapStepIsSwitchStep` also gives `TapImplementsSwitch` (`Spec => SwitchSpec`),
which carries `ImplementsRoute` and `StepsRunOut` over to the handlers
(`TapImplementsRoute`, `HandlersRunOut`).  `NobodyWaitsWhileAllowed` is what
follows from `QueueMatchesPending`, `PendingOnlyWhileBlocked` and
`NoRequestLost` together: while the appliance may play, nobody who has requested
a source is unanswered between two handlers.

`TAPSwitchAnswerProofs` proves what callers and observers are told:

- `AnswersTruthfulAlways` (`AnswersTruthful`, about every step)
- `SignalTracksRouteAlways`, `SignalTracksPlayerAlways`.

A handler answers and emits its signal after the switch has returned, from the
result and from its own variables; the properties are about the route.  Three
invariants, on top of those above, connect them:

- `OutcomeInv`: what a result says of the route when a member function returns
  it (`ActivateOutcome`, `CompleteOutcome`).  It is inductive with a few facts
  about the way there: a source that is being selected is on the active player,
  a request that switches is not for what is selected or on hold already.
- `QueueSource`: the calls in the queue have asked for what is on hold or is
  being completed, also while `SetReadyState` has taken it from the switch.  So
  one answer is right for all of them.
- `SignalInv`: the last signal tells the route (`Tracks`) whenever the handler
  that is running might end without one (`Silent`): whatever does not announce
  anything has changed nothing a signal would have told.  `SignalTracksRoute` is
  broken in the middle of every switch, and restored by its signal.

### Registration

`RegistrationProofs` proves, for any number of overlapping registrations,
`RegistrationTypeCorrect`, `PathsOnlyGrowAlways`, `EveryPathKnownAlways` and
`EveryComponentListedAlways`.  `EveryPathKnown` and the types are inductive
together, because a registration completes only the paths it announces
(`AddPlayerPaths`, `AddSourcePaths`): a player completes those of the sources
that name it, a source its own, and a source that registers again none.

### The processes

`AudioSystemProofs` proves, for any sets of sources and players, any set of
processes that may crash, any number of incarnations and any number of timeouts:

- `SystemTypeCorrect` (`SystemTypeOK`)
- `SwitchBelievesAlways` (`SwitchBelievesProcesses`)
- `ProcessesBelieveAlways` (`ProcessesBelieveSwitch`)
- `ExclusiveAlways` (`Exclusive`)
- `SystemImplementsDevice` (`ImplementsDevice`).

Assumptions besides those above: source and player IDs differ, proxies are
numbers of incarnations and can be created, and only processes crash.

The argument: every step of the system is a step of the switch or one it does
not see (`SystemStepIsSwitchStep`), so that `Inv` holds here as well.  Neither
direction of "the switch and the processes agree" is inductive:

- That the switch is not ahead of the processes needs `BeliefInv`: a process
  that the switch relies on was told so last *and* has no late call in its
  inbox, since one of those might tell it something else later.  It has none
  because it answers calls in order and has answered the latest; and whenever
  a call to it fails, the switch no longer relies on it.
- That few processes are ahead of the switch needs `ToldInv`: what a running
  process was told, or will be told by a late call, came through the proxy
  that is still the registered one (`ToldThroughRegistered`,
  `LateThroughRegistered`), and calls go through the registered proxy
  (`CallsRegistered`).  So the call that takes it back reaches the process, or
  the process has gone, or the call times out.  `DoubtfulNext` concludes that
  a process that agrees with the switch, and has no late call, stays so unless
  a call to it times out.  `StrayInv` counts the others.

`Exclusive` follows because all players that may use the device are the active
player or have strayed.  For `SystemImplementsDevice`, `NewUser` shows that a
player is told to start only when there is no active player, so that all users
have strayed, or by a late call, so that it is one of those `StrayInv` counts
itself.

`SystemImplementsSwitch` (`SystemSpec => SwitchSpec`) says that all that is
proved of the switch holds among these processes, and `DeviceIsExclusive` that
the rule of `AudioDevice` alone implies `Exclusive`.
`NobodyStraysWithoutTimeouts` is what remains of both if no call has timed out:
crashes and restarts alone mislead nobody, neither players nor sources.

### Registering in the system

`RegisteringSystemProofs` proves, for any number of crashes and timeouts,
`RegisteringTypeCorrect`, `RegisteringImplementsSystem` (`ImplementsSystem`),
and, carried over through that, `RegisteringSwitchBelieves`,
`RegisteringProcessesBelieve`, `RegisteringExclusive` and `RegisteringSwitchSafe`
(`SwitchSafe`, the safety properties of the switch), which are theorems of
`AudioSystem` and of the switch; and `AnsweredBeforeCalledAlways`.  The key is
`CreationInv`: the incarnation whose proxy is being created is not older than
the registered one, which is why finishing a registration is a registration of
`AudioSystem` (`NotOlder`); and what is registered has been answered, and calls
go to what is registered (`CallsRegistered`).  The former rests on the order in
which proxies are created (`Created`), which is assumed.

### The life of the daemon

`AudioServiceProofs` proves, for any number of lives of the daemon, for ends at
any time, also in the middle of a call, and for any set of processes that may be
registered with a null pointer:

- `ServiceTypeCorrect` (`ServiceTypeOK`)
- `ToldByThisDaemonAlways` (`ToldByThisDaemon`)
- `BelieveOrOrphanedAlways` (`BelieveOrOrphaned`)
- `ExclusiveButOrphans`: what is left of `Exclusive`; among the players that have
  heard from this daemon last, at most one may use the device, and one more for
  each call that has timed out
- `ServiceSwitchSafe`: the safety properties of the switch (`SwitchSafe`), until a
  null pointer is used
- `ServicePeersCallable`: none is used, by calls or by queries, if no process is
  `Fragile`.

Assumptions besides those of the system: `Fragile` processes are processes, and
`MaxInbox` is a number.

While the daemon lives, it takes the steps of `AudioSystem`
(`WorkIsSystemStep`); when it ends, the switch is as at the start, and the
processes are not (`EndForgets`).  What differs from the system:

- `ServiceInv` has `SwitchInv` only while the daemon has not crashed: a query
  that uses a null pointer leaves the switch as it was, at no location.
- `ServiceBelief` is `BeliefInv`, and that the switch relies on no orphan: it
  relies on a process only after that has answered a call of this daemon, which
  is when it stops being an orphan (`WorkOrphans`).
- `ServiceTold` is `ToldInv` without the orphans: for the others, what they were
  told came through the proxy that is still registered, *or* there is a null
  pointer in its place, so that the call that would take it back ends the daemon
  and makes them orphans (`HeardThroughRegistered`).
- `ServiceStrayInv` counts those who are neither orphans nor of one mind with
  the switch, as `StrayInv` does.

### Liveness

The prover knows neither the value of `ENABLED` nor induction.  The argument for
liveness needs little of the first and none of the second: that the guard of some
step is true wherever a handler is, is an invariant and is proved; `StepsLeft` is
bounded by a number; and the rest is temporal logic.  What stands in the
hypotheses is that a step is `ENABLED` where its guard is true.  It is so because
each action says what all variables become; TLC checks the same with `ENABLED`,
as `HandlerCanGoOn`.

`TAPSwitchLivenessProofs`, for any number of sources, players and calls:

- `HandlersNeverStuck`: if proxies are not null, then while a handler runs, the
  guard of one of its steps is true (`HandlerGuard`).  It needs the invariant of
  the handlers: the results of the switch are of the function the handler has
  called, and the switch is at a location that has a next step.
  `HandlerCanGoOnByItsGuard` concludes
  `Spec /\ []GuardsSuffice => []HandlerCanGoOn`, where
  `GuardsSuffice == HandlerGuard => ENABLED <<HandlerStep>>_vars`.
- `HandlersFinishIfTheyCanGoOn`: `Spec /\ []HandlerCanGoOn => HandlersFinish`.
  By the weak fairness of `Spec`, a handler that can always go on does
  (`HandlersGoOn`), has fewer steps left then, and so comes to its end
  (`WithinShrinks`, `IdleAgain`).  `HandlersFinishByTheirGuards` has
  `[]GuardsSuffice` in place of `[]HandlerCanGoOn`.
- `DeferredAnsweredIfHandlersCanGoOn`, `DeferredAnsweredByGuards`: the same for
  `DeferredAnswered`.  Who waits when the appliance may play does not any more
  when the handler that runs then has finished (`WaitsForAppliance`, the lemma of
  `NobodyWaitsWhileAllowed`), and the appliance does not change meanwhile
  (`ApplianceWaits`).
- `ReleasesAnswered`: `ReleasePath()` is answered without any assumption about
  the appliance, because such a call is never queued (`ReleaseIsHandled`).

With null proxies neither `HandlerCanGoOn` nor `HandlersFinish` holds, since the
daemon crashes.

`AudioServiceProofs`, for any number of processes, ends and starts:

- `SignalHonouredIfHandlersGoOn`: `SignalHonoured` from the strong fairness of
  `ServiceSpec`, if no handler stays at the same step for ever
  (`SwitchGoesOn`), and the main loop can take the steps whose guards are true
  (`LoopCanTurn`).  `ServiceStepsRunOut` is the counterpart of `StepsRunOut`.
- `SignalHonouredIfInboxesAreRead`: `SwitchGoesOn` follows from
  `[]<>~Blocked` and `[]ServiceGuardsSuffice` (`ServiceGoesOn`).  A handler can
  wait only for a process whose inbox holds calls of an earlier daemon, or that
  have timed out (`ServiceNeverStuck`, `Blocked`).  Once it is not blocked it
  stays so until its call has ended (`StaysUnblocked`): nobody else calls that
  process meanwhile, and if it crashes, its inbox is lost.  This needs
  `LateToRunning` from `ServiceTold`.

`[]<>~Blocked` stays a hypothesis: `ServiceSpec` has the fairness for it, that a
process gets to its calls, but that an inbox of any length gets empty is an
induction over its length.  On the instance of `MCAudioService` TLC finds that
handlers do get blocked, and that `[]<>~Blocked` and `[]ServiceGuardsSuffice`
hold; they are not among the runs, because the run of `SignalHonoured` shows what
they are for.

### Not proved

Of the properties that hold, two things are left to TLC: that steps are `ENABLED`
where their guards are true (`HandlerCanGoOn` and, as part of `SignalHonoured`,
`ServiceGuardsSuffice`), and that inboxes are read to their end while the daemon
waits (`SignalHonoured`).  No module has recursive definitions.

The runs with a counterexample check properties that do not hold there.
`Exclusive` is a theorem of `AudioSystem`, where the daemon does not restart, and
`PeersCanBeCalled` one where no proxy is null; `PlayerReadyWhenSelected`,
`ReadyStateAnswered` and `KnownPathsExist` hold nowhere.

## Findings

Disagreements between the code and what the repository says of it, each found
by a run whose property fails:

1. **MCAudioPathSwitchNullProxy** (`PeersCanBeCalled`).  A component whose
   proxy could not be created is registered with a null pointer, and its
   registration is answered with success.  The first call to it crashes the
   daemon.
2. **MCTAPSwitchReadyStateAnswered** (`ReadyStateAnswered`).  `SetReadyState`
   is never answered if the source on hold fails to be selected.
3. **MCAudioServiceExclusive** (`Exclusive`).  A regular shutdown tells
   nobody; the next daemon starts with an empty state, has no active player to
   stop, and tells another one that it may take the device.
4. **MCAudioSystemPlayerReady** (`PlayerReadyWhenSelected`).  A player that
   restarts and registers again is not activated again.
5. **MCRegistrationKnownPaths** (`KnownPathsExist`).  `PathAvailable` names
   the wrong player if a source registers again for another one.

Met on the way, without a run:

- After a single timeout two players may have been told last that they may
  use the device: a player that does not answer `Activate` or `Deactivate` in
  time is treated like one that has refused (audiopathswitch.cc:71).  That is
  why `Exclusive` counts timeouts.
- TAPSwitch's README:69 says that the activation of the player is deferred
  while the appliance is not ready; the code activates the player at once and
  defers the selection of the source (audiopathswitch.cc:247).
- A pending activation that is canceled because of an unknown or empty source
  ID is not announced to the source on hold, while all other cancelations are
  (audiopathswitch.cc:182 and 230).
- `PathActivated` names the requested player after that player has failed
  (dbus_handlers.cc:516).
- `GetState` encodes the audio state differently from `SetReadyState`
  (dbus_handlers.cc:953).
- `GetPlayerInfo` and `GetSourceInfo` also use a proxy that may be null
  (lines 664 and 691).
- `name_lost()` sets a flag that nobody reads after startup
  (dbus_iface.cc:145): a daemon that loses its name stays in its main loop.

## Not modelled

- `tapswitch.cc`: parsing the command line, usage, becoming a daemon, setting
  up the log.  They happen once, before any state exists.
- The debug logging interface of `dbus_handlers.cc`, which sets a log level.
- Losing the bus name after startup, since nothing depends on it; losing the
  bus is `SignalArrives`, since GLib raises SIGTERM then.
- The D-Bus interface descriptions and utility classes in the submodules,
  which the repository does not contain; unit tests and build files.
- The caller's side of a request or registration: a process that calls
  `RequestSource` synchronously, or registers again, and is called by the daemon
  meanwhile.  Whether that is a circle depends on the process, which the
  repository says nothing of; the daemon sees a call that may time out.
- A player that refuses `Deactivate` and keeps the device.
- Two live processes with the same ID.
- GLib creates a proxy also for a process that has gone meanwhile; it does
  not fail then, which is why only `Fragile` processes get null proxies.

## Plan

Done, in this order because the switch is the core and everything rests on
it: AudioPath, AudioPathSwitch with AudioRoute, TAPSwitch, AudioSystem with
AudioDevice, Registration; proofs for AudioPathSwitch and AudioSystem;
RegisteringSystem, AudioService and the queries; proofs for TAPSwitch,
Registration and RegisteringSystem; proofs for answers, signals and AudioService,
of the temporal part of the liveness properties, and that guards are true where
liveness needs them.

What could come next:

1. `RegisteringSystem`: that a registration that has begun, and whose process
   stays, is finished, and what of `AudioService` carries over to registering in
   two halves.
2. The caller of `RequestSource` as a process that may itself be called.
