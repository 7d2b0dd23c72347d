# A TLA+ model of flipper-cc-monitor

The program lets a Flipper Zero approve the tool calls of a coding session. A hook asks a local
bridge before a tool runs; the bridge shows the call on the Flipper, which has reached it through a
WiFi dev board or through a relay in the cloud, and sends the hook what was pressed. The models are
about one question: does every tool call get the answer that was given for it, in time, whatever the
threads, the networks and the timeouts do?

## 1. The system

| Part | State | Operations | Talks to |
|---|---|---|---|
| `bridge/main.py`, one thread per request | `state`, `pending`, `ask_seq`, `version`, `last_flipper_poll`, `cloud_flipper_seen` under the condition variable `cond`; the lock `ask_serial`; the event `cloud_dirty`; `last_alert`, `alert_q` | `GET/POST /state`, `/ask`, `/decision`, `/health`; the thread `cloud_pusher`; the thread `alert_worker` | hooks and Flipper call it; it calls the relay and `flip_alert.py` |
| `hooks/cc-ask.sh` | none: one `curl`, an exit code | `POST /ask`, 100 s at most | bridge |
| `hooks/cc-state.sh` | none | `POST /state` in the background | bridge |
| `cloud/worker.js`, a Durable Object | `s`, `decision`, `version`, `lastFlipper`, `waiters`, all in memory | `PUT/GET /state`, `GET /decision`, with and without `take` | bridge and Flipper call it |
| `app/cc_monitor.c`, a UI thread and a worker thread | `App` under `mutex`: `pending`, `ask_id`, `conn`, `fails`, `decision`; the worker's thread flags | keys; poll `GET /state`; send `GET /decision` | bridge or relay, over the UART client |
| `app/flipper_http/`, a receive thread and a timer | `FlipperHTTP`: `state`, `started_receiving`, `status_code`, `last_response`, the timer; no lock | send a command, receive a line, time out | the dev board |
| dev board firmware | external | answers commands in lines | bridge or relay |
| `tools/flip_alert.py` | the LEDs of a Flipper on USB | one pattern per alert | called by the bridge |
| `tools/` (serial utilities), set-up and build files | none of the gate's | | |

What is hard about it, and what must hold in spite of it:

- **bridge**: an ask holds `ask_serial` while it gives `cond` away twice, to wait and to call the
  relay. There must be one pending decision at a time, its first answer must stand, its reply must
  be that answer or the timeout's deny, and everything that is shown must wake the pollers. Every
  ask must end, and an exception that ends one thread must not stop the asks behind it. The hook's
  clock and the bridge's start at different moments.
- **relay**: two threads push to it over connections that overtake each other; it can be evicted; it
  stores a decision until somebody collects it. What is collected must have been accepted while the
  relay showed the ask that is pending, and the mirror must catch up.
- **app**: two threads and a request that can fail after it was carried out. A key must count once,
  a new prompt must buzz, an ask must get to the screen, the app must be able to exit.
- **UART client**: three threads and no lock; replies without a number. A reply must be read as the
  reply to its own request, and no wait may hang. The client is built and freed while its receive
  thread and timer run.
- **USB alerts**: `alert()` is called with and without `cond`, reads the status again after it was
  set, and shares `last_alert` without a lock; bursts are thinned out; the script may fail. The last
  of a burst must be played, the status posted last be announced, and the lights tell the truth.

## 2. Modules

`Gate.tla` is the abstract specification: asks are shown one at a time, the first press is the
verdict on the ask that is shown, no press is a deny, verdicts are final. With a relay (`Remote`) a
verdict may also have been collected there, and an ask can be lost without one (`Drop`), which is
what an exception in a call to the relay does; without a relay an allow needs a press.

`Bridge.tla` is the bridge with the hook. A thread's work under `cond` is one action. `pc[a]` says
where the handler thread of ask `a` is: `queued` on `ask_serial`, `push` in `cloud_push`, `gate`
before the question whether a Flipper is online, `wait` in `cond.wait`, `take` in
`cloud_take_decision`. `Wake...` and `Take...` are the ways through the body of the `while` loop,
`Close` is the code behind it. `notified` is the set of threads that a `notify_all` has woken and
that have not run since. Times are ages, counted by `Tick`, which waits until nothing is due: a
wake-up takes far less than a second. The relay's replies are free here, and so is how a call fails:
`cloud_request` catches `URLError`, `ValueError` and `OSError`, which is a reply "failed"; what it does
not catch, such as the `http.client.HTTPException` of a response that is cut short, ends the thread.
`AskRaises` is that for a handler thread: `ask_serial` is given back, no reply is sent, `pending` stays
as it is. `PusherRaises` is it for `cloud_pusher`, which nothing but a restart brings back. `inTime`
is a history variable, the asks that were shown while `curl` still had the longest showing left. `status`
is kept, the `detail` texts are not.

`Mailbox.tla` is the relay's object. `screen` is the state each Flipper got with its last poll, and
`decision.shown` remembers, for the properties, which ask the relay showed when it took a decision; the
number a decision is stored with is the one the Flipper sent. `CloudSync.tla` extends `Bridge` and `Mailbox` and conjoins
their actions with the calls: `Send` when a thread of the bridge calls, `Serve` at the worker,
`Answered` or `Fails` back at the thread, together with the `Bridge` action that follows. A call
that failed, or whose thread died with the bridge, may still be served (`late`). `missed` is the `version` when
a push was last lost or served late, or the relay evicted. A press at the relay (`BoxPress`) carries
the number on the Flipper's `screen`, as `send_decision` does, which the relay may no longer show.

`FlipperHTTP.tla` is the UART client and what the app's worker does with it: `Begin...`,
`Transmit`, `Sent`, `Return`, `Parse` are the stretches of `http_do`, `board_ping` and `poll_state`
between which the receive thread (`RxLine`, one action per line) and the timer can run. The board is
external: it finishes its commands in order, in its own time, with an error, or never.

`UartLife.tla` extends it with the UI thread's part: `Make` builds the client piece by piece in the
order of `flipper_http_alloc`, `Free` takes it down in the order of `flipper_http_free`, and in between
the steps of `FlipperHTTP` happen. A thread that uses a piece that is not there crashes the Flipper. The
board may still be busy with a request of the app's previous run (`Leftover`). After EvtStop the worker
may end the round it is in; that it then ends is `MonitorApp`'s `ExitEnds`.

`MonitorApp.tla` is the app against the bridge on the LAN, from its start on: the worker looks for the
dev board (`FindBoard`, and `WakeToPing` when it may be plugged in later), polls and decides. The bridge is an instance of `Gate`, which
`Bridge` implements, plus the number of the ask; so the app is checked against everything the bridge
is proved to be able to do. `http_do` is one request with an outcome.

`Alerts.tla` is `alert()` and its callers, `alert_worker` and the patterns of `flip_alert.py`, with
`CC_USB_ALERTS=1`. Each step between which another thread can run is an action: the store of the
status under `cond`, the up to three reads of it afterwards (`PostMatches`, `PostGoesOn`), the test of
`last_alert`, its assignment, the `put`. Asks follow each other, as `OneAskAtATime` allows; how they end
is free. `lights` are the outputs that are on after the commands played so far; a sleep, and what a
command looks like on the wire, are left out.

`MCBridge`, `MCCloudSync`, `MCFlipperHTTP`, `MCMonitorApp`, `MCAlerts` are the modules TLC runs.
`BridgeProofs`, `BridgeTimingProofs`, `CloudProofs`, `HttpProofs`, `UartProofs`, `AppProofs` and
`AlertsProofs` have the proofs.

Definitions marked `[mutant]` are not part of the model: each is a plausible mistake in the
definition that follows it, and shows that a property would notice.

## 3. Runs

| Run | Shows | Bounds |
|---|---|---|
| `BridgeLocal` | types, `OneAskAtATime`, `AnswerStands`, `ReplyIsThePress`, `ShownChangesBump`, `HeldPollIsOnline`, `PressEndsTheAsk`, `AnsweredInTime`, `EveryAskAnswered`, `ImplementsGate` | 2 asks, 1 poller, 1 crash, ask 2 s, hook 5 s, stale 2 s, poll and slice 1 s, status posts while `version` < 3 |
| `BridgeRelay` | `OneAskAtATime`, `PromptHasListener`, `ShownInTimeIsHeard`, `ReplyIsThePress`, `EveryAskAnswered`, `ImplementsGate`, with a relay that replies anything, fails or raises | 2 asks, ask 2 s, hook 5 s, calls of up to 1 s |
| `BridgeWalkAway` | **violated** `NoSilentRun` | 2 asks, no relay, 90 s and 100 s in units of 5 s |
| `BridgeRaises` | **violated** `NoSilentRun` | 1 ask, `CC_GATE_STRICT=1`, a relay |
| `CloudOvertaken` | **violated** `CollectedWhileShown` | 2 asks, no faults, calls in any order |
| `CloudFaults` | `MirrorCatchesUp` | 1 ask, 1 fault of any kind: a call that fails, caught or not, an eviction, a crash |
| `HttpReplies` | `OwnReplyUnlessLate`, `StartedIsTimed`, `SafeOnceStarted`, `EndsWithTheReply`, `AlwaysReturns` | the timeouts of the code in half seconds, 5 commands and one of the previous run |
| `HttpLate` | **violated** `OwnReply` | the same, nothing left of a previous run |
| `AppPrompts` | `EachKeyCountsOnce`, `EveryPromptBuzzes`, `EveryAskIsSeen`, `ExitEnds` | 2 asks, 2 keys, 2 faults, 1 restart of the bridge, a board that may come late |
| `AppMisapplied` | **violated** `PressIsForItsPrompt` | 2 asks, 1 key, no faults |
| `AlertsAll` | `LatestIsPlayed`, `LastStatusIsTold`, `RedTells`, `EveryAlertIsHeard` | 2 posts, 1 ask, 1 failure of the script |
| `AlertsRed` | **violated** `RedUntilAnswered` | the same, no failure |

`CHECK_DEADLOCK FALSE` is set where the program comes to an end: the app was left (`App...`, `Http...`), or
all posts and asks of the instance are over and the alert worker blocks in `get()` (`Alerts...`).

Why the bounds are enough. Two asks are one that holds `ask_serial` and one that waits for it; a
third waits like the second. The bridge's properties compare ages with limits, so small limits meet every
order of the events that the real ones do, except where two limits are compared with each other. Those comparisons are made in three ways.
`AnsweredInTime`, `PromptHasListener` and `ShownInTimeIsHeard` are stated in the timeouts themselves
and proved for all of them. `BridgeWalkAway` and `HttpReplies` keep the ratios of the code. `BridgeRelay`
has an ask that can be shown for 3 s and a hook of 5 s, so that both happen: the first ask is shown in time, and one that waited behind another, or for a slow push, is not,
and outlives its hook. One crash suffices, since nothing outlives it but what hooks have heard. Five
commands are the ping, the connect, and three requests, one more than a late reply needs. Two posts and
an ask are one post more than a status that changes between two reads of it needs. `MaxVersion` bounds the
status posts only, never a press or an ask.

What the violations say (PROJECT.json quotes the lines they contradict):

- *walk-away*: two tool calls at once, nobody at the Flipper. The second waits for `ask_serial` for
  90 s, so its own 90 s end at 180, but its `curl` ends at 100 with nothing, and `cc-ask.sh` lets the
  tool run.
- *raises*: the response to a push or a take is cut short; nothing catches what `r.read()` raises, the
  handler thread ends, and the server closes the connection without a response. `cc-ask.sh` takes the
  empty answer for an allow, although the bridge is up and strict.
- *overtaken*: `cloud_pusher` reads the state while ask 1 is pending; its call is slow. Ask 1 is
  answered and collected, then the old push arrives and the relay shows ask 1 again. A press on it
  is collected for ask 2. Nothing compares the number that is stored with the decision.
- *late*: the reply to a request that timed out is complete in the wait of the next one.
- *misapplied*: ask 1 is on the screen but over, ask 2 is pending; the press goes to ask 2.
- *red*: an ask is shown, red is on. Another session posts `done`, which `alert()` lets through and whose
  pattern ends with red off; the ask is still unanswered. `RedTells` says what does hold: red is never on
  without a pending ask, and stays on for one until another session announces `done` or `working`.

## 4. Fairness

Safety runs assume none. For liveness: `Tick` (time passes), the handler threads (`HandleAsk`; the
lock is free or will be), the relay calls, the hook's `curl`, held polls; in `FlipperHTTP` the
worker thread and the timer run; in `MonitorApp` the worker thread runs and the bridge serves what
reaches it; in `Alerts` the alert worker runs, since `subprocess.run` has a timeout of 20 s and what it
raises is caught. That a relay call ends, and within `CallLimit`, is an assumption about the relay:
`urlopen(timeout=6)` bounds each operation on the socket, not the call, so a relay that sends a byte
now and then could hold its thread for longer, and the asks behind it with it. Nobody has to press a key,
poll, restart a bridge or answer over the UART. Fairness of `HandleAsk(a)` includes `TakeSerial(a)`:
`threading.Lock` does not promise an order, but each ask is made once, so no thread can be passed for ever.

## 5. Proofs

`BridgeProofs.tla` proves, for any set of asks and pollers, any timeouts and any number of crashes:

- `TypeCorrect`, `OneAskCorrect`: the invariants `TypeOK` and `OneAskAtATime`. `OneAskAtATime` alone is not
  inductive: an ask that nobody has sent must have no thread. `BInv` adds that (`NotAskedYet`), and that
  a thread is in `cloud_push` or `cloud_take_decision` only with `CLOUD_URL` set (`RelayOnly`), without
  which an allow nobody pressed could not be excluded.
  `OtherSteps` covers, at once, the actions that do not touch the ask variables.
- `AnswerStandsCorrect` and `ReplyIsThePressCorrect`: action properties, action by action from `BInv`.
- `ShownChangesBumpCorrect`; `PressEndsTheAskCorrect`, for which `AnswerWakes` says that a thread in `cond.wait`
  is in `notified` as soon as there is an answer: the clock cannot pass it.
- `BridgeImplementsGate`: the refinement. Each action maps to a `Gate` action of the same ask, or
  changes neither `PhaseMap` nor the press; `OnePhase` and `SamePhase` say what a change of `pc` at one
  place does to `PhaseMap`, `GateIsClear` that `Gate`'s "none is shown" follows from holding `ask_serial`.
- `HeldPollCorrect`: `HeldPollIsOnline`, assuming `MaxWait < Stale`, which is 3 < 6 in the code. Here the
  invariant says that a held poll is at least as old as `pollAge`.

`BridgeTimingProofs.tla` adds up the clocks of a queue. Assuming no more than that `Asks` is finite:

- `AnsweredInTimeCorrect`: no hook waits longer than `LongestQueue`, which is `LongestAsk` for each ask.
  `LongestAsk` is the push, the rounds that start before the deadline, the wait of the last one and its take.
  `Over` are the asks whose turn has gone, `Before` is what they may have taken together; `HookClock` says
  that whoever waits has waited no longer than `Before` and what the holder of `ask_serial` has spent so
  far (`HeldFor`, stage by stage). An ask that ends adds one `LongestAsk` to `Before` (`LastStep`); the
  clock itself can run only as far as the holder's own limits allow (`HolderTicks`).

and assuming nothing, for any timeouts and any relay:

- `ShownInTimeIsHeardCorrect` and `PromptHasListenerCorrect`: an ask that is shown while `curl` has more than
  `LongestShow` left keeps its hook for as long as it is shown, and the tool runs only on its answer.
  `HookWaits` says that a hook with a thread and without a reply is still asking unless its time is up;
  `HeardInTime` adds up the rounds from the showing on, as `HeldFor` does from the start.

What that means for the code: without a relay `LongestShow` is 89 + 1 = 90, so a prompt is safe when its
`curl` had waited for less than 10 s. That is so for an ask that finds `ask_serial` free; one that waits
behind a walk-away is shown after 90 s, which is the run *walk-away*. With a relay whose calls take up to
6 s it is 96, so a prompt is safe only if its push took less than 4 s: a single ask with a slow relay can
outlast its hook. `LongestAsk` is 90 without and 102 with such a relay, against `curl`'s 100.

`CloudProofs.tla` proves of `CloudSync`, for any asks, relay clients and timeouts:

- `SyncImplementsBridge`: with its relay the bridge still implements `Bridge`, whose relay replies
  anything, and with it `Gate` (`SyncImplementsGate`); so all of the above holds of the composition.
- `MirrorCatchesUpCorrect`, for calls that overtake each other too and with any number of faults. `Mirrored`: when
  something has changed since the last mishap (`missed`) and `cloud_dirty` is clear, a `cloud_pusher` that sleeps, or whose call was served, leaves a relay that shows what
  the bridge shows; a call of its that is still on its way carries just that. An ask's own push, which comes
  from before the ask is opened, cannot spoil it, since what the ask changes sets `cloud_dirty`.
- `CollectedWhileShownCorrect`, assuming `Ordered = TRUE`: what the bridge collects for an ask was accepted
  while the relay showed that ask, whichever number the press carried. `Staged` follows an ask: while its push has
  not been served, an older prompt that is still on its way is ahead of it; the push, which carries what is
  shown before the ask is opened (`PushesAsIs`), and so nothing pending (`NothingPending`), then clears the
  relay; so nothing is left when the ask is opened, and from then on what the relay holds, or is sent, is this
  ask's. The property speaks of the time until a push is lost or served late, or a relay is evicted
  (`missed = 0`), or a thread is ended by an exception (`NoneRaised`), which leaves its prompt pending; takes may
  fail or be served late all the same (`StageLate`), and the bridge may have died before: what its earlier run
  left at the relay goes with the first push that shows nothing pending, and a push of that run that is still on
  its way is a late one. The run `CloudOvertaken`, which has no faults, shows that the order is needed; no run
  has it.

`HttpProofs.tla` proves of `FlipperHTTP`, for any timeouts and any number of commands:

- `HttpTypeCorrect`, and `StartedIsTimedCorrect`, which is inductive as it stands.
- `OwnReplyUnlessLateCorrect`, `EndsWithTheReplyCorrect`, from every request that is begun with the board done
  (there `Begin` clears `late`) until a wait is cut short. So they speak again of the requests after
  the previous run's leftovers have come, or after a late reply has. What was read being right does not say that
  the next reply will be. `Sync` adds what makes it so while no wait was cut short: the board has at most one command
  left, the one the worker waits for, and `state` says that it waits (`QueueInStep`); the last body
  line belongs to this request (`ReplyInStep`). `LineInStep` is the receive thread's part of it.
- `NeverRefusedCorrect`: the guard of `Transmit` stops no command. `flipper_http_send_data` refuses while the client is
  `INACTIVE`; only a ping makes it so, and no line brings it back.

`UartProofs.tla` proves that `UartLife` implements `FlipperHTTP` (`LifeImplementsHttp`), with it
`LifeTypeCorrect`, `LifeOwnReplyUnlessLate`, `LifeStartedIsTimed` and `LifeEndsWithTheReply`, which are about the specification
the runs check, and `SafeOnceStartedCorrect`: while `flipper_http_free` is at work, as long as a
part exists everything exists that it, or the thread behind it, uses (`LInv`).

`AppProofs.tla` proves of `MonitorApp`, for any asks, keys, faults and deaths of the bridge:

- `AppTypeCorrect`.
- `EachKeyCountsOnceCorrect`. A press is a token that is in `decision`, in the request, at the board
  (`stray`) or with the bridge; `Tokens` says that there are never more of them than presses. It holds
  because `decision` is cleared before it is sent, and a request that failed is not sent again.
- `EveryPromptBuzzesCorrect`. `Numbered`: until the bridge starts over, two prompts with one number
  are of one ask, wherever they are (bridge, reply, screen), so comparing numbers is enough.

`AlertsProofs.tla` proves of `Alerts`, for any posts and asks and any number of failures of the script:

- `AlertsTypeCorrect`. That only the five alerts of the script are queued needs to know which thread sends
  which (`OwnKinds`, `WorkerHas`).
- `LatestIsPlayedCorrect`: the alert got last, or the last in the queue, is the one put last.
- `LastStatusIsToldCorrect`. `StillToTell`: while the status posted last has not been announced, some POST
  is still to read it, at a comparison that is not past it. The thread that stored it is one, until
  another post stores a status; then that thread is.
- `RedTellsCorrect`. `RedIsDue` looks ahead: red, once the alert that plays (`RedNext`) and the last of those
  queued that is no `notify` (`RedAfter`) have been played in full, tells whether an ask is between
  its `pending` and its verdict (`Engaged`) with no other session's `done` or `working` since, as long as no
  alert was lost. What a pattern leaves on is stated in closed form (`After`: the last command to an output
  decides), so the proof needs no induction over the commands.

The proofs assume `BridgeAssumption`, `MailboxAssumption`, `CloudAssumption`, `HTTPAssumption`, `AppAssumption`,
`AlertsAssumption`, which, but for `CLOUD_URL` being set in `CloudSync`, only say what kind of
values the constants are; TLC checks them on every run.

Model-checked only: liveness (`EveryAskAnswered`, `AlwaysReturns`, `EveryAskIsSeen`, `ExitEnds`,
`EveryAlertIsHeard`), which needs ENABLED. Every safety invariant and action property of a passing run
is the statement of a theorem.

## 6. Not modelled

The texts that are shown and their cleaning; `/health`; the relay's token; the
methods, files and websockets of the FlipperHTTP library that the app does not call; drawing and
configuration files; the serial tools; the board's firmware, except for the lines the library expects.
Lights after a death of the bridge are left out: they stay as they are until the next alert.
A relay that another bridge writes to, and a Flipper that changes from bridge to relay, are left out.
`MonitorApp` and `Alerts` have the bridge without a relay, where no thread is ended by an exception.

Reception before the client is complete: `UartLife` has it, as the crash it is (`flipper_http.c:235` to
`266`); `SafeOnceStarted` speaks of what comes after, since the code does nothing to prevent it. A push that failed is
not repeated and an evicted relay is not told again: until the next change the mirror may be wrong, and
`MirrorCatchesUp` speaks of what comes after it; a `cloud_pusher` that an exception has ended is never quiet
again, and the property says nothing of it. A burst that drops the alert which puts the red light out leaves it
on; `RedTells` excepts that (`lost`).

Three things the code does that no property is about, since nothing it could be checked against would hold:

- A press at the relay can be for a prompt that is no longer there. The app sends the number of the ask on
  its screen (`cc_monitor.c:214`), the relay stores it (`worker.js:72`), the bridge compares nothing
  (`main.py:292`): a press on the old prompt decides the ask the relay shows by then. It is the relay's
  side of *misapplied*, and the reason why `CollectedWhileShown` speaks of what the relay showed and not of
  what the Flipper did.
- Blue is said to stay on until the session works again (`README.md:43` of the repository). When an ask comes
  between `waiting` and `working`, `last_alert` is no longer `notify` (`main.py:143`, `147`), the `working`
  that follows sends no alert, and blue stays on while the session works.
- A prompt whose thread was ended by an exception stays pending until the next ask replaces it; a press on it
  is accepted and nobody's.

## 7. Plan

1. `Gate`, `Bridge`, `BridgeTimingProofs`; `Mailbox`, `CloudSync`, `CloudProofs` (done).
2. `FlipperHTTP`, `UartLife`, `MonitorApp` and the proofs of their invariants (done).
3. `Alerts` and its proofs; the timing of a queue of asks; the relay with faults; the client's life;
   exceptions that end a thread, and presses that carry the screen's number (done).
4. Open: the app at the relay, that is `MonitorApp`'s requests served by `Mailbox`.
