------------------------------- MODULE Bridge -------------------------------
(***************************************************************************)
(* The local bridge (bridge/main.py) and the PreToolUse hook that calls it *)
(* (hooks/cc-ask.sh), with USB alerts off, which is the default (alert()   *)
(* returns at once).                                                       *)
(*                                                                         *)
(* ThreadingHTTPServer runs one thread per request.  An ask a \in Asks is  *)
(* one tool call: the hook's curl and the thread that runs handle_ask for  *)
(* it.  The threads share the globals under the condition variable `cond'; *)
(* what a thread does while it holds cond is one action.  The relay in the *)
(* cloud is outside this module: its replies are the parameters of         *)
(* PushReply, TakeAgain, TakeClose and PusherReply, and CloudSync.tla ties *)
(* them to the worker.                                                     *)
(*                                                                         *)
(* Time is discrete: Tick adds one second to the age of everything that is *)
(* being timed, and cannot happen while a thread has something due, since  *)
(* a wake-up takes far less than a second.                                 *)
(***************************************************************************)
EXTENDS Naturals, FiniteSets

CONSTANTS Asks,         \* tool calls, each asked about once
          Pollers,      \* clients that long-poll GET /state?client=flipper
          NoAsk,        \* nobody holds ask_serial
          AskTimeout,   \* ASK_TIMEOUT, 90 s
          HookTimeout,  \* curl --max-time in cc-ask.sh, 100 s
          Stale,        \* FLIPPER_STALE, 6 s
          MaxWait,      \* MAX_WAIT, 3 s
          WaitSlice,    \* the timeout of cond.wait in handle_ask, 1 s
          CallLimit,    \* bound: the longest a call to the relay takes, in seconds
          Strict,       \* STRICT
          CloudUrl,     \* CLOUD_URL is set
          MaxVersion,   \* bound: no POST /state once version gets here
          MaxCrashes    \* bound: how often the bridge process dies

ASSUME BridgeAssumption ==
  /\ NoAsk \notin Asks
  /\ Asks \cap Pollers = {}
  /\ AskTimeout \in Nat \ {0} /\ HookTimeout \in Nat \ {0} /\ Stale \in Nat \ {0}
  /\ MaxWait \in Nat \ {0} /\ WaitSlice \in Nat \ {0} /\ CallLimit \in Nat \ {0}
  /\ Strict \in BOOLEAN /\ CloudUrl \in BOOLEAN
  /\ MaxVersion \in Nat /\ MaxCrashes \in Nat

VARIABLES
  hook,      \* [Asks -> {"idle", "asking", "done"}]: the hook's curl
  heard,     \* what curl printed: "none" yet, "empty" for nothing
  hookAge,   \* how long curl has been waiting
  up,        \* the bridge process runs
  crashes,
  pc,        \* where the ask's handler thread is
  reply,     \* the body it has sent to the hook
  serial,    \* the ask that holds ask_serial
  pending,   \* the decision shown to the Flipper, or NoPending
  askSeq, askAge,      \* ask_seq; time since the pending ask was opened
  stepAge,             \* time the holder of ask_serial spent in its blocking call
  status, version,     \* state["status"], version
  pollAge, cloudAge,   \* time since last_flipper_poll, cloud_flipper_seen
  poll,      \* the long poll each client has open
  notified,  \* the threads in cond.wait that a notify_all has woken
  dirty, pusher,       \* cloud_dirty; where cloud_pusher is
  inTime     \* (history) the asks that were shown with time enough left

hookVars  == <<hook, heard, hookAge>>
askVars   == <<pc, reply, serial, pending, askSeq, askAge, stepAge, inTime>>
shownVars == <<status, version, notified, dirty>>
pollVars  == <<pollAge, poll>>
procVars  == <<up, crashes>>
cloudVars == <<cloudAge, pusher>>
vars == <<hookVars, askVars, shownVars, pollVars, procVars, cloudVars>>

Decisions == {"allow", "deny"}
Answers   == Decisions \cup {"none"}
Verdicts  == Decisions \cup {"passthrough"}
NoPending == [id |-> 0, answer |-> "none"]
Statuses  == {"idle", "working", "waiting", "denied"}
NotPolling == [held |-> FALSE, v |-> 0, age |-> 0]

\* What a handler thread is doing: "queued" blocks on ask_serial, "push" is in
\* cloud_push, "gate" is about to look whether a Flipper is online, "wait" is
\* in cond.wait, "take" is in cloud_take_decision with cond released.  A thread
\* ends "replied", "dead" with its process, or "raised" by an exception.
Serving  == {"push", "gate", "wait", "take"}
Blocking == {"push", "wait", "take"}
Waiting  == {"wait", "take"}
Gone     == {"dead", "raised"}
PCs      == Serving \cup Gone \cup {"none", "queued", "replied"}
Slice(step) == IF step = "wait" THEN WaitSlice ELSE CallLimit

\* `pending' is not None.  It is not when a thread waits for the Flipper (Open),
\* and stays so when that thread raises.
Pending == pending.id # 0
Open    == \E a \in Asks : pc[a] \in Waiting

FlipperOnline == pollAge < Stale \/ cloudAge < Stale

\* The threads blocked in cond.wait, which notify_all wakes.
InWait == {a \in Asks : pc[a] = "wait"} \cup {p \in Pollers : poll[p].held}

\* bump(), called by thread t with cond held.
Bump(t) == /\ version' = version + 1
           /\ notified' = (notified \cup InWait) \ {t}
           /\ dirty' = TRUE

\* What cloud_push reads under cond and sends, and GET /state answers, without
\* the status.
Body == [pending |-> Pending, ask |-> pending.id]

\* How long a call to the relay keeps its thread, and a prompt can be shown: the
\* rounds of the loop that start before the deadline, the last with its cond.wait
\* and its cloud_take_decision.
CallTime    == IF CloudUrl THEN CallLimit ELSE 0
LongestShow == (AskTimeout - 1) + WaitSlice + CallTime

Later(age, limit) == IF age < limit THEN age + 1 ELSE limit

Init ==
  /\ hook = [a \in Asks |-> "idle"] /\ heard = [a \in Asks |-> "none"]
  /\ hookAge = [a \in Asks |-> 0]
  /\ up = TRUE /\ crashes = 0
  /\ pc = [a \in Asks |-> "none"] /\ reply = [a \in Asks |-> "none"]
  /\ serial = NoAsk /\ pending = NoPending
  /\ askSeq = 0 /\ askAge = 0 /\ stepAge = 0
  /\ status = "idle" /\ version = 1
  /\ pollAge = Stale /\ cloudAge = Stale
  /\ poll = [p \in Pollers |-> NotPolling] /\ notified = {}
  /\ dirty = CloudUrl /\ pusher = "idle"
  /\ inTime = {}

-----------------------------------------------------------------------------
(* The hook, cc-ask.sh.                                                     *)

\* curl posts the ask; a bridge that is down refuses the connection and curl
\* prints nothing.
HookAsk(a) ==
  /\ hook[a] = "idle"
  /\ IF up
     THEN /\ hook' = [hook EXCEPT ![a] = "asking"]
          /\ pc' = [pc EXCEPT ![a] = "queued"]
          /\ UNCHANGED heard
     ELSE /\ hook' = [hook EXCEPT ![a] = "done"]
          /\ heard' = [heard EXCEPT ![a] = "empty"]
          /\ UNCHANGED pc
  /\ UNCHANGED <<hookAge, reply, serial, pending, askSeq, askAge, stepAge, inTime,
                 shownVars, pollVars, procVars, cloudVars>>

\* curl gets the answer, or loses the connection: of a bridge that died, or of a
\* thread that raised, since the server closes it then without a response.
HookHears(a) ==
  /\ hook[a] = "asking" /\ (reply[a] # "none" \/ pc[a] \in Gone)
  /\ hook' = [hook EXCEPT ![a] = "done"]
  /\ heard' = [heard EXCEPT ![a] = IF reply[a] = "none" THEN "empty" ELSE reply[a]]
  /\ UNCHANGED <<hookAge, askVars, shownVars, pollVars, procVars, cloudVars>>

\* curl --max-time runs out.  The bridge does not notice: the handler thread
\* stays where it is.
HookGivesUp(a) ==
  /\ hook[a] = "asking" /\ hookAge[a] = HookTimeout
  /\ hook' = [hook EXCEPT ![a] = "done"]
  /\ heard' = [heard EXCEPT ![a] = "empty"]
  /\ UNCHANGED <<hookAge, askVars, shownVars, pollVars, procVars, cloudVars>>

\* exit 0 for `allow|passthrough|""', exit 2 for anything else.
ToolRuns(a) == hook[a] = "done" /\ heard[a] \in {"allow", "passthrough", "empty"}

-----------------------------------------------------------------------------
(* handle_ask.                                                              *)

\* [mutant] asks are not queued on ask_serial.
SerialIgnored == TRUE

SerialFree == serial = NoAsk

TakeSerial(a) ==
  /\ pc[a] = "queued" /\ SerialFree
  /\ serial' = a
  /\ pc' = [pc EXCEPT ![a] = IF CloudUrl THEN "push" ELSE "gate"]
  /\ stepAge' = 0
  /\ UNCHANGED <<reply, pending, askSeq, askAge, inTime,
                 hookVars, shownVars, pollVars, procVars, cloudVars>>

\* [mutant] the thread waits for a relay that can be reached.
AfterPushInsisting(r) == IF r = "failed" THEN "push" ELSE "gate"

\* handle_ask does not look at what cloud_push returns.
AfterPush(r) == "gate"

\* cloud_push returns: r is what the relay said of the Flipper, or "failed".
PushReply(a, r) ==
  /\ pc[a] = "push"
  /\ pc' = [pc EXCEPT ![a] = AfterPush(r)]
  /\ stepAge' = 0
  /\ cloudAge' = IF r = "online" THEN 0 ELSE cloudAge
  /\ UNCHANGED <<reply, serial, pending, askSeq, askAge, inTime, pusher,
                 hookVars, shownVars, pollVars, procVars>>

\* [mutant] the passthrough branch forgets bump().
PassQuietly(a) == UNCHANGED <<version, notified, dirty>>

PassBump(a) == Bump(a)

\* Nobody to ask: the tool is let through.
AskPass(a) ==
  /\ pc[a] = "gate" /\ ~FlipperOnline /\ ~Strict
  /\ status' = "working"
  /\ PassBump(a)
  /\ reply' = [reply EXCEPT ![a] = "passthrough"]
  /\ pc' = [pc EXCEPT ![a] = "replied"]
  /\ serial' = NoAsk
  /\ UNCHANGED <<pending, askSeq, askAge, stepAge, inTime, hookVars, pollVars, procVars, cloudVars>>

AskOpen(a) ==
  /\ pc[a] = "gate" /\ (FlipperOnline \/ Strict)
  /\ askSeq' = askSeq + 1
  /\ pending' = [id |-> askSeq + 1, answer |-> "none"]
  /\ status' = "waiting"
  /\ Bump(a)
  /\ askAge' = 0 /\ stepAge' = 0
  /\ inTime' = IF hookAge[a] + LongestShow < HookTimeout THEN inTime \cup {a} ELSE inTime
  /\ pc' = [pc EXCEPT ![a] = "wait"]
  /\ UNCHANGED <<reply, serial, hookVars, pollVars, procVars, cloudVars>>

\* cond.wait(timeout=1.0) returns: notified, or its second is over.
Awake(a) == pc[a] = "wait" /\ (a \in notified \/ stepAge >= WaitSlice)

\* [mutant] the deadline is a second early.
ExpiredEarly == askAge + 1 >= AskTimeout

Expired == askAge >= AskTimeout

\* [mutant] a timeout allows.
VerdictOpen(ans) == IF ans = "none" THEN "allow" ELSE ans

Verdict(ans) == IF ans = "none" THEN "deny" ELSE ans

\* The end of the critical section, with the answer ans the loop left behind.
Close(a, ans) ==
  /\ pending' = NoPending
  /\ status' = IF Verdict(ans) = "allow" THEN "working" ELSE "denied"
  /\ Bump(a)
  /\ reply' = [reply EXCEPT ![a] = Verdict(ans)]
  /\ pc' = [pc EXCEPT ![a] = "replied"]
  /\ serial' = NoAsk /\ askAge' = 0 /\ stepAge' = 0
  /\ UNCHANGED <<askSeq, inTime, hookVars, pollVars, procVars, cloudVars>>

\* [mutant] every round of the loop sets the deadline anew.
DeadlineAnew == 0

DeadlineStays == askAge

\* Back to cond.wait from the loop's head.
Again(a) ==
  /\ pc' = [pc EXCEPT ![a] = "wait"]
  /\ stepAge' = 0 /\ askAge' = DeadlineStays
  /\ notified' = notified \ {a}
  /\ UNCHANGED <<reply, serial, pending, askSeq, inTime, status, version, dirty,
                 hookVars, pollVars, procVars, cloudVars>>

WakeAgain(a) ==
  /\ Awake(a) /\ ~CloudUrl
  /\ pending.answer = "none" /\ ~Expired
  /\ Again(a)

WakeClose(a) ==
  /\ Awake(a)
  /\ pending.answer # "none" \/ (~CloudUrl /\ Expired)
  /\ Close(a, pending.answer)

\* Still no answer: ask the relay, with cond released.
WakeTake(a) ==
  /\ Awake(a) /\ CloudUrl /\ pending.answer = "none"
  /\ pc' = [pc EXCEPT ![a] = "take"]
  /\ stepAge' = 0
  /\ notified' = notified \ {a}
  /\ UNCHANGED <<reply, serial, pending, askSeq, askAge, inTime, status, version, dirty,
                 hookVars, pollVars, procVars, cloudVars>>

\* [mutant] what the relay says replaces a press made meanwhile.
TakenOver(got) == IF got # "none" THEN got ELSE pending.answer

\* The answer after cloud_take_decision returned got ("none" for None).
Taken(got) == IF pending.answer = "none" THEN got ELSE pending.answer

TakeAgain(a, got) ==
  /\ pc[a] = "take"
  /\ Taken(got) = "none" /\ ~Expired
  /\ Again(a)

TakeClose(a, got) ==
  /\ pc[a] = "take"
  /\ Taken(got) # "none" \/ Expired
  /\ Close(a, Taken(got))

\* [mutant] the lock is not given back on the way out.
SerialAfterRaise == serial

\* `with ask_serial'
SerialGivenBack == NoAsk

\* cloud_request raises what it does not catch: http.client.HTTPException for a
\* response that is cut short or garbled, or whatever its callers make of a body
\* that is no object.  The locks are given back and the thread is over, without a
\* reply, without bump(), and with `pending' as it is.
AskRaises(a) ==
  /\ pc[a] \in {"push", "take"}
  /\ pc' = [pc EXCEPT ![a] = "raised"]
  /\ serial' = SerialGivenBack /\ askAge' = 0 /\ stepAge' = 0
  /\ UNCHANGED <<reply, pending, askSeq, inTime,
                 hookVars, shownVars, pollVars, procVars, cloudVars>>

-----------------------------------------------------------------------------
(* The other handlers and the pusher thread.                                *)

\* [mutant] a second press replaces the first.
AcceptsAgain(ans) == ans \in Decisions /\ Pending

Accepts(ans) == ans \in Decisions /\ Pending /\ pending.answer = "none"

\* [mutant] the press does not notify cond.
PressQuietly == UNCHANGED <<version, notified, dirty>>

PressBump == Bump(NoAsk)

\* handle_decision, with an answer it accepts ...
Press(ans) ==
  /\ up /\ Accepts(ans)
  /\ pending' = [pending EXCEPT !.answer = ans]
  /\ PressBump
  /\ pollAge' = 0
  /\ UNCHANGED <<pc, reply, serial, askSeq, askAge, stepAge, inTime, status, poll,
                 hookVars, procVars, cloudVars>>

\* ... and with one it ignores: nothing pending, already answered, or neither
\* "allow" nor "deny".
StrayDecision(ans) ==
  /\ up /\ ~Accepts(ans)
  /\ pollAge' = 0
  /\ UNCHANGED <<poll, hookVars, askVars, shownVars, procVars, cloudVars>>

\* [mutant] an empty status is stored.
StatusRaw(s) == s

\* `... or "idle"', for a status of which cleaning left nothing.
StatusFrom(s) == IF s = "empty" THEN "idle" ELSE s

\* POST /state.
PostState(s) ==
  /\ up /\ version < MaxVersion
  /\ status' = StatusFrom(s)
  /\ Bump(NoAsk)
  /\ UNCHANGED <<hookVars, askVars, pollVars, procVars, cloudVars>>

\* [mutant] a poll is not taken as a sign of life.
SeenEarlier == pollAge

SeenNow == 0

\* GET /state?client=flipper&wait=...: the version is read on entry.
PollStart(p) ==
  /\ up /\ ~poll[p].held
  /\ pollAge' = SeenNow
  /\ poll' = [poll EXCEPT ![p] = [held |-> TRUE, v |-> version, age |-> 0]]
  /\ UNCHANGED <<hookVars, askVars, shownVars, procVars, cloudVars>>

PollReply(p) ==
  /\ poll[p].held
  /\ (p \in notified /\ version # poll[p].v) \/ poll[p].age >= MaxWait
  /\ poll' = [poll EXCEPT ![p] = NotPolling]
  /\ notified' = notified \ {p}
  /\ UNCHANGED <<pollAge, status, version, dirty, hookVars, askVars, procVars, cloudVars>>

\* cloud_pusher: wait, clear, sleep, clear, push.
PusherMoves(from, to) == pusher = from /\ pusher' = to

PusherWakes ==
  /\ up /\ CloudUrl /\ dirty /\ PusherMoves("idle", "sleep")
  /\ dirty' = FALSE
  /\ UNCHANGED <<cloudAge, status, version, notified, hookVars, askVars, pollVars, procVars>>

PusherClears ==
  /\ PusherMoves("sleep", "body")
  /\ dirty' = FALSE
  /\ UNCHANGED <<cloudAge, status, version, notified, hookVars, askVars, pollVars, procVars>>

\* cloud_push reads the state under cond and sends it.
PusherPuts ==
  /\ PusherMoves("body", "put")
  /\ UNCHANGED <<cloudAge, hookVars, askVars, shownVars, pollVars, procVars>>

\* [mutant] the flag is cleared once the push is done.
DirtyCleared == FALSE

DirtyStays == dirty

PusherReply(r) ==
  /\ PusherMoves("put", "idle")
  /\ dirty' = DirtyStays
  /\ cloudAge' = IF r = "online" THEN 0 ELSE cloudAge
  /\ UNCHANGED <<status, version, notified, hookVars, askVars, pollVars, procVars>>

\* The same exceptions end cloud_pusher, for as long as the process lives.
PusherRaises ==
  /\ PusherMoves("put", "ended")
  /\ UNCHANGED <<cloudAge, hookVars, askVars, shownVars, pollVars, procVars>>

-----------------------------------------------------------------------------
(* The process and the clock.                                               *)

\* The process dies and everything it kept with it.
Crash ==
  /\ up /\ crashes < MaxCrashes
  /\ up' = FALSE /\ crashes' = crashes + 1
  /\ pc' = [a \in Asks |-> IF pc[a] \in Serving \cup {"queued"} THEN "dead" ELSE pc[a]]
  /\ serial' = NoAsk /\ pending' = NoPending
  /\ askSeq' = 0 /\ askAge' = 0 /\ stepAge' = 0
  /\ status' = "idle" /\ version' = 1 /\ notified' = {}
  /\ dirty' = CloudUrl /\ pusher' = "idle"
  /\ pollAge' = Stale /\ cloudAge' = Stale
  /\ poll' = [p \in Pollers |-> NotPolling]
  /\ UNCHANGED <<reply, inTime, hookVars>>

\* bridge/start.sh starts it again, from the globals' initial values.
Restart ==
  /\ ~up /\ up' = TRUE
  /\ UNCHANGED <<crashes, hookVars, askVars, shownVars, pollVars, cloudVars>>

\* Something is due before the next second.
Urgent ==
  \/ notified # {}
  \/ \E a \in Asks : \/ pc[a] = "gate"
                     \/ pc[a] = "queued" /\ serial = NoAsk
                     \/ pc[a] \in Blocking /\ stepAge >= Slice(pc[a])
                     \/ hook[a] = "asking" /\ \/ reply[a] # "none"
                                              \/ pc[a] \in Gone
                                              \/ hookAge[a] >= HookTimeout
  \/ \E p \in Pollers : poll[p].held /\ poll[p].age >= MaxWait

Tick ==
  /\ ~Urgent
  /\ hookAge' = [a \in Asks |-> IF hook[a] = "asking" THEN hookAge[a] + 1 ELSE hookAge[a]]
  /\ askAge' = IF Open THEN Later(askAge, AskTimeout) ELSE askAge
  /\ stepAge' = IF \E a \in Asks : pc[a] \in Blocking THEN stepAge + 1 ELSE stepAge
  /\ pollAge' = Later(pollAge, Stale) /\ cloudAge' = Later(cloudAge, Stale)
  /\ poll' = [p \in Pollers |->
                IF poll[p].held THEN [poll[p] EXCEPT !.age = @ + 1] ELSE poll[p]]
  /\ UNCHANGED <<hook, heard, pc, reply, serial, pending, askSeq, inTime, pusher,
                 shownVars, procVars>>

Replies == {"online", "offline", "failed"}

HandleAsk(a) ==
  \/ TakeSerial(a) \/ AskPass(a) \/ AskOpen(a)
  \/ WakeAgain(a) \/ WakeClose(a) \/ WakeTake(a)

\* The relay's side of the calls, free in this module.
CloudReplies(a) ==
  \/ \E r \in Replies : PushReply(a, r)
  \/ \E got \in Answers : TakeAgain(a, got) \/ TakeClose(a, got)
  \/ AskRaises(a)

Next ==
  \/ \E a \in Asks : \/ HookAsk(a) \/ HookHears(a) \/ HookGivesUp(a)
                     \/ HandleAsk(a) \/ CloudReplies(a)
  \/ \E ans \in Decisions \cup {"invalid"} : Press(ans) \/ StrayDecision(ans)
  \/ \E s \in {"empty", "idle", "working", "waiting"} : PostState(s)
  \/ \E p \in Pollers : PollStart(p) \/ PollReply(p)
  \/ PusherWakes \/ PusherClears \/ PusherPuts
  \/ (\E r \in Replies : PusherReply(r)) \/ PusherRaises
  \/ Crash \/ Restart \/ Tick

Spec == Init /\ [][Next]_vars

\* Time goes on, a runnable thread runs, a call to the relay ends (urlopen's
\* timeout is for each wait on the socket: a relay that keeps sending a byte now
\* and then is excluded here), curl ends.  Nobody has to press a button, poll, or
\* restart the bridge.
Fairness ==
  /\ WF_vars(Tick)
  /\ \A a \in Asks : /\ WF_vars(HandleAsk(a)) /\ WF_vars(CloudReplies(a))
                     /\ WF_vars(HookHears(a)) /\ WF_vars(HookGivesUp(a))
  /\ \A p \in Pollers : WF_vars(PollReply(p))

FairSpec == Spec /\ Fairness
-----------------------------------------------------------------------------
(* Properties.                                                              *)

\* Every variable has the values its declaration says.
TypeOK ==
  /\ hook \in [Asks -> {"idle", "asking", "done"}]
  /\ heard \in [Asks -> Verdicts \cup {"none", "empty"}]
  /\ hookAge \in [Asks -> Nat]
  /\ up \in BOOLEAN /\ crashes \in Nat
  /\ pc \in [Asks -> PCs]
  /\ reply \in [Asks -> Verdicts \cup {"none"}]
  /\ serial \in Asks \cup {NoAsk}
  /\ pending \in [id : Nat, answer : Answers]
  /\ askSeq \in Nat /\ askAge \in Nat /\ stepAge \in Nat
  /\ status \in Statuses /\ version \in Nat
  /\ pollAge \in Nat /\ cloudAge \in Nat
  /\ poll \in [Pollers -> [held : BOOLEAN, v : Nat, age : Nat]]
  /\ notified \subseteq Asks \cup Pollers
  /\ dirty \in BOOLEAN /\ pusher \in {"idle", "sleep", "body", "put", "ended"}
  /\ inTime \subseteq Asks

\* ask_serial does its work although handle_ask releases cond twice inside it:
\* the thread that holds it is the only one between `with ask_serial' and the
\* reply, the global `pending' is there while that thread waits for the Flipper
\* and outlives it only if a thread has raised, and it is the ask that ask_seq
\* counted last.
OneAskAtATime ==
  /\ \A a \in Asks : pc[a] \in Serving <=> serial = a
  /\ Open => Pending
  /\ Pending => Open \/ \E a \in Asks : pc[a] = "raised"
  /\ Pending => pending.id = askSeq
  /\ ~Pending => pending.answer = "none"

\* The first accepted answer stands: neither a second press nor what the relay
\* collected while cond was released replaces it before the ask is closed.
AnswerStands ==
  [][Open /\ pending.answer # "none" => pending' \in {pending, NoPending}]_vars

\* A reply says what the pending decision said.  "allow" needs a press on this
\* very ask, "deny" a press or ASK_TIMEOUT gone by since it was shown (or the
\* relay's answer, when the take is what ends the ask).
SaysThePress(a) ==
  reply'[a] \in Decisions /\ reply[a] = "none" =>
    \/ pending.answer = reply'[a]
    \/ /\ pending.answer = "none"
       /\ pc[a] = "take" \/ (reply'[a] = "deny" /\ askAge >= AskTimeout)

ReplyIsThePress == [][\A a \in Asks : SaysThePress(a)]_vars

\* bump() is called for everything GET /state shows: no handler changes the
\* shown state and leaves version as it was, which would leave a long poll and
\* the cloud pusher asleep on an old prompt.
ShownChangesBump ==
  [][(up' = up /\ <<Body, status>>' # <<Body, status>>) => (version' > version /\ dirty')]_vars

\* MAX_WAIT and FLIPPER_STALE fit each other: last_flipper_poll is set only when
\* a poll starts, and a Flipper whose poll the bridge still holds never counts
\* as absent.
HeldPollIsOnline == \A p \in Pollers : poll[p].held => FlipperOnline

\* notify_all reaches the asking thread: no second passes with an answer there
\* and the thread asleep in cond.wait.
PressEndsTheAsk ==
  [][\A a \in Asks : (pc[a] = "wait" /\ pending.answer # "none") => stepAge' <= stepAge]_vars

\* cc-ask.sh lets a tool run on an empty answer for the sake of a bridge that is
\* down; with the bridge up, a tool runs only on an answer of the bridge.
NoSilentRun ==
  \A a \in Asks : ToolRuns(a) => heard[a] = reply[a] \/ pc[a] \in {"none", "dead"}

\* The longest an ask keeps ask_serial, its cloud_push included, and all of them.
LongestAsk   == CallTime + LongestShow
LongestQueue == LongestAsk * Cardinality(Asks)

\* The decision the Flipper shows is one a hook still waits for, if it was shown
\* in time: no round of the loop, wake-up or relay call draws the prompt out, and
\* neither does what the Flipper or the asks queued behind it do.
PromptHasListener ==
  \A a \in Asks : pc[a] \in Waiting /\ a \in inTime => hook[a] = "asking"

\* A tool whose prompt was shown in time runs only on the answer to that prompt,
\* while the process and the thread that owe it live: a curl that gives up as the
\* answer is on its way is one whose prompt came too late.
ShownInTimeIsHeard ==
  \A a \in Asks : ToolRuns(a) /\ a \in inTime => heard[a] = reply[a] \/ pc[a] \in Gone

\* No hook waits for the bridge longer than all the asks take one after the
\* other: ASK_TIMEOUT is per ask and starts when the ask is shown, and no call to
\* the relay, wake-up or new round of the loop draws it out any further.
AnsweredInTime == \A a \in Asks : hookAge[a] <= LongestQueue

\* Every ask the bridge takes is answered, whatever the others in the queue and
\* the Flipper do, unless the bridge dies, or the thread by an exception; and then
\* those behind it still get their turn.
EveryAskAnswered ==
  \A a \in Asks : pc[a] = "queued" ~> pc[a] \in {"replied"} \cup Gone

\* The bridge implements the gate.
Phase(a) == CASE pc[a] = "none"                      -> "new"
              [] pc[a] \in {"queued", "push", "gate"} -> "asked"
              [] pc[a] \in Waiting                   -> "shown"
              [] pc[a] = "replied"                   -> reply[a]
              [] pc[a] \in Gone                      -> "lost"

PhaseMap == [a \in Asks |-> Phase(a)]

\* A press on a prompt whose thread has raised is nobody's.
PressMap == IF Open THEN pending.answer ELSE "none"

G == INSTANCE Gate WITH phase <- PhaseMap, press <- PressMap, Remote <- CloudUrl

ImplementsGate == G!Spec

=============================================================================
