------------------------------- MODULE Alerts -------------------------------
(***************************************************************************)
(* The USB alerts of the bridge (bridge/main.py with CC_USB_ALERTS=1) and  *)
(* the script that plays them (tools/flip_alert.py).                       *)
(*                                                                         *)
(* Two kinds of threads call alert(): a POST /state, after it has given    *)
(* cond back, and handle_ask, with cond held.  alert() itself takes no     *)
(* lock.  alert_worker takes what they queue and runs the script, which    *)
(* switches the outputs of a Flipper on USB one command at a time.         *)
(*                                                                         *)
(* Asks come one after the other, as BridgeProofs!OneAskCorrect has it;    *)
(* how an ask ends is free here.                                           *)
(***************************************************************************)
EXTENDS Naturals, Sequences

CONSTANTS Posts,     \* POST /state requests, one thread each
          Asks,      \* tool calls, one handler thread each
          MaxFaults  \* bound: how often the script is skipped or cut short

ASSUME AlertsAssumption ==
  /\ Posts \cap Asks = {}
  /\ MaxFaults \in Nat

VARIABLES
  status,     \* state["status"]
  pc, kind,   \* per thread: what it is about to do; the argument of alert()
  lastAlert,  \* last_alert
  queue,      \* alert_q
  worker,     \* where alert_worker is
  playing,    \* its variable `kind'
  lights,     \* the outputs of the Flipper that are on
  faults,
  posted,     \* (history) a POST set the status last
  told,       \* (history) alert() was called for the status after that
  lastPut,    \* (history) the alert that was queued last
  since,      \* (history) the alerts queued since the last `pending'
  lost        \* (history) an alert was dropped, skipped or cut short

threadVars  == <<status, pc, kind, lastAlert, posted, told>>
queueVars   == <<queue, lastPut, since>>
workerVars  == <<worker, playing, lights, faults, lost>>
vars == <<threadVars, queueVars, workerVars>>

Threads  == Posts \cup Asks
Answers  == {"allow", "deny"}
Kinds    == Answers \cup {"pending", "notify", "done", "working"}
Outputs  == {"vibro", "r", "g", "b"}
Statuses == {"idle", "working", "waiting", "denied", "other"}

On(o)  == [out |-> o, on |-> TRUE]
Off(o) == [out |-> o, on |-> FALSE]

\* PATTERNS: the commands of each alert.
Pattern(k) ==
  CASE k = "pending" -> <<On("vibro"), Off("vibro"), On("vibro"), Off("vibro"), On("r")>>
    [] k = "allow"   -> <<Off("r"), On("g"), Off("g")>>
    [] k = "deny"    -> <<Off("r"), On("r"), Off("r"), On("r"), Off("r")>>
    [] k = "notify"  -> <<On("vibro"), Off("vibro"), On("b")>>
    [] k = "done"    -> <<Off("b"), Off("r"), On("g"), Off("g")>>
    [] k = "working" -> <<Off("b"), Off("r"), Off("g")>>

\* The outputs after the first n commands of alert k: the last command to an
\* output decides.
After(k, n) ==
  LET Untouched(o, i) == \A j \in i .. n : Pattern(k)[j].out # o
  IN  {o \in Outputs : \/ o \in lights /\ Untouched(o, 1)
                       \/ \E i \in 1 .. n : Pattern(k)[i] = On(o) /\ Untouched(o, i + 1)}

\* The alert that do_POST chooses for a status, which it compares with these,
\* in this order.
AlertFor == [waiting |-> "notify", idle |-> "done", working |-> "working"]
Looks    == DOMAIN AlertFor

Init ==
  /\ status = "idle" /\ posted = FALSE /\ told = TRUE
  /\ pc = [t \in Threads |-> "new"] /\ kind = [t \in Threads |-> "none"]
  /\ lastAlert = "none" /\ lastPut = "none" /\ since = {}
  /\ queue = <<>> /\ worker = "idle" /\ playing = "none"
  /\ lights = {} /\ lost = FALSE /\ faults = 0

\* handle_ask calls alert() with cond held.
CondFree == \A a \in Asks : pc[a] \notin {"mark", "put"}

\* ask_serial: one ask at a time.
SerialFree == \A a \in Asks : pc[a] \in {"new", "done"}

Goto(t, place) == pc' = [pc EXCEPT ![t] = place]

\* The status is set, by thread t.
SetStatus(t, s) == status' = s /\ posted' = (t \in Posts)

-----------------------------------------------------------------------------
(* alert(), called by thread t with its kind[t].                            *)

\* `working' only clears a lingering `notify' light.
AlertTests(t) ==
  /\ pc[t] = "test"
  /\ Goto(t, IF lastAlert = "notify" THEN "mark" ELSE "done")
  /\ UNCHANGED <<status, kind, lastAlert, posted, told, queueVars, workerVars>>

AlertMarks(t) ==
  /\ pc[t] = "mark"
  /\ lastAlert' = kind[t]
  /\ Goto(t, "put")
  /\ UNCHANGED <<status, kind, posted, told, queueVars, workerVars>>

AlertPuts(t) ==
  /\ pc[t] = "put"
  /\ queue' = Append(queue, kind[t])
  /\ lastPut' = kind[t]
  /\ since' = IF kind[t] = "pending" THEN {} ELSE since \cup {kind[t]}
  /\ Goto(t, IF kind[t] = "pending" THEN "shown" ELSE "done")
  /\ UNCHANGED <<status, kind, lastAlert, posted, told, workerVars>>

-----------------------------------------------------------------------------
(* POST /state.                                                             *)

\* [mutant] a status that is the old one is not announced.
PostStateOnChange(p, s) ==
  /\ pc[p] = "new" /\ CondFree
  /\ SetStatus(p, s) /\ told' = FALSE
  /\ Goto(p, IF s = status THEN "done" ELSE "waiting")
  /\ UNCHANGED <<kind, lastAlert, queueVars, workerVars>>

PostState(p, s) ==
  /\ pc[p] = "new" /\ CondFree
  /\ SetStatus(p, s) /\ told' = FALSE
  /\ Goto(p, "waiting")
  /\ UNCHANGED <<kind, lastAlert, queueVars, workerVars>>

\* The chain of comparisons: each reads the status anew, without cond.
NextLook(look) == CASE look = "waiting" -> "idle"
                    [] look = "idle"    -> "working"
                    [] look = "working" -> "done"

PostMatches(p) ==
  /\ pc[p] \in Looks /\ status = pc[p]
  /\ kind' = [kind EXCEPT ![p] = AlertFor[pc[p]]]
  /\ Goto(p, IF pc[p] = "working" THEN "test" ELSE "mark")
  /\ told' = TRUE
  /\ UNCHANGED <<status, lastAlert, posted, queueVars, workerVars>>

PostGoesOn(p) ==
  /\ pc[p] \in Looks /\ status # pc[p]
  /\ Goto(p, NextLook(pc[p]))
  /\ UNCHANGED <<status, kind, lastAlert, posted, told, queueVars, workerVars>>

-----------------------------------------------------------------------------
(* handle_ask.                                                              *)

\* No Flipper is polling: the tool passes, and no alert is sent.
AskPasses(a) ==
  /\ pc[a] = "new" /\ CondFree /\ SerialFree
  /\ SetStatus(a, "working")
  /\ Goto(a, "done")
  /\ UNCHANGED <<kind, lastAlert, told, queueVars, workerVars>>

AskOpens(a) ==
  /\ pc[a] = "new" /\ CondFree /\ SerialFree
  /\ SetStatus(a, "waiting")
  /\ kind' = [kind EXCEPT ![a] = "pending"]
  /\ Goto(a, "mark")
  /\ UNCHANGED <<lastAlert, told, queueVars, workerVars>>

\* [mutant] an ask that is not allowed ends without an alert.
AskClosesQuietly(a, ans) ==
  /\ pc[a] = "shown" /\ CondFree
  /\ SetStatus(a, IF ans = "allow" THEN "working" ELSE "denied")
  /\ kind' = [kind EXCEPT ![a] = ans]
  /\ Goto(a, IF ans = "allow" THEN "mark" ELSE "done")
  /\ UNCHANGED <<lastAlert, told, queueVars, workerVars>>

AskCloses(a, ans) ==
  /\ pc[a] = "shown" /\ CondFree
  /\ SetStatus(a, IF ans = "allow" THEN "working" ELSE "denied")
  /\ kind' = [kind EXCEPT ![a] = ans]
  /\ Goto(a, "mark")
  /\ UNCHANGED <<lastAlert, told, queueVars, workerVars>>

-----------------------------------------------------------------------------
(* alert_worker.                                                            *)

\* [mutant] the first alert of a burst is the one that is played.
AlertGetsFirst ==
  /\ worker \in {"idle", "drain"} /\ queue # <<>>
  /\ playing' = IF worker = "idle" THEN Head(queue) ELSE playing
  /\ queue' = Tail(queue)
  /\ worker' = "drain"
  /\ lost' = (lost \/ worker = "drain")
  /\ UNCHANGED <<lights, faults, lastPut, since, threadVars>>

\* get(), first the one it blocks in and then the one of the inner loop, which
\* drops what was got before.
AlertGets ==
  /\ worker \in {"idle", "drain"} /\ queue # <<>>
  /\ playing' = Head(queue)
  /\ queue' = Tail(queue)
  /\ worker' = "drain"
  /\ lost' = (lost \/ worker = "drain")
  /\ UNCHANGED <<lights, faults, lastPut, since, threadVars>>

AlertRuns ==
  /\ worker = "drain" /\ queue = <<>>
  /\ worker' = "run"
  /\ UNCHANGED <<playing, lights, faults, lost, threadVars, queueVars>>

\* flip_alert.py plays the pattern.
AlertPlays ==
  /\ worker = "run" /\ worker' = "idle"
  /\ lights' = After(playing, Len(Pattern(playing)))
  /\ UNCHANGED <<playing, faults, lost, threadVars, queueVars>>

\* [mutant] an exception ends alert_worker.
AlertFailsForGood(n) ==
  /\ worker = "run" /\ worker' = "dead"
  /\ faults < MaxFaults /\ n < Len(Pattern(playing))
  /\ lights' = After(playing, n)
  /\ faults' = faults + 1 /\ lost' = TRUE
  /\ UNCHANGED <<playing, threadVars, queueVars>>

\* It plays the first n commands only: none when the port is busy or there is
\* no Flipper, some when the port fails or the 20 s are over.
AlertFails(n) ==
  /\ worker = "run" /\ worker' = "idle"
  /\ faults < MaxFaults /\ n < Len(Pattern(playing))
  /\ lights' = After(playing, n)
  /\ faults' = faults + 1 /\ lost' = TRUE
  /\ UNCHANGED <<playing, threadVars, queueVars>>

-----------------------------------------------------------------------------
Alert(t) == AlertTests(t) \/ AlertMarks(t) \/ AlertPuts(t)

AlertWorker == AlertGets \/ AlertRuns \/ AlertPlays \/ \E n \in 0 .. 4 : AlertFails(n)

Next ==
  \/ \E t \in Threads : Alert(t)
  \/ \E p \in Posts : \/ \E s \in Statuses \ {"denied"} : PostState(p, s)
                      \/ PostMatches(p) \/ PostGoesOn(p)
  \/ \E a \in Asks : AskPasses(a) \/ AskOpens(a) \/ \E ans \in Answers : AskCloses(a, ans)
  \/ AlertWorker

Spec == Init /\ [][Next]_vars

\* The worker thread is never blocked for ever: subprocess.run has a timeout.
FairSpec == Spec /\ WF_vars(AlertWorker)

-----------------------------------------------------------------------------
(* Properties.                                                              *)

\* Every variable has the values its declaration says.
TypeOK ==
  /\ status \in Statuses /\ posted \in BOOLEAN /\ told \in BOOLEAN
  /\ pc \in [Threads -> Looks \cup {"new", "test", "mark", "put", "shown", "done"}]
  /\ kind \in [Threads -> Kinds \cup {"none"}]
  /\ {lastAlert, lastPut, playing} \subseteq Kinds \cup {"none"}
  /\ since \subseteq Kinds
  /\ queue \in Seq(Kinds) /\ worker \in {"idle", "drain", "run"}
  /\ lights \subseteq Outputs /\ lost \in BOOLEAN /\ faults \in Nat

\* No thread is inside do_POST's chain or alert().
Settled == \A t \in Threads : pc[t] \in {"new", "shown", "done"}

\* alert_worker waits for work.
Quiet == queue = <<>> /\ worker = "idle"

Shown == \E a \in Asks : pc[a] = "shown"

\* Bursts: whatever threads queue while the script runs, the one it ends with is
\* the latest of them.
LatestIsPlayed == Quiet => playing = lastPut

\* do_POST reads the status up to three times without cond while others change
\* it; still the status that was posted last is announced by somebody.
LastStatusIsTold ==
  Settled /\ posted /\ status \in Looks => told

\* The red light tells of a pending ask: with no alert lost, it is on for no other
\* reason, and it is on for that one unless a session that is not the asking one
\* has announced `done' or `working' since.
RedTells ==
  Settled /\ Quiet /\ ~lost =>
    /\ "r" \in lights => Shown
    /\ Shown /\ since \cap {"done", "working"} = {} => "r" \in lights

\* "red LED stays on until answered": with no alert lost, whatever other sessions
\* announce meanwhile.
RedUntilAnswered == Settled /\ Quiet /\ ~lost /\ Shown => "r" \in lights

\* Every alert is played or replaced by a later one, and the worker is ready again,
\* although the script may be skipped, fail or hang.
EveryAlertIsHeard == queue # <<>> ~> Quiet
=============================================================================
