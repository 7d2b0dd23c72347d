----------------------------- MODULE CloudSync -----------------------------
(***************************************************************************)
(* The bridge with CLOUD_URL set (Bridge.tla), the relay (Mailbox.tla) and *)
(* the HTTP calls between them.  A call is made by the thread that holds   *)
(* ask_serial (PUT from cloud_push, GET from cloud_take_decision) or by    *)
(* cloud_pusher; the worker serves it, the thread gets the response.  Each *)
(* call is a connection of its own, so calls of the two threads can        *)
(* overtake each other (Ordered = FALSE), and one that fails may have been *)
(* served, or be served later, or never.                                   *)
(* A press at the relay carries the number of the ask on the Flipper's     *)
(* screen (cc_monitor.c), which the relay may no longer show.              *)
(***************************************************************************)
EXTENDS Bridge, Mailbox

CONSTANTS Ordered,   \* the worker serves the calls in the order they were made
          MaxFaults  \* bound of faults

ASSUME CloudAssumption == /\ CloudUrl = TRUE /\ Ordered \in BOOLEAN /\ MaxFaults \in Nat
                          /\ "pusher" \notin Asks

VARIABLES
  call,   \* the request each thread has open
  ahead,  \* per thread, the threads whose unserved requests were made before its own
  late,   \* requests their thread has given up on and the worker may yet serve
  faults, \* failed calls, evictions of the relay and deaths of the bridge
  missed  \* (history) the version when the relay was last told wrong, or not told

syncVars  == <<call, ahead, late, faults, missed>>
allVars   == <<vars, boxVars, syncVars>>
otherVars == <<boxVars, syncVars>>

Threads == Asks \cup {"pusher"}
Request(kind, body) ==
  [kind |-> kind, body |-> body, served |-> FALSE, got |-> NoDecision, online |-> FALSE]
NoCall   == Request("none", EmptyBox)
PutCall  == Request("put", Body)
TakeCall == Request("take", EmptyBox)

\* No request is open.
NoCalls == [t \in Threads |-> NoCall]
NoOrder == [t \in Threads |-> {}]

SyncInit == Init /\ BoxInit /\ call = NoCalls /\ ahead = NoOrder /\ late = {} /\ faults = 0 /\ missed = 0

\* Requests the worker has yet to serve.
Unserved == {t \in Threads : call[t].kind # "none" /\ ~call[t].served}

Send(t, c) ==
  /\ call' = [call EXCEPT ![t] = c]
  /\ ahead' = [ahead EXCEPT ![t] = Unserved]
  /\ UNCHANGED <<late, faults, missed>>

\* The request of thread t is nobody's business any more.
LeavesOrder(t) == ahead' = [u \in Threads |-> IF u = t THEN {} ELSE ahead[u] \ {t}]

\* The worker serves a request.
Serve(t) ==
  /\ t \in Unserved /\ (Ordered => ahead[t] = {})
  /\ IF call[t].kind = "put" THEN PutState(call[t].body) ELSE TakeDecision
  /\ call' = [call EXCEPT ![t].served = TRUE, ![t].got = decision, ![t].online = BoxOnline]
  /\ LeavesOrder(t)
  /\ UNCHANGED <<late, faults, missed, vars>>

\* A PUT that is lost, or served out of its time.
Misses(c) == missed' = IF c.kind = "put" THEN version ELSE missed

ServeLate(c) ==
  /\ c \in late /\ late' = late \ {c}
  /\ IF c.kind = "put" THEN PutState(c.body) ELSE TakeDecision
  /\ Misses(c)
  /\ UNCHANGED <<call, ahead, faults, vars>>

\* The thread has the response ...
Answered(t) ==
  /\ call[t].kind # "none" /\ call[t].served
  /\ call' = [call EXCEPT ![t] = NoCall]
  /\ UNCHANGED <<ahead, late, faults, missed, boxVars>>

Fault == faults < MaxFaults /\ faults' = faults + 1

\* ... or there was an exception: a timeout, a reset, a response cut short.  In
\* which cases it is caught is up to the step this is joined with.
Fails(t) ==
  /\ call[t].kind # "none" /\ Fault
  /\ call' = [call EXCEPT ![t] = NoCall]
  /\ LeavesOrder(t) /\ Misses(call[t])
  /\ late' \in {late} \cup (IF call[t].served THEN {} ELSE {late \cup {call[t]}})
  /\ UNCHANGED boxVars

Online(t) == IF call[t].online THEN "online" ELSE "offline"

SyncAsk(a) ==
  \/ TakeSerial(a) /\ Send(a, PutCall) /\ UNCHANGED boxVars
  \/ PushReply(a, Online(a)) /\ Answered(a)
  \/ PushReply(a, "failed") /\ Fails(a)
  \/ (AskPass(a) \/ AskOpen(a) \/ WakeClose(a)) /\ UNCHANGED otherVars
  \/ WakeTake(a) /\ Send(a, TakeCall) /\ UNCHANGED boxVars
  \/ (TakeAgain(a, call[a].got.answer) \/ TakeClose(a, call[a].got.answer)) /\ Answered(a)
  \/ (TakeAgain(a, "none") \/ TakeClose(a, "none")) /\ Fails(a)
  \/ AskRaises(a) /\ Fails(a)

SyncHook(a) == (HookAsk(a) \/ HookHears(a) \/ HookGivesUp(a)) /\ UNCHANGED otherVars

SyncPusher ==
  \/ (PusherWakes \/ PusherClears) /\ UNCHANGED otherVars
  \/ PusherPuts /\ Send("pusher", PutCall) /\ UNCHANGED boxVars
  \/ PusherReply(Online("pusher")) /\ Answered("pusher")
  \/ (PusherReply("failed") \/ PusherRaises) /\ Fails("pusher")

SyncLocal ==
  \/ \E ans \in Decisions : Press(ans) /\ UNCHANGED otherVars
  \/ \E s \in {"working", "idle"} : PostState(s) /\ UNCHANGED otherVars

\* A key counts while the screen shows a prompt, and sends the number on it.  The
\* screen keeps the prompt until the next poll, as it does when the response to
\* the press is lost.
BoxPress(f) ==
  /\ screen[f].pending
  /\ StrayAnswer("allow") \/ \E ans \in BoxAnswers : AnswerBox(ans, screen[f].ask)

SyncFlipper ==
  /\ \E f \in Flippers : BoxPress(f) \/ BoxPollStart(f) \/ BoxPollReply(f)
  /\ UNCHANGED <<vars, syncVars>>

SyncEvict == Evict /\ Fault /\ missed' = version /\ UNCHANGED <<vars, call, ahead, late>>

\* What the bridge sent before it died may still be served.
SyncCrash ==
  /\ Crash /\ Fault
  /\ call' = NoCalls /\ ahead' = NoOrder /\ missed' = 0
  /\ late' \in {late, late \cup {call[t] : t \in Unserved}}
  /\ UNCHANGED boxVars

SyncTick == Tick /\ BoxTick /\ UNCHANGED syncVars

SyncNext ==
  \/ \E a \in Asks : SyncAsk(a) \/ SyncHook(a)
  \/ SyncPusher \/ SyncLocal \/ SyncFlipper
  \/ \E t \in Threads : Serve(t)
  \/ \E c \in late : ServeLate(c)
  \/ SyncEvict \/ SyncCrash \/ (Restart /\ UNCHANGED otherVars)
  \/ SyncTick

SyncSpec == SyncInit /\ [][SyncNext]_allVars

-----------------------------------------------------------------------------
\* What the bridge collects for the pending ask was accepted by the relay while
\* the relay showed that ask, unless since the bridge started a PUT was lost or
\* came late, or the relay was evicted, or an ask before it ended by an exception.
\* Neither the relay (`ask' is stored, nobody reads it) nor cloud_take_decision
\* compares numbers: it holds only as long as every PUT without a pending ask
\* reaches the relay before the next ask is opened and clears what was left there,
\* by an earlier run of the bridge too.  Which prompt was on the Flipper's screen
\* is another question: nothing ties the press to that.
CollectedWhileShown ==
  \A a \in Asks :
    /\ missed = 0 /\ \A b \in Asks : pc[b] # "raised"
    /\ pc[a] = "take" /\ call[a].served /\ call[a].got # NoDecision
    => call[a].got.shown = pending.id

\* Nothing is left to be pushed: cloud_pusher sleeps and no call is open.
Quiet == up /\ ~dirty /\ pusher = "idle" /\ \A t \in Threads : call[t] = NoCall

\* cloud_pusher's wait/clear/sleep/clear/push loses no change: once everything
\* is quiet the relay shows the pending ask of the bridge, and no prompt where
\* there is none.  It may have stopped showing the prompt of an answered ask.
\* A PUT that failed is not repeated, and an evicted relay is not told again,
\* but the next change makes up for it; so does a restart.  A cloud_pusher ended
\* by an exception is never quiet: nothing makes up for that but a restart.
MirrorCatchesUp ==
  (Quiet /\ version > missed) => box.ask = pending.id /\ (box.pending => Pending)
=============================================================================
