----------------------------- MODULE MonitorApp -----------------------------
(***************************************************************************)
(* The Flipper app (app/cc_monitor.c) against a bridge on the LAN: the UI  *)
(* thread, which reads the keys, and the worker thread, which looks for    *)
(* the dev board, polls GET /state and sends GET /decision, share App      *)
(* under its mutex.                                                        *)
(*                                                                         *)
(* The bridge is the gate it implements (Gate.tla, Bridge.tla) plus the    *)
(* number of the ask it shows.  A request is served at some moment and the *)
(* app learns the outcome later; a request that fails may have been        *)
(* served, or be served after http_do gave up on it, or never.             *)
(* FlipperHTTP.tla looks into http_do itself.                              *)
(*                                                                         *)
(* `of' and `meant' name the ask behind a prompt and behind a key press;   *)
(* neither is in the code.                                                 *)
(***************************************************************************)
EXTENDS Naturals

CONSTANTS Asks, NoAsk,
          MaxFaults,  \* bound: failed requests and pings
          MaxKeys,    \* bound: key presses
          MaxLosses   \* bound: deaths of the bridge

ASSUME AppAssumption == /\ NoAsk \notin Asks
                        /\ MaxFaults \in Nat /\ MaxKeys \in Nat /\ MaxLosses \in Nat

VARIABLES
  phase, press,  \* the bridge's asks, as in Gate.tla
  seq,           \* ask_seq, the number of the ask that is shown
  losses,
  screen,        \* app->pending, app->ask_id
  conn, fails,   \* app->conn, app->fails
  decision,      \* app->decision
  flags,         \* the worker's thread flags
  board,         \* whether there is a dev board, and the worker knows it
  pc,            \* where the worker is, "done" for no worker
  req,           \* the request in http_do
  stray,         \* the decisions http_do gave up on and the board still sends
  faults,
  buzzed,        \* the ask whose prompt the Flipper last vibrated for
  keyed, taken,  \* how often each answer was pressed, and taken by the bridge
  aim            \* the ask behind the key press that the bridge took last

gateVars   == <<phase, press>>
bridgeVars == <<phase, press, seq, losses>>
shownVars  == <<screen, conn, fails, buzzed>>
inputVars  == <<decision, flags, keyed>>
workerVars == <<pc, board>>
netVars    == <<req, stray, faults>>
takenVars  == <<taken, aim>>
vars == <<bridgeVars, shownVars, inputVars, workerVars, netVars, takenVars>>

B == INSTANCE Gate WITH Remote <- FALSE

Answers    == {"allow", "deny"}
KeyPresses == [answer : Answers, meant : Asks \cup {NoAsk}]
NoDecision == [answer |-> "none", meant |-> NoAsk]
Prompts    == [pending : BOOLEAN, ask : Nat, of : Asks \cup {NoAsk}]
NoPrompt   == [pending |-> FALSE, ask |-> 0, of |-> NoAsk]

\* A request as it is sent: a decision with the number of an ask, or a poll.
Request(kind, d, n) == [kind |-> kind, decision |-> d, ask |-> n, served |-> FALSE, body |-> NoPrompt]
NoRequest   == Request("none", NoDecision, 0)
PollRequest == Request("poll", NoDecision, 0)

\* The worker is started when flipper_http_alloc got hold of the UART; without
\* it the app has no board for good.
Init ==
  /\ B!Init /\ seq = 0 /\ losses = 0
  /\ screen = NoPrompt /\ fails = 0 /\ buzzed = NoAsk
  /\ \/ conn = "boot" /\ pc = "start"
     \/ conn = "noboard" /\ pc = "done"
  /\ board \in {"absent", "plugged"}
  /\ decision = NoDecision /\ flags = {}
  /\ req = NoRequest /\ stray = {} /\ faults = 0
  /\ keyed = [ans \in Answers |-> 0] /\ taken = [ans \in Answers |-> 0] /\ aim = NoAsk

-----------------------------------------------------------------------------
(* The bridge.                                                              *)

\* GET /state while the ask is open, its press included, and otherwise.
StateBody == IF B!Shown = {} THEN NoPrompt
             ELSE [pending |-> TRUE, ask |-> seq, of |-> CHOOSE a \in B!Shown : TRUE]

BridgeStep ==
  /\ \/ \E a \in Asks : /\ B!Ask(a) \/ B!Pass(a) \/ B!Decide(a) \/ B!Expire(a)
                        /\ UNCHANGED <<seq, losses>>
     \/ \E a \in Asks : B!Show(a) /\ seq' = seq + 1 /\ UNCHANGED losses
     \/ losses < MaxLosses /\ B!Lose /\ losses' = losses + 1 /\ seq' = 0
  /\ UNCHANGED <<shownVars, inputVars, workerVars, netVars, takenVars>>

\* handle_decision does not look at the ask's number.
Takes(d) ==
  IF B!Shown # {} /\ press = "none"
  THEN B!Press(d.answer) /\ taken' = [taken EXCEPT ![d.answer] = @ + 1] /\ aim' = d.meant
  ELSE UNCHANGED <<gateVars, takenVars>>

Serve ==
  /\ req.kind # "none" /\ ~req.served
  /\ req' = [req EXCEPT !.served = TRUE, !.body = StateBody]
  /\ IF req.kind = "decision" THEN Takes(req.decision) ELSE UNCHANGED <<gateVars, takenVars>>
  /\ UNCHANGED <<seq, losses, shownVars, inputVars, workerVars, stray, faults>>

ServeStray ==
  \E d \in stray : /\ Takes(d)
                   /\ stray' = stray \ {d}
                   /\ UNCHANGED <<seq, losses, shownVars, inputVars, workerVars, req, faults>>

-----------------------------------------------------------------------------
(* The UI thread.                                                           *)

PromptOnScreen == screen.pending /\ conn = "online"

\* OK or BACK while the prompt is there; the last key wins until the worker
\* takes the decision.  The prompt stays.
Key(ans) ==
  /\ pc # "done" /\ "stop" \notin flags
  /\ PromptOnScreen /\ keyed["allow"] + keyed["deny"] < MaxKeys
  /\ decision' = [answer |-> ans, meant |-> screen.of]
  /\ flags' = flags \cup {"decision"}
  /\ keyed' = [keyed EXCEPT ![ans] = @ + 1]
  /\ UNCHANGED <<bridgeVars, shownVars, workerVars, netVars, takenVars>>

\* BACK held: the UI thread waits for the worker to end.
Exit ==
  /\ pc # "done" /\ "stop" \notin flags
  /\ flags' = flags \cup {"stop"}
  /\ UNCHANGED <<bridgeVars, shownVars, decision, keyed, workerVars, netVars, takenVars>>

-----------------------------------------------------------------------------
(* The worker thread.                                                       *)

\* The board is plugged in.
Plug ==
  /\ board = "absent" /\ board' = "plugged"
  /\ UNCHANGED <<bridgeVars, shownVars, inputVars, pc, netVars, takenVars>>

\* board_ping, with its outcome: a board that is there may miss it.
Ping(pong) ==
  IF pong THEN board = "plugged" /\ board' = "found" /\ UNCHANGED faults
  ELSE /\ board # "found" /\ UNCHANGED board
       /\ faults' = IF board = "absent" THEN faults ELSE faults + 1
       /\ faults' <= MaxFaults

\* The worker starts with a ping.
FindBoard ==
  /\ pc = "start" /\ pc' = "loop"
  /\ \E pong \in BOOLEAN : Ping(pong) /\ conn' = IF pong THEN "offline" ELSE "noboard"
  /\ UNCHANGED <<bridgeVars, screen, fails, buzzed, inputVars, req, stray, takenVars>>

\* [mutant] the loop waits for a flag, without a timeout.
WakesFlagged == pc = "loop" /\ flags # {} /\ flags' = {}

\* The loop's wait ends with a flag or with its timeout.
Wakes == pc = "loop" /\ flags' = {}

\* [mutant] the decision is looked at first, and the stop flag is lost with it.
StopsUnlessAnswered == "stop" \in flags /\ "decision" \notin flags

Stops == "stop" \in flags

\* [mutant] send_decision leaves app->decision as it was.
DecisionKept == decision

DecisionTaken == NoDecision

WakeToStop ==
  /\ Wakes /\ Stops /\ pc' = "done"
  /\ UNCHANGED <<bridgeVars, shownVars, decision, keyed, board, netVars, takenVars>>

\* Still no board: `continue'.
WakeToPing ==
  /\ Wakes /\ ~Stops /\ Ping(FALSE)
  /\ UNCHANGED <<bridgeVars, shownVars, decision, keyed, pc, req, stray, takenVars>>

\* A timeout is reported as a word that has the decision flag's bit set, so
\* send_decision is called either way: it takes the decision under the mutex,
\* and with none there the worker goes on to poll.  The ask's number is read
\* after that.
WakeToWork ==
  /\ Wakes /\ ~Stops
  /\ (board = "found" /\ UNCHANGED <<board, faults>>) \/ Ping(TRUE)
  /\ pc' = IF decision = NoDecision THEN "poll" ELSE "decide"
  /\ req' = IF decision = NoDecision THEN PollRequest
            ELSE Request("decision", decision, screen.ask)
  /\ decision' = DecisionTaken
  /\ UNCHANGED <<bridgeVars, shownVars, keyed, stray, takenVars>>

\* http_do fails; the board may still have the request.
Fails ==
  /\ faults < MaxFaults /\ faults' = faults + 1
  /\ stray' \in {stray} \cup (IF req.kind = "decision" /\ ~req.served
                              THEN {stray \cup {req.decision}} ELSE {})

\* The rest of send_decision.
Decided ==
  /\ pc = "decide"
  /\ \/ req.served /\ screen' = [screen EXCEPT !.pending = FALSE] /\ UNCHANGED <<stray, faults>>
     \/ Fails /\ UNCHANGED screen
  /\ pc' = "poll" /\ req' = PollRequest
  /\ UNCHANGED <<bridgeVars, conn, fails, buzzed, inputVars, board, takenVars>>

\* [mutant] a second ask that follows the first without a gap is no news.
NewPromptAfterNone == req.body.pending /\ ~screen.pending

NewPrompt == req.body.pending /\ (~screen.pending \/ req.body.ask # screen.ask)

\* [mutant] a good poll makes up for one failure instead of all.
FailsLess == fails - 1

NoFails == 0

\* The rest of poll_state: the reply goes to the screen, with a vibration when
\* its prompt is new, ...  That it is the reply to this request is taken from
\* FlipperHTTP.tla, where it may fail once a reply has come late.
Polled ==
  /\ pc = "poll" /\ req.served
  /\ screen' = req.body /\ conn' = "online" /\ fails' = NoFails
  /\ buzzed' = IF NewPrompt THEN req.body.of ELSE buzzed
  /\ pc' = "loop" /\ req' = NoRequest
  /\ UNCHANGED <<bridgeVars, inputVars, board, stray, faults, takenVars>>

\* ... and the second failure in a row takes the app offline.
PollFails ==
  /\ pc = "poll" /\ Fails
  /\ fails' = fails + 1
  /\ conn' = IF fails' >= 2 THEN "offline" ELSE conn
  /\ pc' = "loop" /\ req' = NoRequest
  /\ UNCHANGED <<bridgeVars, screen, buzzed, inputVars, board, takenVars>>

-----------------------------------------------------------------------------
Worker ==
  FindBoard \/ WakeToStop \/ WakeToPing \/ WakeToWork \/ Decided \/ Polled \/ PollFails

Next ==
  \/ BridgeStep \/ Serve \/ ServeStray
  \/ \E ans \in Answers : Key(ans)
  \/ Exit \/ Plug
  \/ Worker

Spec == Init /\ [][Next]_vars

\* The worker runs, and the bridge serves what reaches it.  Nobody has to press
\* a key or plug in a board, and the board may keep a stray request for ever.
FairSpec == Spec /\ WF_vars(Worker) /\ WF_vars(Serve)

-----------------------------------------------------------------------------
(* Properties.                                                              *)

\* Every variable has the values its declaration says.
TypeOK ==
  /\ B!GateTypeOK /\ seq \in Nat /\ losses \in Nat
  /\ screen \in Prompts /\ conn \in {"boot", "noboard", "offline", "online"}
  /\ fails \in Nat
  /\ buzzed \in Asks \cup {NoAsk} /\ decision \in KeyPresses \cup {NoDecision}
  /\ flags \subseteq {"stop", "decision"} /\ board \in {"absent", "plugged", "found"}
  /\ pc \in {"start", "loop", "decide", "poll", "done"}
  /\ req \in [kind : {"none", "poll", "decision"}, decision : KeyPresses \cup {NoDecision},
              ask : Nat, served : BOOLEAN, body : Prompts]
  /\ req.kind = "decision" => req.decision \in KeyPresses
  /\ stray \subseteq KeyPresses /\ faults \in Nat
  /\ keyed \in [Answers -> Nat] /\ taken \in [Answers -> Nat] /\ aim \in Asks \cup {NoAsk}

\* A key press counts at most once, whichever of its requests fail: the bridge
\* takes no answer more often than its key was pressed.
EachKeyCountsOnce == \A ans \in Answers : taken[ans] <= keyed[ans]

\* No prompt comes up in silence, not even one that replaces the prompt of
\* another ask between two polls: the number poll_state compares tells the asks
\* apart.  A bridge that starts over numbers them from 1 again, and then one may.
EveryPromptBuzzes == losses = 0 /\ PromptOnScreen => buzzed = screen.of

\* As long as the app runs and there is a board, what the bridge shows gets to the
\* screen: failed polls, a board that is plugged in late and a screen that is
\* offline delay it only.
EveryAskIsSeen ==
  \A a \in Asks :
    phase[a] = "shown" /\ board # "absent" ~>
      \/ phase[a] # "shown"
      \/ PromptOnScreen /\ screen.of = a
      \/ "stop" \in flags \/ pc = "done"

\* Holding BACK ends the worker, which the UI thread joins, also with a
\* decision waiting.
ExitEnds == ("stop" \in flags) ~> (pc = "done")

\* The Flipper is asked before the tool runs: the press an ask gets was made on
\* the prompt of that ask.
PressIsForItsPrompt == press # "none" => aim \in B!Shown
=============================================================================
