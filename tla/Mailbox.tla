------------------------------ MODULE Mailbox ------------------------------
(***************************************************************************)
(* The cloud relay, class Mailbox of cloud/worker.js.  A Durable Object    *)
(* runs one request at a time between awaits, so a handler is one action,  *)
(* except the long poll, which awaits its waiter or its timer; whether it   *)
(* is bump() or the timer that ends it is left open.  Everything is in     *)
(* memory: an evicted object starts again from its constructor.            *)
(***************************************************************************)
EXTENDS Naturals

CONSTANTS Flippers,      \* clients of GET /state?client=flipper
          BoxStale,      \* FLIPPER_STALE_MS
          MaxEvictions   \* bound: how often the object is evicted

ASSUME MailboxAssumption == BoxStale \in Nat \ {0} /\ MaxEvictions \in Nat

VARIABLES
  box,          \* this.s without its texts, status and detail
  decision,     \* this.decision, or NoDecision; `shown' is history: the ask the
                \* relay showed when it was made
  flipperAge,   \* time since this.lastFlipper
  boxPoll,      \* the clients with a long poll open
  screen,       \* what each client got last, and shows
  evictions

boxVars == <<box, decision, flipperAge, boxPoll, screen, evictions>>

BoxAnswers == {"allow", "deny"}
NoDecision == [answer |-> "none", ask |-> 0, shown |-> 0]
EmptyBox   == [pending |-> FALSE, ask |-> 0]

BoxOnline == flipperAge < BoxStale

BoxInit ==
  /\ box = EmptyBox /\ decision = NoDecision
  /\ flipperAge = BoxStale
  /\ boxPoll = {}
  /\ screen = [f \in Flippers |-> EmptyBox]
  /\ evictions = 0

\* [mutant] a decision survives the state it was made in.
DecisionKept(b) == decision

\* "nothing to answer any more"
DecisionAfter(b) == IF b.pending THEN decision ELSE NoDecision

\* PUT /state.
PutState(b) ==
  /\ box' = b
  /\ decision' = DecisionAfter(b)
  /\ UNCHANGED <<flipperAge, boxPoll, screen, evictions>>

\* GET /decision?take=1.
TakeDecision ==
  /\ decision' = NoDecision
  /\ UNCHANGED <<box, flipperAge, boxPoll, screen, evictions>>

\* GET /decision?answer=ans&ask=n with something pending, whatever n is ...
AnswerBox(ans, n) ==
  /\ ans \in BoxAnswers /\ box.pending
  /\ flipperAge' = 0
  /\ decision' = [answer |-> ans, ask |-> n, shown |-> box.ask]
  /\ box' = [box EXCEPT !.pending = FALSE]
  /\ UNCHANGED <<boxPoll, screen, evictions>>

\* ... with nothing pending, or an answer that is neither allow nor deny.
StrayAnswer(ans) ==
  /\ ~(ans \in BoxAnswers /\ box.pending)
  /\ flipperAge' = 0
  /\ UNCHANGED <<box, decision, boxPoll, screen, evictions>>

\* GET /state?client=flipper&wait=...: the handler awaits a bump or its timer,
\* then answers with the state of that moment, which goes to the screen.
BoxPollStart(f) ==
  /\ f \notin boxPoll
  /\ flipperAge' = 0
  /\ boxPoll' = boxPoll \cup {f}
  /\ UNCHANGED <<box, decision, screen, evictions>>

BoxPollReply(f) ==
  /\ f \in boxPoll
  /\ boxPoll' = boxPoll \ {f}
  /\ screen' = [screen EXCEPT ![f] = box]
  /\ UNCHANGED <<box, decision, flipperAge, evictions>>

Evict ==
  /\ evictions < MaxEvictions /\ evictions' = evictions + 1
  /\ box' = EmptyBox /\ decision' = NoDecision
  /\ flipperAge' = BoxStale
  /\ boxPoll' = {}
  /\ UNCHANGED screen

BoxTick ==
  /\ flipperAge' = IF flipperAge < BoxStale THEN flipperAge + 1 ELSE BoxStale
  /\ UNCHANGED <<box, decision, boxPoll, screen, evictions>>
=============================================================================
