------------------------------ MODULE UartLife ------------------------------
(***************************************************************************)
(* The life of the UART client.  The app's UI thread builds it             *)
(* (flipper_http_alloc), starts the worker of FlipperHTTP.tla over it, and *)
(* on exit joins the worker and takes the client down (flipper_http_free). *)
(* The receive thread and the timer work on it all the while, and the      *)
(* board, which may be answering the app's previous run, knows nothing of  *)
(* this.                                                                   *)
(*                                                                         *)
(* A thread that uses what does not exist writes through a null or freed   *)
(* pointer: the Flipper crashes.                                           *)
(***************************************************************************)
EXTENDS FlipperHTTP

VARIABLES
  ui,     \* where the UI thread is
  parts   \* the parts of the client that exist

lifeVars == <<httpVars, ui, parts>>

\* What a line is received with.
Core  == {"struct", "stream", "timer", "buffer"}
Parts == Core \cup {"receiver", "uart", "callback", "context"}

\* The order of flipper_http_alloc and of the assignments that follow it:
\* reception is on before there are a timer and a last_response.
MadeAfter ==
  [struct   |-> {},         stream |-> {"struct"}, receiver |-> {"stream"},
   uart     |-> {"receiver"}, timer  |-> {"uart"},  buffer  |-> {"timer"},
   callback |-> {"buffer"}, context |-> {"callback"}]

\* [mutant] the timer is freed as soon as reception is off.
FreedAfterTimerFirst ==
  [uart  |-> {},         receiver |-> {"uart"},  stream |-> {"receiver"},
   timer |-> {"uart"}, buffer   |-> {"timer"}, struct |-> {"buffer", "stream"}]

\* The order of flipper_http_free.
FreedAfter ==
  [uart  |-> {},         receiver |-> {"uart"},  stream |-> {"receiver"},
   timer |-> {"stream"}, buffer   |-> {"timer"}, struct |-> {"buffer"}]

LifeInit == Init /\ ui = "starting" /\ parts = {}

-----------------------------------------------------------------------------
(* The UI thread.                                                           *)

Make(p) ==
  /\ ui = "starting" /\ p \notin parts /\ MadeAfter[p] \subseteq parts
  /\ parts' = parts \cup {p}
  /\ UNCHANGED <<httpVars, ui>>

\* The UART is busy, or there is no memory: what was built is taken down again
\* and the app goes on without a client, and without a worker.
MakeFails ==
  /\ ui = "starting" /\ "buffer" \notin parts
  /\ ui' = "over" /\ parts' = {}
  /\ UNCHANGED httpVars

StartWorker ==
  /\ ui = "starting" /\ parts = Parts
  /\ ui' = "running"
  /\ UNCHANGED <<httpVars, parts>>

\* BACK is held: EvtStop is set, and the worker joined.
Leave ==
  /\ ui = "running" /\ ui' = "stopping"
  /\ UNCHANGED <<httpVars, parts>>

\* The worker sees EvtStop in its loop.
WorkerEnds ==
  /\ ui = "stopping" /\ pc = "ready"
  /\ ui' = "closing"
  /\ UNCHANGED <<httpVars, parts>>

\* receiver: WorkerEvtStop is set and the thread joined; struct: with all that
\* is left in it.
Free(p) ==
  /\ ui = "closing" /\ p \in parts /\ FreedAfter[p] \cap parts = {}
  /\ parts' = IF p = "struct" THEN {} ELSE parts \ {p}
  /\ ui' = IF p = "struct" THEN "over" ELSE ui
  /\ UNCHANGED httpVars

-----------------------------------------------------------------------------
(* The threads that work on the client.                                     *)

\* Lines get to the receive thread: from the UART, or, when reception is off
\* again, from the stream buffer.
Listens == "receiver" \in parts /\ (ui = "starting" => "uart" \in parts)

\* The threads with something to do, and what they use.  Most lines are for the
\* app's rx_line too, once it is registered.
Due == (IF Listens /\ todo # <<>> THEN {"receiver"} ELSE {})
         \cup (IF "timer" \in parts /\ timer = 1 THEN {"timer"} ELSE {})

Uses(t) == IF t = "timer" THEN {"struct"}
           ELSE IF "callback" \in parts THEN Core \cup {"context"} ELSE Core

Ends == ui \in {"over", "crashed"}

Crashes ==
  /\ ~Ends /\ \E t \in Due : ~(Uses(t) \subseteq parts)
  /\ ui' = "crashed"
  /\ UNCHANGED <<httpVars, parts>>

\* The worker, which finishes its round after EvtStop.
LifeBegins ==
  /\ ui \in {"running", "stopping"}
  /\ \/ BeginHttp
     \/ \E c \in Pings : BeginPing(c)
     \/ \E c \in {"save", "connect"} : BeginCommand(c)
  /\ UNCHANGED <<ui, parts>>

LifeWorker == ui \in {"running", "stopping"} /\ Worker /\ UNCHANGED <<ui, parts>>

LifeLine ==
  /\ ~Ends /\ Listens /\ Core \subseteq parts
  /\ BoardFinishes \/ BoardReplies
  /\ UNCHANGED <<ui, parts>>

\* The board stops, or nobody listens.
LifeForgets == ~Ends /\ BoardForgets /\ UNCHANGED <<ui, parts>>

LifeTimer == ~Ends /\ {"timer", "struct"} \subseteq parts /\ TimerFires /\ UNCHANGED <<ui, parts>>

LifeTick == ~Ends /\ Tick /\ UNCHANGED <<ui, parts>>

LifeNext ==
  \/ \E p \in Parts : Make(p)
  \/ \E p \in DOMAIN FreedAfter : Free(p)
  \/ MakeFails \/ StartWorker \/ Leave \/ WorkerEnds \/ Crashes
  \/ LifeBegins \/ LifeWorker \/ LifeLine \/ LifeForgets \/ LifeTimer \/ LifeTick

LifeSpec == LifeInit /\ [][LifeNext]_lifeVars

\* The fairness of FlipperHTTP.tla.
FairLifeSpec ==
  LifeSpec /\ WF_lifeVars(LifeWorker) /\ WF_lifeVars(LifeTimer) /\ WF_lifeVars(LifeTick)

-----------------------------------------------------------------------------
\* Once the worker has been started, the receive thread and the timer never
\* touch a part that is not there: flipper_http_free takes nothing away from a
\* thread that may still run.  While the client is built it is not so.
SafeOnceStarted ==
  ui \in {"running", "stopping", "closing"} => \A t \in Due : Uses(t) \subseteq parts
=============================================================================
