---------------------------- MODULE FlipperHTTP ----------------------------
(***************************************************************************)
(* The Flipper's side of the UART: the FlipperHTTP library, as far as the  *)
(* app calls it (GET requests and commands; files, BYTES and the other     *)
(* methods have no caller), and the app's http_do, board_ping and the      *)
(* order in which its worker thread calls them.                            *)
(*                                                                         *)
(* Three threads share the FlipperHTTP struct without a lock: the app's    *)
(* worker, the library's receive thread, which runs                        *)
(* flipper_http_rx_callback on every line, and the timer thread.  The dev  *)
(* board is external: it carries out one command at a time and answers in  *)
(* lines, whenever it likes, or never.  The time a line spends in the UART *)
(* and the stream buffer is part of the board's delay.                     *)
(*                                                                         *)
(* A reply carries no number of the request it answers.  `of' is not in    *)
(* the code: it says which one it is, so that properties can tell.         *)
(***************************************************************************)
EXTENDS Naturals, Sequences

CONSTANTS RequestTimeout, \* REQUEST_TIMEOUT_MS, 7 s
          LineTimeout,    \* TIMEOUT_DURATION_TICKS, 5 s
          PingWait,       \* board_ping's loop, 3 s
          CommandWait,    \* the delay after [WIFI/CONNECT] or [WIFI/SAVE]
          Leftover,       \* the board may be busy with a request of the app's previous run
          MaxCommands     \* bound: how many commands the app sends

ASSUME HTTPAssumption ==
  /\ RequestTimeout \in Nat \ {0} /\ LineTimeout \in Nat \ {0}
  /\ PingWait \in Nat \ {0} /\ CommandWait \in Nat \ {0}
  /\ Leftover \in BOOLEAN /\ MaxCommands \in Nat

VARIABLES
  state,     \* fhttp->state
  started,   \* fhttp->started_receiving
  status,    \* fhttp->status_code
  last,      \* fhttp->last_response
  timer,     \* get_timeout_timer: 0 stopped, 1 due, more when that much later
  pc, cmd,   \* where the app's worker is, the command it is at
  may,       \* the commands it may send next
  pong,      \* app->pong
  waited,    \* time in the loop that waits for the board
  count,     \* commands sent so far
  used,      \* the last reply poll_state parsed: for which request, of which
  todo,      \* the commands the board has not finished
  late       \* (history) a wait was cut short before the board was done, in this run or the
             \* last, and no command has begun with the board done since

libVars   == <<state, started, status, last, timer>>
appVars   == <<pc, cmd, may, waited, count, used>>
boardVars == <<todo>>
httpVars  == <<libVars, pong, appVars, boardVars, late>>

Commands == {"boot", "ping", "save", "connect", "http"}
Pings    == {"boot", "ping"}
States   == {"INACTIVE", "IDLE", "RECEIVING", "SENDING", "ISSUE"}
Kinds    == {"header", "body", "end", "error", "pong", "info", "connected"}
NoLine   == [kind |-> "none", of |-> 0]

\* A request of the previous run, at whatever point.
OldRequests == {[cmd |-> "http", of |-> 0, sent |-> s] : s \in {"nothing", "header", "body"}}

Init ==
  /\ state = "IDLE" /\ started = FALSE /\ status = 0 /\ last = NoLine /\ timer = 0
  /\ pc = "ready" /\ cmd = "boot" /\ may = {"boot"} /\ pong = FALSE
  /\ waited = 0 /\ count = 0 /\ used = [for |-> 0, of |-> 0]
  /\ todo \in {<<>>} \cup (IF Leftover THEN {<<r>> : r \in OldRequests} ELSE {})
  /\ late = (todo # <<>>)

-----------------------------------------------------------------------------
(* The receive thread and the timer.                                        *)

\* furi_timer_start and furi_timer_restart.
Armed == LineTimeout + 1

\* Any line wakes the state up ...
Receiving == IF state \in {"INACTIVE", "ISSUE"} THEN state ELSE "RECEIVING"

\* ... a line of the body restarts the timer, and [GET/END] ends the body.
BodyLine(l) ==
  /\ IF l.kind = "end"
     THEN timer' = 0 /\ started' = FALSE /\ state' = "IDLE"
     ELSE timer' = Armed /\ state' = Receiving /\ UNCHANGED started
  /\ UNCHANGED status

\* [mutant] the status code is copied one character short.
SetHeaderShort(l) == status' = l.code \div 10

\* set_header.
SetHeader(l) == status' = l.code

\* [mutant] no return after the header: the line ends in the last branch.
HeaderStateFalling == "IDLE"

HeaderState == "RECEIVING"

\* [mutant] the timer is not started.
HeaderTimerUntouched == timer

HeaderTimer == Armed

\* [GET/SUCCESS] and the status code.
HeaderLine(l) ==
  /\ l.kind = "header"
  /\ timer' = HeaderTimer /\ started' = TRUE /\ state' = HeaderState
  /\ SetHeader(l)

\* The other lines outside a body; also a body that was given up.
OtherLine(l) ==
  /\ l.kind # "header"
  /\ state' = CASE l.kind = "error"            -> "ISSUE"
                [] l.kind \in {"pong", "info"} -> "IDLE"
                [] OTHER -> IF state = "INACTIVE" THEN "INACTIVE" ELSE "IDLE"
  /\ UNCHANGED <<started, status, timer>>

\* flipper_http_rx_callback on one line, with the app's rx_line in it.
RxLine(l) ==
  /\ last' = IF l.kind = "end" THEN last ELSE [kind |-> l.kind, of |-> l.of]
  /\ pong' = (pong \/ l.kind = "pong")
  /\ IF started THEN BodyLine(l) ELSE HeaderLine(l) \/ OtherLine(l)

\* get_timeout_timer_callback.
TimerFires ==
  /\ timer = 1 /\ timer' = 0
  /\ started' = FALSE /\ state' = "ISSUE"
  /\ late' = (late \/ todo # <<>>)
  /\ UNCHANGED <<status, last, pong, appVars, boardVars>>

-----------------------------------------------------------------------------
(* The board.                                                               *)

\* A line as flipper_http_worker cuts it out of the stream.
Line(kind) == [kind |-> kind, of |-> Head(todo).of, code |-> 0]

\* The lines that finish a command, or report that it failed.
BoardFinishes ==
  /\ todo # <<>>
  /\ \/ Head(todo).cmd \in Pings /\ RxLine(Line("pong"))
     \/ Head(todo).cmd \in {"save", "connect"} /\ \E k \in {"connected", "info"} : RxLine(Line(k))
     \/ Head(todo).cmd = "http" /\ Head(todo).sent = "body" /\ RxLine(Line("end"))
     \/ Head(todo).cmd \notin Pings /\ RxLine(Line("error"))
  /\ todo' = Tail(todo)
  /\ UNCHANGED <<appVars, late>>

\* A reply on its way: the header, then the body.
BoardSends(kind) ==
  /\ todo' = [todo EXCEPT ![1] = [Head(todo) EXCEPT !.sent = kind]]
  /\ UNCHANGED <<appVars, late>>

BoardReplies ==
  /\ todo # <<>> /\ Head(todo).cmd = "http"
  /\ \/ /\ Head(todo).sent = "nothing"
        /\ \E code \in {200, 404} : RxLine([Line("header") EXCEPT !.code = code])
        /\ BoardSends("header")
     \/ Head(todo).sent = "header" /\ RxLine(Line("body")) /\ BoardSends("body")

\* The rest never comes: reset, unplugged, or garbled on the UART.
BoardForgets ==
  /\ todo # <<>> /\ todo' = Tail(todo)
  /\ UNCHANGED <<libVars, pong, appVars, late>>

-----------------------------------------------------------------------------
(* The worker thread of the app.                                            *)

\* What follows a command in worker(): the credentials are pushed at boot if
\* there is a wifi.txt; after a failed poll the board may be told to reconnect.
After(c, ok) ==
  CASE c = "boot"    -> IF ok THEN {"save", "connect"} ELSE {"ping"}
    [] c = "ping"    -> IF ok THEN {"connect"} ELSE {"ping"}
    [] c = "save"    -> {"connect"}
    [] c = "connect" -> {"http"}
    [] c = "http"    -> IF ok THEN {"http"} ELSE {"http", "connect"}

Begin(c) ==
  /\ pc = "ready" /\ c \in may /\ count < MaxCommands
  /\ pc' = "send" /\ cmd' = c /\ count' = count + 1 /\ waited' = 0
  /\ late' = (late /\ todo # <<>>) /\ used' = [for |-> 0, of |-> 0]
  /\ UNCHANGED <<started, timer, may, boardVars>>

\* http_do clears the reply.
BeginHttp ==
  /\ Begin("http")
  /\ state' = "IDLE" /\ last' = NoLine /\ status' = 0
  /\ UNCHANGED pong

\* board_ping, and the PING of flipper_http_send_command.
BeginPing(c) ==
  /\ Begin(c)
  /\ state' = "INACTIVE" /\ pong' = FALSE
  /\ UNCHANGED <<last, status>>

\* flipper_http_save_wifi, and [WIFI/CONNECT].
BeginCommand(c) == Begin(c) /\ UNCHANGED <<state, last, status, pong>>

\* The command as it goes to the board.
Request == [cmd |-> cmd, of |-> count, sent |-> "nothing"]

\* flipper_http_send_data; INACTIVE stops none of these: only a ping comes in
\* that state.
Transmit ==
  /\ pc = "send" /\ (state = "INACTIVE" => cmd \in Pings \cup {"connect"})
  /\ pc' = "sent" /\ state' = "SENDING"
  /\ todo' = Append(todo, Request)
  /\ UNCHANGED <<started, status, last, timer, pong, cmd, may, waited, count, used, late>>

\* send_data leaves IDLE behind, which http_do overwrites with RECEIVING: a
\* line received before that is overwritten too.
Sent ==
  /\ pc = "sent"
  /\ pc' = "wait" /\ state' = IF cmd = "http" THEN "RECEIVING" ELSE "IDLE"
  /\ UNCHANGED <<started, status, last, timer, pong, cmd, may, waited, count, used, boardVars, late>>

Limit == CASE cmd = "http" -> RequestTimeout [] cmd \in Pings -> PingWait [] OTHER -> CommandWait

TimedOut == waited >= Limit

\* [mutant] http_do waits for as long as the state is RECEIVING.
WaitIsOverLate == IF cmd = "http" THEN state # "RECEIVING" ELSE TimedOut \/ (cmd \in Pings /\ pong)

WaitIsOver == TimedOut \/ (cmd = "http" /\ state # "RECEIVING") \/ (cmd \in Pings /\ pong)

Ok == IF cmd = "http" THEN state = "IDLE" /\ status = 200 ELSE cmd \in Pings => pong

Return ==
  /\ pc = "wait" /\ WaitIsOver
  /\ state' = "IDLE"
  /\ pc' = IF cmd = "http" /\ Ok THEN "parse" ELSE "ready"
  /\ may' = After(cmd, Ok)
  /\ late' = (late \/ (TimedOut /\ todo # <<>>))
  /\ UNCHANGED <<started, status, last, timer, pong, cmd, waited, count, used, boardVars>>

\* poll_state looks for the fields in last_response, which the receive thread
\* goes on writing to.
Parse ==
  /\ pc = "parse" /\ pc' = "ready"
  /\ IF last.kind = "body"
     THEN used' = [for |-> count, of |-> last.of] /\ UNCHANGED may
     ELSE may' = After("http", FALSE) /\ UNCHANGED used
  /\ UNCHANGED <<libVars, pong, cmd, waited, count, boardVars, late>>

-----------------------------------------------------------------------------
Urgent == pc \in {"send", "sent", "parse"} \/ (pc = "wait" /\ WaitIsOver) \/ timer = 1

Tick ==
  /\ ~Urgent
  /\ waited' = IF pc = "wait" /\ ~TimedOut THEN waited + 1 ELSE waited
  /\ timer' = IF timer > 0 THEN timer - 1 ELSE 0
  /\ UNCHANGED <<state, started, status, last, pong, pc, cmd, may, count, used, boardVars, late>>

Worker == Transmit \/ Sent \/ Return \/ Parse

Next ==
  \/ BeginHttp
  \/ \E c \in Pings : BeginPing(c)
  \/ \E c \in {"save", "connect"} : BeginCommand(c)
  \/ Worker
  \/ BoardFinishes \/ BoardReplies \/ BoardForgets
  \/ TimerFires \/ Tick

Spec == Init /\ [][Next]_httpVars

\* The worker thread and the timer run; the board may do nothing at all, and
\* nothing makes the worker send another command.
FairSpec == Spec /\ WF_httpVars(Worker) /\ WF_httpVars(TimerFires) /\ WF_httpVars(Tick)

-----------------------------------------------------------------------------
(* Properties.                                                              *)

\* Every variable has the values its declaration says.
TypeOK ==
  /\ state \in States /\ started \in BOOLEAN /\ status \in {0, 200, 404}
  /\ last \in [kind : Kinds \cup {"none"}, of : Nat] /\ timer \in 0 .. Armed
  /\ pc \in {"ready", "send", "sent", "wait", "parse"} /\ cmd \in Commands
  /\ may \subseteq Commands /\ pong \in BOOLEAN
  /\ waited \in Nat /\ count \in Nat /\ used \in [for : Nat, of : Nat]
  /\ todo \in Seq([cmd : Commands, of : Nat, sent : {"nothing", "header", "body"}])
  /\ late \in BOOLEAN

\* The comment on http_do: it waits for the end marker and returns true on HTTP
\* 200.  What poll_state then reads is the reply to its own request.
OwnReply == used.for = used.of

\* Requests and replies stay in step until a wait is cut short before the board is
\* done: status and state are reset at the right moments, and the header does not
\* end the wait.  They get into step again with the first command that begins with
\* the board done, after a late reply or what the app's previous run left behind.
OwnReplyUnlessLate == late \/ OwnReply

\* http_do waits for the end marker, or the error, of its own request: in step, it
\* does not come back early and leave lines behind, unless it times out.
EndsWithTheReply ==
  [][(pc = "wait" /\ pc' # "wait" /\ cmd = "http" /\ ~late /\ ~TimedOut) => todo = <<>>]_httpVars

\* The receiver is never stuck in a body: while started_receiving is set, which
\* makes every line count as data, the timer that clears it runs.
StartedIsTimed == started => timer > 0

\* Whatever the board does, the worker gets back to its loop, where it polls
\* and sends decisions.
AlwaysReturns == (pc # "ready") ~> (pc = "ready")
=============================================================================
