----------------------------- MODULE HttpProofs -----------------------------
(***************************************************************************)
(* What TLAPS proves of FlipperHTTP.tla, for any timeouts and any number   *)
(* of commands: its types, that the receiver is never stuck in a body,     *)
(* that requests and replies are in step whenever a command begins with    *)
(* the board done, until a wait is cut short, and that none is refused.    *)
(***************************************************************************)
EXTENDS FlipperHTTP, SequenceTheorems, TLAPS

Orders == [cmd : Commands, of : Nat, sent : {"nothing", "header", "body"}]
Lines  == [kind : Kinds, of : Nat, code : {0, 200, 404}]

\* The part of TypeOK that a line can change.
LibTypeOK ==
  /\ state \in States /\ started \in BOOLEAN /\ status \in {0, 200, 404}
  /\ last \in [kind : Kinds \cup {"none"}, of : Nat] /\ timer \in 0 .. Armed
  /\ pong \in BOOLEAN

LEMMA ArmedType == Armed \in Nat /\ Armed > 1
  BY HTTPAssumption DEF Armed

LEMMA InitType == Init => TypeOK
<1> SUFFICES ASSUME Init PROVE TypeOK
  OBVIOUS
<1>1. LibTypeOK
  <2>1. started \in BOOLEAN /\ pong \in BOOLEAN BY DEF Init
  <2>2. timer \in 0 .. Armed BY ArmedType DEF Init
  <2>3. state \in States /\ status \in {0, 200, 404} BY DEF Init, States
  <2>4. last \in [kind : Kinds \cup {"none"}, of : Nat] BY DEF Init, Kinds, NoLine
  <2> QED BY <2>1, <2>2, <2>3, <2>4 DEF LibTypeOK
<1>2. todo \in Seq(Orders)
  <2>1. OldRequests \subseteq Orders BY DEF OldRequests, Orders, Commands
  <2>2. todo = <<>> \/ \E r \in OldRequests : todo = <<r>> BY DEF Init
  <2>3. ASSUME NEW r \in OldRequests, todo = <<r>> PROVE todo \in Seq(Orders)
    <3>1. r \in Orders BY <2>1
    <3> QED BY <2>3, <3>1
  <2>4. CASE todo = <<>>
    BY <2>4
  <2> QED BY <2>2, <2>3, <2>4
<1>3. late \in BOOLEAN BY DEF Init
<1>4. /\ pc = "ready" /\ cmd = "boot" /\ may = {"boot"}
      /\ waited = 0 /\ count = 0 /\ used = [for |-> 0, of |-> 0]
  BY DEF Init
<1> QED BY <1>1, <1>2, <1>3, <1>4 DEF TypeOK, LibTypeOK, Commands, Orders

\* The receive thread on any line.
LEMMA RxLineTypes ==
  ASSUME LibTypeOK, NEW l \in Lines, RxLine(l)
  PROVE  LibTypeOK'
<1> USE ArmedType
<1>1. last' \in [kind : Kinds \cup {"none"}, of : Nat] /\ pong' \in BOOLEAN
  BY DEF RxLine, LibTypeOK, Lines
<1>2. CASE BodyLine(l)
  <2>1. started' \in BOOLEAN BY <1>2 DEF BodyLine, LibTypeOK
  <2>2. timer' \in 0 .. Armed BY <1>2 DEF BodyLine
  <2>3. state' \in States /\ status' = status BY <1>2 DEF BodyLine, LibTypeOK, Receiving, States
  <2> QED BY <1>1, <2>1, <2>2, <2>3 DEF LibTypeOK
<1>3. CASE HeaderLine(l)
  BY <1>1, <1>3 DEF HeaderLine, HeaderState, HeaderTimer, SetHeader, LibTypeOK, Lines, States
<1>4. CASE OtherLine(l)
  <2>1. state' \in States BY <1>4 DEF OtherLine, States
  <2>2. UNCHANGED <<started, status, timer>> BY <1>4 DEF OtherLine
  <2> QED BY <1>1, <2>1, <2>2 DEF LibTypeOK
<1> QED BY <1>2, <1>3, <1>4 DEF RxLine

\* The board's step on its first command: the last line, or another one.
Finishes(l) == todo' = Tail(todo) /\ l.kind \notin {"header", "body"}

Continues(l) ==
  /\ l.kind \in {"header", "body"}
  /\ l.kind = "body" => Head(todo).sent = "header"
  /\ todo' = [todo EXCEPT ![1] = [Head(todo) EXCEPT !.sent = l.kind]]

LEMMA BoardLine ==
  ASSUME TypeOK, BoardFinishes \/ BoardReplies
  PROVE  /\ todo # <<>> /\ UNCHANGED <<appVars, late>>
         /\ \E l \in Lines : l.of = Head(todo).of /\ RxLine(l) /\ (Finishes(l) \/ Continues(l))
<1>1. todo # <<>> /\ UNCHANGED <<appVars, late>>
  BY DEF BoardFinishes, BoardReplies, BoardSends
<1>2. Head(todo) \in Orders BY <1>1, HeadTailProperties DEF TypeOK, Orders
<1>3. ASSUME NEW k \in Kinds PROVE Line(k) \in Lines /\ Line(k).of = Head(todo).of /\ Line(k).kind = k
  BY <1>2, <1>3 DEF Line, Lines, Orders
<1>4. CASE BoardFinishes
  <2>1. PICK k \in {"pong", "connected", "info", "end", "error"} : RxLine(Line(k)) /\ todo' = Tail(todo)
    BY <1>4 DEF BoardFinishes
  <2>2. k \in Kinds BY <2>1 DEF Kinds
  <2>3. Finishes(Line(k)) BY <1>3, <2>1, <2>2 DEF Finishes
  <2> QED BY <1>1, <1>3, <2>1, <2>2, <2>3
<1>5. CASE BoardReplies /\ Head(todo).sent = "nothing"
  <2>1. PICK code \in {200, 404} : RxLine([Line("header") EXCEPT !.code = code])
    BY <1>5 DEF BoardReplies
  <2> DEFINE l == [Line("header") EXCEPT !.code = code]
  <2>2. l \in Lines /\ l.of = Head(todo).of /\ l.kind = "header"
    BY <1>2 DEF Line, Lines, Orders, Kinds
  <2>3. todo' = [todo EXCEPT ![1] = [Head(todo) EXCEPT !.sent = "header"]]
    BY <1>5 DEF BoardReplies, BoardSends
  <2> HIDE DEF l
  <2>4. Continues(l) BY <2>2, <2>3 DEF Continues
  <2>5. RxLine(l) BY <2>1 DEF l
  <2> QED BY <1>1, <2>2, <2>4, <2>5
<1>6. CASE BoardReplies /\ Head(todo).sent # "nothing"
  <2>1. Head(todo).sent = "header" /\ RxLine(Line("body")) /\ BoardSends("body")
    BY <1>6 DEF BoardReplies
  <2>2. "body" \in Kinds BY DEF Kinds
  <2>3. Continues(Line("body")) BY <1>3, <2>1, <2>2 DEF Continues, BoardSends
  <2> QED BY <1>1, <1>3, <2>1, <2>2, <2>3
<1> QED BY <1>4, <1>5, <1>6

\* The queue of the board, one line later.
LEMMA BoardQueue ==
  ASSUME todo \in Seq(Orders), todo # <<>>, NEW l \in Lines, Finishes(l) \/ Continues(l)
  PROVE  /\ todo' \in Seq(Orders)
         /\ Len(todo) = 1 /\ Finishes(l) => todo' = <<>>
         /\ Len(todo) = 1 /\ Continues(l) =>
              /\ Len(todo') = 1
              /\ Head(todo').of = Head(todo).of /\ Head(todo').sent = l.kind
<1>1. Head(todo) \in Orders /\ Tail(todo) \in Seq(Orders) /\ Len(Tail(todo)) = Len(todo) - 1
      /\ Len(todo) \in Nat \ {0}
  BY HeadTailProperties, EmptySeq
<1>2. CASE Finishes(l)
  <2>1. todo' \in Seq(Orders) BY <1>1, <1>2 DEF Finishes
  <2>2. Len(todo) = 1 => Len(todo') = 0 BY <1>1, <1>2 DEF Finishes
  <2>3. Len(todo) = 1 => todo' = <<>> BY <2>1, <2>2, EmptySeq
  <2> QED BY <1>2, <2>1, <2>3 DEF Finishes, Continues
<1>3. CASE Continues(l)
  <2> DEFINE order == [Head(todo) EXCEPT !.sent = l.kind]
  <2>1. order \in Orders /\ order.of = Head(todo).of /\ order.sent = l.kind
    BY <1>1, <1>3 DEF Orders, Continues
  <2>2. todo' = [todo EXCEPT ![1] = order] BY <1>3 DEF Continues
  <2> HIDE DEF order
  <2>3. 1 \in 1 .. Len(todo) BY <1>1
  <2>4. todo' \in Seq(Orders) /\ Len(todo') = Len(todo) /\ todo'[1] = order
    BY <2>1, <2>2, <2>3, ExceptSeq
  <2>5. Head(todo') = order BY <2>3, <2>4
  <2> QED BY <1>3, <2>1, <2>4, <2>5 DEF Finishes, Continues
<1> QED BY <1>2, <1>3

LEMMA TypeStep == TypeOK /\ [Next]_httpVars => TypeOK'
<1> SUFFICES ASSUME TypeOK, [Next]_httpVars PROVE TypeOK'
  OBVIOUS
<1> USE ArmedType
<1>a. LibTypeOK BY DEF TypeOK, LibTypeOK
<1>b. todo \in Seq(Orders) BY DEF TypeOK, Orders
\* TypeOK in the parts that the threads change.
<1>c. ASSUME LibTypeOK',
             pc' \in {"ready", "send", "sent", "wait", "parse"}, cmd' \in Commands,
             may' \subseteq Commands, waited' \in Nat, count' \in Nat,
             used' \in [for : Nat, of : Nat], todo' \in Seq(Orders), late' \in BOOLEAN
      PROVE  TypeOK'
  BY <1>c DEF TypeOK, LibTypeOK, Orders
<1>d. ASSUME UNCHANGED <<libVars, pong>> PROVE LibTypeOK'
  BY <1>a, <1>d DEF libVars, LibTypeOK
<1>e. \A c \in Commands : After(c, TRUE) \subseteq Commands /\ After(c, FALSE) \subseteq Commands
  BY DEF After, Commands
<1>1. CASE BoardFinishes \/ BoardReplies
  <2>1. todo # <<>> /\ UNCHANGED <<appVars, late>>
    BY <1>1, BoardLine
  <2>2. PICK l \in Lines : l.of = Head(todo).of /\ RxLine(l) /\ (Finishes(l) \/ Continues(l))
    BY <1>1, BoardLine
  <2>3. LibTypeOK'
    <3>1. RxLine(l) BY <2>2
    <3> QED BY <1>a, <3>1, RxLineTypes
  <2>4. todo' \in Seq(Orders) BY <1>b, <2>1, <2>2, BoardQueue
  <2> QED BY <1>c, <2>1, <2>3, <2>4 DEF appVars, TypeOK
<1>2. CASE BoardForgets
  <2>1. todo' \in Seq(Orders) BY <1>2, <1>b, HeadTailProperties DEF BoardForgets
  <2> QED BY <1>2, <1>c, <1>d, <2>1 DEF BoardForgets, appVars, TypeOK
<1>3. ASSUME NEW c \in Commands, Begin(c), LibTypeOK' PROVE TypeOK'
  <2>1. used' = [for |-> 0, of |-> 0] /\ late' \in BOOLEAN BY <1>3 DEF Begin
  <2>2. used' \in [for : Nat, of : Nat] BY <2>1
  <2> QED BY <1>3, <1>b, <1>c, <2>1, <2>2 DEF Begin, boardVars, TypeOK
<1>4. CASE BeginHttp
  <2>1. LibTypeOK'
    <3>1. UNCHANGED <<started, timer, pong>> /\ state' = "IDLE" /\ last' = NoLine /\ status' = 0
      BY <1>4 DEF BeginHttp, Begin
    <3>2. state' \in States /\ last' \in [kind : Kinds \cup {"none"}, of : Nat]
      BY <3>1 DEF States, NoLine
    <3> QED BY <1>a, <3>1, <3>2 DEF LibTypeOK
  <2> QED BY <1>3, <1>4, <2>1 DEF BeginHttp, Commands
<1>5. ASSUME NEW c \in Pings, BeginPing(c) PROVE TypeOK'
  <2>1. LibTypeOK'
    <3>1. UNCHANGED <<started, timer, last, status>> /\ state' = "INACTIVE" /\ pong' \in BOOLEAN
      BY <1>5 DEF BeginPing, Begin
    <3>2. state' \in States BY <3>1 DEF States
    <3> QED BY <1>a, <3>1, <3>2 DEF LibTypeOK
  <2> QED BY <1>3, <1>5, <2>1 DEF BeginPing, Pings, Commands
<1>6. ASSUME NEW c \in {"save", "connect"}, BeginCommand(c) PROVE TypeOK'
  <2>1. LibTypeOK' BY <1>6, <1>d DEF BeginCommand, Begin, libVars
  <2> QED BY <1>3, <1>6, <2>1 DEF BeginCommand, Commands
<1>7. ASSUME state' \in States, UNCHANGED <<started, status, last, timer, pong>> PROVE LibTypeOK'
  BY <1>a, <1>7 DEF LibTypeOK
<1>8. CASE Transmit
  <2>1. LibTypeOK' BY <1>7, <1>8 DEF Transmit, States
  <2>2. Request \in Orders BY DEF Request, Orders, TypeOK
  <2>3. todo' \in Seq(Orders) BY <1>8, <1>b, <2>2, AppendProperties DEF Transmit
  <2> QED BY <1>8, <1>c, <2>1, <2>3 DEF Transmit, TypeOK
<1>9. CASE Sent
  <2>1. LibTypeOK' BY <1>7, <1>9 DEF Sent, States
  <2> QED BY <1>9, <1>b, <1>c, <2>1 DEF Sent, boardVars, TypeOK
<1>10. CASE Return
  <2>1. LibTypeOK' BY <1>7, <1>10 DEF Return, States
  <2>2. Ok \in BOOLEAN BY DEF Ok
  <2>3. may' \subseteq Commands
    <3>1. may' \in {After(cmd, TRUE), After(cmd, FALSE)} BY <1>10, <2>2 DEF Return
    <3>2. cmd \in Commands BY DEF TypeOK
    <3> QED BY <3>1, <3>2, <1>e
  <2>4. late' \in BOOLEAN BY <1>10 DEF Return
  <2>5. pc' \in {"ready", "send", "sent", "wait", "parse"} BY <1>10 DEF Return
  <2> QED BY <1>10, <1>b, <1>c, <2>1, <2>3, <2>4, <2>5 DEF Return, boardVars, TypeOK
<1>11. CASE Parse
  <2>1. LibTypeOK' BY <1>11, <1>d DEF Parse
  <2>2. used' \in [for : Nat, of : Nat]
    <3>1. count \in Nat /\ last.of \in Nat BY DEF TypeOK
    <3>2. used' = used \/ used' = [for |-> count, of |-> last.of] BY <1>11 DEF Parse
    <3> QED BY <3>1, <3>2 DEF TypeOK
  <2>3. may' \subseteq Commands
    <3>1. "http" \in Commands BY DEF Commands
    <3>2. may' = may \/ may' = After("http", FALSE) BY <1>11 DEF Parse
    <3>3. may \subseteq Commands BY DEF TypeOK
    <3> QED BY <1>e, <3>1, <3>2, <3>3
  <2> QED BY <1>11, <1>b, <1>c, <2>1, <2>2, <2>3 DEF Parse, boardVars, TypeOK
<1>12. CASE TimerFires
  <2>1. LibTypeOK'
    <3>1. /\ timer' = 0 /\ started' = FALSE /\ state' = "ISSUE"
          /\ UNCHANGED <<status, last, pong>>
      BY <1>12 DEF TimerFires
    <3>2. started' \in BOOLEAN BY <3>1
    <3>3. state' \in States /\ timer' \in 0 .. Armed BY <3>1 DEF States
    <3> QED BY <1>a, <3>1, <3>2, <3>3 DEF LibTypeOK
  <2>2. late' \in BOOLEAN BY <1>12 DEF TimerFires, TypeOK
  <2> QED BY <1>12, <1>b, <1>c, <2>1, <2>2 DEF TimerFires, appVars, boardVars, TypeOK
<1>13. CASE Tick
  <2>1. LibTypeOK' /\ waited' \in Nat BY <1>13, <1>a DEF Tick, LibTypeOK, TypeOK
  <2> QED BY <1>13, <1>b, <1>c, <2>1 DEF Tick, boardVars, TypeOK
<1>14. CASE UNCHANGED httpVars
  BY <1>14, <1>b, <1>c, <1>d DEF httpVars, appVars, boardVars, TypeOK
<1> QED
  BY <1>1, <1>2, <1>4, <1>5, <1>6, <1>8, <1>9, <1>10, <1>11, <1>12, <1>13, <1>14
     DEF Next, Worker

\* Every state of the client is of the declared types.
THEOREM HttpTypeCorrect == Spec => []TypeOK
BY InitType, TypeStep, PTL DEF Spec

-----------------------------------------------------------------------------
\* StartedIsTimed: every line that leaves started_receiving set leaves the
\* timer running.
LEMMA RxLineTimed ==
  ASSUME LibTypeOK, StartedIsTimed, NEW l, RxLine(l)
  PROVE  StartedIsTimed'
<1> USE ArmedType
<1>1. CASE started /\ BodyLine(l)
  <2>1. (timer' = 0 /\ ~started') \/ timer' = Armed
    BY <1>1 DEF BodyLine
  <2> QED BY <2>1 DEF StartedIsTimed
<1>2. CASE HeaderLine(l)
  BY <1>2 DEF HeaderLine, HeaderTimer, StartedIsTimed
<1>3. CASE OtherLine(l)
  BY <1>3 DEF OtherLine, StartedIsTimed
<1> QED BY <1>1, <1>2, <1>3 DEF RxLine

LEMMA TimedStep == TypeOK /\ StartedIsTimed /\ [Next]_httpVars => StartedIsTimed'
<1> SUFFICES ASSUME TypeOK, StartedIsTimed, [Next]_httpVars PROVE StartedIsTimed'
  OBVIOUS
<1>a. LibTypeOK BY DEF TypeOK, LibTypeOK
<1>1. CASE BoardFinishes \/ BoardReplies
  <2>1. PICK l \in Lines : l.of = Head(todo).of /\ RxLine(l) /\ (Finishes(l) \/ Continues(l))
    BY <1>1, BoardLine
  <2>2. RxLine(l) BY <2>1
  <2> QED BY <1>a, <2>2, RxLineTimed
<1>2. CASE TimerFires
  BY <1>2 DEF TimerFires, StartedIsTimed
<1>3. CASE Tick
  <2>1. timer # 1 /\ started' = started /\ timer' = IF timer > 0 THEN timer - 1 ELSE 0
    BY <1>3 DEF Tick, Urgent
  <2>2. timer \in Nat BY <1>a, ArmedType DEF LibTypeOK
  <2> QED BY <2>1, <2>2 DEF StartedIsTimed
<1>4. ASSUME UNCHANGED <<started, timer>> PROVE StartedIsTimed'
  BY <1>4 DEF StartedIsTimed
<1>5. CASE \/ BeginHttp
           \/ \E c \in Pings : BeginPing(c)
           \/ \E c \in {"save", "connect"} : BeginCommand(c)
  BY <1>4, <1>5 DEF BeginHttp, BeginPing, BeginCommand, Begin
<1>6. CASE Worker \/ BoardForgets \/ UNCHANGED httpVars
  BY <1>4, <1>6 DEF Worker, Transmit, Sent, Return, Parse, BoardForgets, httpVars, libVars
<1> QED BY <1>1, <1>2, <1>3, <1>5, <1>6 DEF Next

\* While started_receiving is set, the timer that clears it runs.
THEOREM StartedIsTimedCorrect == Spec => []StartedIsTimed
<1>1. Init => StartedIsTimed BY DEF Init, StartedIsTimed
<1> QED BY <1>1, InitType, TypeStep, TimedStep, PTL DEF Spec

-----------------------------------------------------------------------------
(* Requests and replies stay in step.                                       *)

\* What the board has left to do, as long as all is in step: at most the
\* command the worker is waiting for, with a state that tells so.
QueueInStep ==
  todo # <<>> =>
    /\ Len(todo) = 1 /\ pc \in {"sent", "wait"} /\ Head(todo).of = count
    /\ cmd \in Pings => ~pong
    /\ cmd = "http" /\ pc = "wait" => state = "RECEIVING"
    /\ Head(todo).sent # "nothing" => started

ReplyInStep ==
  /\ pc = "send" /\ cmd \in Pings => ~pong
  /\ pc # "ready" /\ cmd = "http" /\ last.kind = "body" => last.of = count
  /\ OwnReply

InStep == QueueInStep /\ ReplyInStep

Sync == /\ pc = "parse" => cmd = "http"
        /\ late \/ InStep

\* A line of the reply keeps the wait going, or is the last one.
LEMMA LineInStep ==
  ASSUME TypeOK, InStep, BoardFinishes \/ BoardReplies
  PROVE  InStep'
<1>1. todo # <<>> /\ UNCHANGED <<appVars, late>> BY BoardLine
<1>2. PICK l \in Lines : l.of = Head(todo).of /\ RxLine(l) /\ (Finishes(l) \/ Continues(l))
  BY BoardLine
<1>3. /\ Len(todo) = 1 /\ pc \in {"sent", "wait"} /\ Head(todo).of = count
      /\ cmd \in Pings => ~pong
      /\ cmd = "http" /\ pc = "wait" => state = "RECEIVING"
      /\ Head(todo).sent # "nothing" => started
  BY <1>1 DEF InStep, QueueInStep
<1>4. UNCHANGED <<pc, cmd, count, used>> BY <1>1 DEF appVars
<1>5. last' = last \/ last'.of = count BY <1>2, <1>3 DEF RxLine
<1>6. ReplyInStep' BY <1>3, <1>4, <1>5 DEF InStep, ReplyInStep, OwnReply
<1>7. todo \in Seq(Orders) BY DEF TypeOK, Orders
<1>8. CASE Finishes(l)
  <2>1. todo' = <<>> BY <1>1, <1>3, <1>7, <1>8, BoardQueue
  <2> QED BY <1>6, <2>1 DEF InStep, QueueInStep
<1>9. CASE Continues(l)
  <2>1. /\ Len(todo') = 1
        /\ Head(todo').of = Head(todo).of /\ Head(todo').sent = l.kind
    BY <1>1, <1>3, <1>7, <1>9, BoardQueue
  <2>2. l.kind \in {"header", "body"} /\ (l.kind = "body" => started)
    BY <1>3, <1>9 DEF Continues
  <2>3. ~pong => ~pong' BY <1>2, <2>2 DEF RxLine
  <2>4. (started' /\ (state = "RECEIVING" => state' = "RECEIVING"))
    <3>1. CASE started
      <4>1. BodyLine(l) BY <1>2, <3>1 DEF RxLine
      <4> QED BY <2>2, <3>1, <4>1 DEF BodyLine, Receiving
    <3>2. CASE ~started
      <4>1. l.kind = "header" BY <2>2, <3>2
      <4>2. HeaderLine(l) BY <1>2, <3>2, <4>1 DEF RxLine, OtherLine
      <4> QED BY <4>2 DEF HeaderLine, HeaderState
    <3> QED BY <3>1, <3>2
  <2> QED BY <1>3, <1>4, <1>6, <2>1, <2>3, <2>4 DEF InStep, QueueInStep
<1> QED BY <1>2, <1>8, <1>9

LEMMA SyncStep == TypeOK /\ Sync /\ [Next]_httpVars => Sync'
<1> SUFFICES ASSUME TypeOK, Sync, [Next]_httpVars PROVE Sync'
  OBVIOUS
<1>a. (pc = "parse" => cmd = "http") /\ late \in BOOLEAN BY DEF Sync, TypeOK
<1>1. CASE BoardFinishes \/ BoardReplies
  <2>1. UNCHANGED <<appVars, late>> BY <1>1, BoardLine
  <2>2. ~late => InStep' BY <1>1, LineInStep DEF Sync
  <2> QED BY <1>a, <2>1, <2>2 DEF Sync, appVars
<1>2. ASSUME InStep => InStep', UNCHANGED late, pc' = "parse" => cmd' = "http" PROVE Sync'
  BY <1>2 DEF Sync
<1>3. CASE BoardForgets
  <2>1. ASSUME InStep PROVE todo' = <<>>
    <3>1. todo \in Seq(Orders) /\ todo # <<>> /\ Len(todo) = 1 /\ todo' = Tail(todo)
      BY <1>3, <2>1 DEF BoardForgets, InStep, QueueInStep, TypeOK, Orders
    <3>2. todo' \in Seq(Orders) /\ Len(todo') = 0 BY <3>1, HeadTailProperties
    <3> QED BY <3>2, EmptySeq
  <2>2. UNCHANGED <<appVars, pong, last, late>> BY <1>3 DEF BoardForgets, libVars
  <2>3. InStep => InStep' BY <2>1, <2>2 DEF InStep, QueueInStep, ReplyInStep, OwnReply, appVars
  <2> QED BY <1>a, <1>2, <2>2, <2>3 DEF appVars
\* A command that begins with the board done brings requests and replies in step.
<1>4. ASSUME NEW c \in Commands, Begin(c),
             c = "http" => last' = NoLine,
             c \in Pings => pong' = FALSE
      PROVE  Sync'
  <2>1. /\ pc' = "send" /\ cmd' = c /\ UNCHANGED todo
        /\ used' = [for |-> 0, of |-> 0] /\ late' = (late /\ todo # <<>>)
        /\ pc = "ready"
    BY <1>4 DEF Begin, boardVars
  <2>2. OwnReply' BY <2>1 DEF OwnReply
  <2>3. c = "http" => last'.kind # "body" BY <1>4 DEF NoLine
  <2>4. ASSUME ~late' PROVE InStep'
    <3>1. todo = <<>> BY <1>a, <2>1, <2>4 DEF Sync, InStep, QueueInStep
    <3> QED BY <1>4, <2>1, <2>2, <2>3, <3>1 DEF InStep, QueueInStep, ReplyInStep
  <2> QED BY <2>1, <2>4 DEF Sync
<1>5. CASE BeginHttp
  BY <1>4, <1>5 DEF BeginHttp, Commands, Pings
<1>6. ASSUME NEW c \in Pings, BeginPing(c) PROVE Sync'
  BY <1>4, <1>6 DEF BeginPing, Commands, Pings
<1>7. ASSUME NEW c \in {"save", "connect"}, BeginCommand(c) PROVE Sync'
  BY <1>4, <1>7 DEF BeginCommand, Commands, Pings
<1>8. CASE Transmit
  <2>1. /\ pc = "send" /\ pc' = "sent" /\ todo' = Append(todo, Request)
        /\ UNCHANGED <<last, pong, cmd, count, used, late>>
    BY <1>8 DEF Transmit
  <2>2. ASSUME InStep PROVE InStep'
    <3>1. todo = <<>> BY <2>1, <2>2 DEF InStep, QueueInStep
    <3>2. todo' = <<Request>> BY <2>1, <3>1
    <3>3. Len(todo') = 1 /\ Head(todo') = Request BY <3>2
    <3>4. Request.of = count /\ Request.sent = "nothing" BY DEF Request
    <3> QED BY <2>1, <2>2, <3>3, <3>4 DEF InStep, QueueInStep, ReplyInStep, OwnReply
  <2> QED BY <1>2, <2>1, <2>2
<1>9. CASE Sent
  <2>1. /\ pc = "sent" /\ pc' = "wait" /\ state' = IF cmd = "http" THEN "RECEIVING" ELSE "IDLE"
        /\ UNCHANGED <<started, last, pong, cmd, count, used, todo, late>>
    BY <1>9 DEF Sent, boardVars
  <2>2. ASSUME InStep PROVE InStep'
    BY <2>1, <2>2 DEF InStep, QueueInStep, ReplyInStep, OwnReply
  <2> QED BY <1>2, <2>1, <2>2
\* The wait ends with nothing left to do, or late is set.
<1>10. CASE Return
  <2>1. /\ pc = "wait" /\ WaitIsOver /\ pc' = IF cmd = "http" /\ Ok THEN "parse" ELSE "ready"
        /\ late' = (late \/ (TimedOut /\ todo # <<>>))
        /\ UNCHANGED <<last, pong, cmd, count, used, todo>>
    BY <1>10 DEF Return, boardVars
  <2>2. ASSUME ~late' PROVE InStep'
    <3>1. ~late /\ (TimedOut => todo = <<>>) BY <1>a, <2>1, <2>2
    <3>2. InStep BY <3>1 DEF Sync
    <3>3. todo = <<>> BY <2>1, <3>1, <3>2 DEF InStep, QueueInStep, WaitIsOver
    <3> QED BY <2>1, <3>2, <3>3 DEF InStep, QueueInStep, ReplyInStep, OwnReply
  <2> QED BY <2>1, <2>2 DEF Sync
<1>11. CASE Parse
  <2>1. /\ pc = "parse" /\ pc' = "ready" /\ UNCHANGED <<pong, todo, late>>
        /\ used' = used \/ (last.kind = "body" /\ used' = [for |-> count, of |-> last.of])
    BY <1>11 DEF Parse, boardVars
  <2>2. ASSUME InStep PROVE InStep'
    <3>1. todo = <<>> BY <2>1, <2>2 DEF InStep, QueueInStep
    <3>2. last.kind = "body" => last.of = count BY <1>a, <2>1, <2>2 DEF InStep, ReplyInStep
    <3>3. OwnReply' BY <2>1, <2>2, <3>2 DEF InStep, ReplyInStep, OwnReply
    <3> QED BY <2>1, <3>1, <3>3 DEF InStep, QueueInStep, ReplyInStep
  <2> QED BY <1>2, <2>1, <2>2
<1>12. CASE TimerFires
  <2>1. late' = (late \/ todo # <<>>) /\ UNCHANGED <<last, pong, pc, cmd, count, used, todo>>
    BY <1>12 DEF TimerFires, appVars, boardVars
  <2>2. ASSUME ~late' PROVE InStep'
    <3>1. InStep /\ todo = <<>> BY <2>1, <2>2 DEF Sync
    <3> QED BY <2>1, <3>1 DEF InStep, QueueInStep, ReplyInStep, OwnReply
  <2> QED BY <1>a, <2>1, <2>2 DEF Sync
<1>13. CASE Tick \/ UNCHANGED httpVars
  <2>1. UNCHANGED <<state, started, last, pong, pc, cmd, count, used, todo, late>>
    BY <1>13 DEF Tick, httpVars, libVars, appVars, boardVars
  <2> QED BY <1>a, <1>2, <2>1 DEF InStep, QueueInStep, ReplyInStep, OwnReply
<1> QED
  BY <1>1, <1>3, <1>5, <1>6, <1>7, <1>8, <1>9, <1>10, <1>11, <1>12, <1>13 DEF Next, Worker

LEMMA SyncInvariant == Spec => [](TypeOK /\ Sync)
<1>1. Init => Sync
  <2> SUFFICES ASSUME Init PROVE Sync
    OBVIOUS
  <2>1. late = (todo # <<>>) /\ pc = "ready" /\ used.for = used.of BY DEF Init
  <2> QED BY <2>1 DEF Sync, InStep, QueueInStep, ReplyInStep, OwnReply
<1> QED BY <1>1, InitType, TypeStep, SyncStep, PTL DEF Spec

\* What poll_state reads is the reply to its own request, from any command that began
\* with the board done until a wait is cut short: whatever replies came late before.
THEOREM OwnReplyUnlessLateCorrect == Spec => []OwnReplyUnlessLate
<1>1. Sync => OwnReplyUnlessLate BY DEF Sync, InStep, ReplyInStep, OwnReplyUnlessLate
<1> QED BY <1>1, SyncInvariant, PTL

\* http_do does not come back before the end marker or the error, unless time
\* is up.
THEOREM EndsWithTheReplyCorrect == Spec => EndsWithTheReply
<1> DEFINE Ends == (pc = "wait" /\ pc' # "wait" /\ cmd = "http" /\ ~late /\ ~TimedOut) => todo = <<>>
<1>1. TypeOK /\ Sync /\ [Next]_httpVars => Ends
  <2> SUFFICES ASSUME Sync, [Next]_httpVars, pc = "wait", pc' # "wait", cmd = "http", ~late, ~TimedOut
               PROVE  todo = <<>>
    OBVIOUS
  <2>1. WaitIsOver
    BY DEF Next, Worker, BeginHttp, BeginPing, BeginCommand, Begin, Transmit, Sent, Return, Parse,
           BoardFinishes, BoardReplies, BoardSends, BoardForgets, TimerFires, Tick, httpVars, appVars
  <2>2. InStep BY DEF Sync
  <2> QED BY <2>1, <2>2 DEF WaitIsOver, InStep, QueueInStep, Pings
<1> QED BY <1>1, SyncInvariant, PTL DEF Spec, EndsWithTheReply

-----------------------------------------------------------------------------
(* Commands that get out.                                                   *)

\* flipper_http_send_data refuses everything but a ping and a connect while the
\* client is INACTIVE.  Only a ping makes it so, and it is over when the ping is
\* sent: no line can bring INACTIVE back, so no request is refused.
NeverRefused == pc = "send" /\ state = "INACTIVE" => cmd \in Pings \cup {"connect"}

InactiveForPing == state = "INACTIVE" => pc = "send" /\ cmd \in Pings

LEMMA InactiveStep == TypeOK /\ InactiveForPing /\ [Next]_httpVars => InactiveForPing'
<1> SUFFICES ASSUME TypeOK, InactiveForPing, [Next]_httpVars PROVE InactiveForPing'
  OBVIOUS
<1>1. CASE BoardFinishes \/ BoardReplies
  <2>1. PICK l \in Lines : RxLine(l) BY <1>1, BoardLine
  <2>2. state' = "INACTIVE" => state = "INACTIVE"
    BY <2>1 DEF RxLine, BodyLine, HeaderLine, OtherLine, Receiving, HeaderState
  <2>3. UNCHANGED appVars BY <1>1, BoardLine
  <2> QED BY <2>2, <2>3 DEF InactiveForPing, appVars
<1>2. CASE BeginHttp \/ (\E c \in Pings : BeginPing(c)) \/ Worker \/ TimerFires
  BY <1>2 DEF BeginHttp, BeginPing, Begin, Worker, Transmit, Sent, Return, Parse, TimerFires,
              libVars, InactiveForPing
<1>3. ASSUME NEW c \in {"save", "connect"}, BeginCommand(c) PROVE InactiveForPing'
  BY <1>3 DEF BeginCommand, Begin, InactiveForPing
<1>4. CASE BoardForgets \/ Tick \/ UNCHANGED httpVars
  BY <1>4 DEF BoardForgets, Tick, httpVars, libVars, appVars, InactiveForPing
<1> QED BY <1>1, <1>2, <1>3, <1>4 DEF Next

\* No command is dropped because the client believes the board is absent.
THEOREM NeverRefusedCorrect == Spec => []NeverRefused
<1>1. Init => InactiveForPing BY DEF Init, InactiveForPing
<1>2. InactiveForPing => NeverRefused BY DEF InactiveForPing, NeverRefused
<1> QED BY <1>1, <1>2, InitType, TypeStep, InactiveStep, PTL DEF Spec
=============================================================================
