----------------------------- MODULE UartProofs -----------------------------
(***************************************************************************)
(* What TLAPS proves of UartLife.tla: it is FlipperHTTP.tla with a         *)
(* beginning and an end, so that what HttpProofs.tla proves holds of it,   *)
(* and what the receive thread and the timer use is there for as long as   *)
(* they run.                                                               *)
(***************************************************************************)
EXTENDS UartLife, HttpProofs

LEMMA LifeStep == [LifeNext]_lifeVars => [Next]_httpVars
<1> SUFFICES ASSUME [LifeNext]_lifeVars PROVE [Next]_httpVars
  OBVIOUS
<1>1. CASE LifeBegins
  BY <1>1 DEF LifeBegins, Next
<1>2. CASE LifeWorker \/ LifeLine \/ LifeForgets \/ LifeTimer \/ LifeTick
  BY <1>2 DEF LifeWorker, LifeLine, LifeForgets, LifeTimer, LifeTick, Next
<1>3. CASE \/ \E p \in Parts : Make(p)
           \/ \E p \in DOMAIN FreedAfter : Free(p)
           \/ MakeFails \/ StartWorker \/ Leave \/ WorkerEnds \/ Crashes
  BY <1>3 DEF Make, Free, MakeFails, StartWorker, Leave, WorkerEnds, Crashes
<1>4. CASE UNCHANGED lifeVars
  BY <1>4 DEF lifeVars
<1> QED BY <1>1, <1>2, <1>3, <1>4 DEF LifeNext

\* A client with a life behaves like one that is always there: the requests,
\* replies and waits are those of FlipperHTTP.tla.
THEOREM LifeImplementsHttp == LifeSpec => Spec
<1>1. LifeInit => Init BY DEF LifeInit
<1> QED BY <1>1, LifeStep, PTL DEF LifeSpec, Spec

\* The types of FlipperHTTP.tla, all the client's life.
THEOREM LifeTypeCorrect == LifeSpec => []TypeOK
  BY LifeImplementsHttp, HttpTypeCorrect

\* Requests and replies are in step from flipper_http_alloc to flipper_http_free:
\* when the board is still busy for the app's previous run, from the first command
\* that begins once it is done.
THEOREM LifeOwnReplyUnlessLate == LifeSpec => []OwnReplyUnlessLate
  BY LifeImplementsHttp, OwnReplyUnlessLateCorrect

\* The receiver is never stuck in a body, all its life.
THEOREM LifeStartedIsTimed == LifeSpec => []StartedIsTimed
  BY LifeImplementsHttp, StartedIsTimedCorrect

\* A request that began with the board done does not end before its reply, unless
\* time is up, all the client's life.
THEOREM LifeEndsWithTheReply == LifeSpec => EndsWithTheReply
  BY LifeImplementsHttp, EndsWithTheReplyCorrect

\* The receive thread and the timer use only what exists: flipper_http_free
\* keeps every part until the threads behind it are gone.
LInv ==
  /\ ui \in {"starting", "running", "stopping", "closing", "over", "crashed"}
  /\ ui \in {"running", "stopping"} => parts = Parts
  /\ ui = "closing" =>
       /\ "receiver" \in parts => Core \cup {"context"} \subseteq parts
       /\ "stream" \in parts => {"timer", "buffer", "struct", "context"} \subseteq parts
       /\ "timer" \in parts => {"buffer", "struct", "context"} \subseteq parts
       /\ "buffer" \in parts => {"struct", "context"} \subseteq parts

LEMMA LInvStep == LInv /\ [LifeNext]_lifeVars => LInv'
<1> SUFFICES ASSUME LInv, [LifeNext]_lifeVars PROVE LInv'
  OBVIOUS
<1> USE DEF LInv, Core, Parts
<1>1. ASSUME NEW p \in Parts, Make(p) PROVE LInv'
  BY <1>1 DEF Make
<1>2. ASSUME NEW p \in DOMAIN FreedAfter, Free(p) PROVE LInv'
  <2>1. ui = "closing" /\ p \in parts /\ FreedAfter[p] \cap parts = {} BY <1>2 DEF Free
  <2>2. p # "context" BY DEF FreedAfter
  <2>3. CASE p = "struct"
    BY <1>2, <2>3 DEF Free
  <2>4. CASE p # "struct"
    <3>1. ui' = "closing" /\ parts' = parts \ {p} BY <1>2, <2>1, <2>4 DEF Free
    <3>2. /\ p = "stream" => "receiver" \notin parts
          /\ p = "timer" => "stream" \notin parts
          /\ p = "buffer" => "timer" \notin parts
      BY <2>1 DEF FreedAfter
    <3> QED BY <2>1, <2>2, <2>4, <3>1, <3>2
  <2> QED BY <2>3, <2>4
<1>3. CASE MakeFails \/ StartWorker \/ Leave \/ WorkerEnds \/ Crashes
  BY <1>3 DEF MakeFails, StartWorker, Leave, WorkerEnds, Crashes
<1>4. CASE \/ LifeBegins \/ LifeWorker \/ LifeLine \/ LifeForgets \/ LifeTimer \/ LifeTick
           \/ UNCHANGED lifeVars
  <2>1. UNCHANGED <<ui, parts>>
    BY <1>4 DEF LifeBegins, LifeWorker, LifeLine, LifeForgets, LifeTimer, LifeTick, lifeVars
  <2> QED BY <2>1
<1> QED BY <1>1, <1>2, <1>3, <1>4 DEF LifeNext

\* From the start of the worker to the end of flipper_http_free, no thread
\* touches a part that is not there.
THEOREM SafeOnceStartedCorrect == LifeSpec => []SafeOnceStarted
<1>1. LifeInit => LInv BY DEF LifeInit, LInv
<1>2. LInv => SafeOnceStarted
  <2> SUFFICES ASSUME LInv, ui \in {"running", "stopping", "closing"}, NEW t \in Due
               PROVE  Uses(t) \subseteq parts
    BY DEF SafeOnceStarted
  <2> USE DEF LInv, Core, Parts
  <2>1. CASE t = "timer"
    BY <2>1 DEF Uses, Due
  <2>2. CASE t # "timer"
    <3>1. "receiver" \in parts BY <2>2 DEF Due, Listens
    <3>2. Core \cup {"context"} \subseteq parts BY <3>1
    <3> QED BY <2>2, <3>2 DEF Uses
  <2> QED BY <2>1, <2>2
<1> QED BY <1>1, <1>2, LInvStep, PTL DEF LifeSpec
=============================================================================
