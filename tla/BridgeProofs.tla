---------------------------- MODULE BridgeProofs ----------------------------
(***************************************************************************)
(* What TLAPS proves of Bridge.tla for every set of asks and pollers and   *)
(* every timeout.  The inductive invariant is TypeOK with OneAskAtATime    *)
(* and two facts on where a handler thread can be; the action properties   *)
(* and the refinement of Gate.tla follow from it step by step.             *)
(***************************************************************************)
EXTENDS Bridge, TLAPS

USE DEF SerialFree, SerialGivenBack, AfterPush, PassBump, Verdict, DeadlineStays, Accepts, PressBump, StatusFrom,
        SeenNow, DirtyStays

\* An ask has a handler thread only once its hook has run.
NotAskedYet == \A a \in Asks : hook[a] = "idle" => pc[a] = "none" /\ reply[a] = "none"

\* A thread calls the relay only where there is one.
RelayOnly == \A a \in Asks : pc[a] \in {"push", "take"} => CloudUrl

BInv == TypeOK /\ NotAskedYet /\ RelayOnly /\ OneAskAtATime

LEMMA InitInv == Init => BInv
  BY BridgeAssumption DEF Init, BInv, TypeOK, NotAskedYet, RelayOnly, OneAskAtATime, Pending, Open, Waiting, NoPending,
     NotPolling, PCs, Serving, Statuses, Answers, Verdicts, Decisions

\* The age counters stay natural numbers.
LEMMA LaterNat == ASSUME NEW age \in Nat, NEW limit \in Nat PROVE Later(age, limit) \in Nat
  BY DEF Later

\* The frame of every handler step: what bump() does keeps the types.
LEMMA BumpTypes ==
  ASSUME TypeOK, NEW t, Bump(t)
  PROVE  /\ version' \in Nat /\ version' > version
         /\ notified' \subseteq Asks \cup Pollers
         /\ dirty' = TRUE
<1>1. version' \in Nat /\ version' > version BY DEF TypeOK, Bump
<1>2. InWait \subseteq Asks \cup Pollers BY DEF InWait
<1>3. notified' \subseteq Asks \cup Pollers BY <1>2 DEF TypeOK, Bump
<1> QED BY <1>1, <1>3 DEF Bump

\* TypeOK is preserved: one step per action of Next.
LEMMA TypeStep == TypeOK /\ [Next]_vars => TypeOK'
<1> SUFFICES ASSUME TypeOK, [Next]_vars PROVE TypeOK'
  OBVIOUS
<1> USE BridgeAssumption DEF hookVars, askVars, shownVars, pollVars, procVars, cloudVars
<1>1. ASSUME NEW a \in Asks, HookAsk(a) PROVE TypeOK'
  BY <1>1 DEF TypeOK, HookAsk, PCs, Verdicts
<1>2. ASSUME NEW a \in Asks, HookHears(a) PROVE TypeOK'
  BY <1>2 DEF TypeOK, HookHears
<1>3. ASSUME NEW a \in Asks, HookGivesUp(a) PROVE TypeOK'
  BY <1>3 DEF TypeOK, HookGivesUp
<1>4. ASSUME NEW a \in Asks, TakeSerial(a) PROVE TypeOK'
  BY <1>4 DEF TypeOK, TakeSerial, PCs, Serving
<1>5. ASSUME NEW a \in Asks, AskPass(a) PROVE TypeOK'
  <2>1. Bump(a) BY <1>5 DEF AskPass
  <2> QED BY <1>5, <2>1, BumpTypes DEF TypeOK, AskPass, PCs, Statuses, Verdicts
<1>6. ASSUME NEW a \in Asks, AskOpen(a) PROVE TypeOK'
  <2>1. Bump(a) BY <1>6 DEF AskOpen
  <2>2. askSeq' \in Nat /\ pending' \in [id : Nat, answer : Answers]
    BY <1>6 DEF TypeOK, AskOpen, Answers
  <2>3. pc' \in [Asks -> PCs] BY <1>6 DEF TypeOK, AskOpen, PCs, Serving
  <2> QED BY <1>6, <2>1, <2>2, <2>3, BumpTypes DEF TypeOK, AskOpen, Statuses
<1>7. ASSUME NEW a \in Asks, NEW ans \in Answers, Close(a, ans) PROVE TypeOK'
  <2>1. Bump(a) BY <1>7 DEF Close
  <2> QED BY <1>7, <2>1, BumpTypes
          DEF TypeOK, Close, PCs, Statuses, Verdicts, Decisions, Answers, NoPending
<1>8. ASSUME NEW a \in Asks, Again(a) PROVE TypeOK'
  BY <1>8 DEF TypeOK, Again, PCs, Serving
<1>9. ASSUME NEW a \in Asks, HandleAsk(a) PROVE TypeOK'
  <2>1. WakeAgain(a) => Again(a) BY DEF WakeAgain
  <2>2. WakeClose(a) => Close(a, pending.answer) BY DEF WakeClose
  <2>3. pending.answer \in Answers BY DEF TypeOK
  <2>4. WakeTake(a) => TypeOK' BY DEF TypeOK, WakeTake, PCs, Serving
  <2> QED BY <1>4, <1>5, <1>6, <1>7, <1>8, <1>9, <2>1, <2>2, <2>3, <2>4 DEF HandleAsk
<1>10. ASSUME NEW a \in Asks, CloudReplies(a) PROVE TypeOK'
  <2>1. ASSUME NEW r \in Replies PROVE PushReply(a, r) => TypeOK'
    BY DEF TypeOK, PushReply, PCs, Serving
  <2>2. ASSUME NEW got \in Answers
        PROVE  /\ TakeAgain(a, got) => TypeOK'
               /\ TakeClose(a, got) => TypeOK'
    <3>1. Taken(got) \in Answers BY DEF Taken, TypeOK
    <3> QED BY <1>7, <1>8, <3>1 DEF TakeAgain, TakeClose
  <2>3. CASE \E r \in Replies : PushReply(a, r)
    BY <2>1, <2>3
  <2>4. CASE \E got \in Answers : TakeAgain(a, got) \/ TakeClose(a, got)
    <3>1. PICK got \in Answers : TakeAgain(a, got) \/ TakeClose(a, got) BY <2>4
    <3> QED BY <3>1, <2>2
  <2>5. CASE AskRaises(a)
    BY <2>5 DEF TypeOK, AskRaises, PCs, Gone
  <2> QED BY <1>10, <2>3, <2>4, <2>5 DEF CloudReplies
<1>11. ASSUME NEW ans, Press(ans) PROVE TypeOK'
  <2>1. Bump(NoAsk) BY <1>11 DEF Press
  <2> QED BY <1>11, <2>1, BumpTypes DEF TypeOK, Press, Answers
<1>12. ASSUME NEW ans, StrayDecision(ans) PROVE TypeOK'
  BY <1>12 DEF TypeOK, StrayDecision
<1>13. ASSUME NEW s \in {"empty", "idle", "working", "waiting"}, PostState(s) PROVE TypeOK'
  <2>1. Bump(NoAsk) BY <1>13 DEF PostState
  <2> QED BY <1>13, <2>1, BumpTypes DEF TypeOK, PostState, Statuses
<1>14. ASSUME NEW p \in Pollers, PollStart(p) \/ PollReply(p) PROVE TypeOK'
  <2>1. poll' \in [Pollers -> [held : BOOLEAN, v : Nat, age : Nat]]
    <3>1. ASSUME PollStart(p) PROVE poll' \in [Pollers -> [held : BOOLEAN, v : Nat, age : Nat]]
      <4>1. [held |-> TRUE, v |-> version, age |-> 0] \in [held : BOOLEAN, v : Nat, age : Nat]
        BY DEF TypeOK
      <4> QED BY <3>1, <4>1 DEF TypeOK, PollStart
    <3>2. ASSUME PollReply(p) PROVE poll' \in [Pollers -> [held : BOOLEAN, v : Nat, age : Nat]]
      BY <3>2 DEF TypeOK, PollReply, NotPolling
    <3> QED BY <1>14, <3>1, <3>2
  <2>2. pollAge' \in Nat /\ notified' \subseteq Asks \cup Pollers
    BY <1>14 DEF TypeOK, PollStart, PollReply
  <2> QED BY <1>14, <2>1, <2>2 DEF TypeOK, PollStart, PollReply
<1>15. ASSUME PusherWakes \/ PusherClears \/ PusherPuts PROVE TypeOK'
  BY <1>15 DEF TypeOK, PusherWakes, PusherClears, PusherPuts, PusherMoves
<1>16. ASSUME (\E r \in Replies : PusherReply(r)) \/ PusherRaises PROVE TypeOK'
  BY <1>16 DEF TypeOK, PusherReply, PusherRaises, PusherMoves
<1>17. CASE Crash
  <2>1. /\ pc' \in [Asks -> PCs]
        /\ poll' \in [Pollers -> [held : BOOLEAN, v : Nat, age : Nat]]
    BY <1>17 DEF TypeOK, Crash, PCs, Gone, NotPolling
  <2>2. pending' \in [id : Nat, answer : Answers] BY <1>17 DEF Crash, NoPending, Answers
  <2>3. /\ pollAge' \in Nat /\ cloudAge' \in Nat /\ crashes' \in Nat
        /\ status' \in Statuses /\ dirty' \in BOOLEAN
    BY <1>17 DEF TypeOK, Crash, Statuses
  <2> QED BY <1>17, <2>1, <2>2, <2>3 DEF TypeOK, Crash
<1>18. CASE Restart
  BY <1>18 DEF TypeOK, Restart
<1>19. CASE Tick
  <2>1. /\ askAge' \in Nat /\ stepAge' \in Nat /\ pollAge' \in Nat /\ cloudAge' \in Nat
        /\ hookAge' \in [Asks -> Nat]
    BY <1>19, LaterNat DEF TypeOK, Tick
  <2>2. poll' \in [Pollers -> [held : BOOLEAN, v : Nat, age : Nat]]
    BY <1>19 DEF TypeOK, Tick
  <2> QED BY <1>19, <2>1, <2>2 DEF TypeOK, Tick
<1>20. CASE UNCHANGED vars
  BY <1>20 DEF TypeOK, vars
<1> QED
  BY <1>1, <1>2, <1>3, <1>9, <1>10, <1>11, <1>12, <1>13, <1>14, <1>15, <1>16, <1>17, <1>18,
     <1>19, <1>20 DEF Next

\* Every state of the bridge is of the declared types.
THEOREM TypeCorrect == Spec => []TypeOK
<1>1. Init => TypeOK BY InitInv DEF BInv
<1> QED BY <1>1, TypeStep, PTL DEF Spec

AsksUntouched == UNCHANGED <<pc, reply, serial, pending, askSeq>>

\* cloud_pusher.
PusherSteps == \/ PusherWakes \/ PusherClears \/ PusherPuts
               \/ (\E r \in Replies : PusherReply(r)) \/ PusherRaises

\* The steps of everything but handle_ask, Press and Crash leave the ask alone.
LEMMA OtherSteps ==
  ASSUME [Next]_vars
  PROVE  \/ AsksUntouched
         \/ \E a \in Asks : HookAsk(a) \/ HandleAsk(a) \/ CloudReplies(a)
         \/ \E ans \in Decisions : Press(ans)
         \/ Crash
<1> USE DEF hookVars, askVars, shownVars, pollVars, procVars, cloudVars
<1>1. ASSUME NEW a \in Asks, HookHears(a) \/ HookGivesUp(a) PROVE AsksUntouched
  BY <1>1 DEF AsksUntouched, HookHears, HookGivesUp
<1>2. ASSUME NEW ans, StrayDecision(ans) PROVE AsksUntouched
  BY <1>2 DEF AsksUntouched, StrayDecision
<1>3. ASSUME NEW s, PostState(s) PROVE AsksUntouched
  BY <1>3 DEF AsksUntouched, PostState
<1>4. ASSUME NEW p \in Pollers, PollStart(p) \/ PollReply(p) PROVE AsksUntouched
  BY <1>4 DEF AsksUntouched, PollStart, PollReply
<1>5. ASSUME PusherSteps
      PROVE  AsksUntouched
  BY <1>5 DEF AsksUntouched, PusherSteps, PusherWakes, PusherClears, PusherPuts, PusherReply,
              PusherRaises
<1>6. ASSUME Restart \/ Tick \/ UNCHANGED vars PROVE AsksUntouched
  BY <1>6 DEF AsksUntouched, Restart, Tick, vars
<1>7. ASSUME NEW ans, Press(ans) PROVE ans \in Decisions
  BY <1>7 DEF Press
<1>8. CASE \E a \in Asks : \/ HookAsk(a) \/ HookHears(a) \/ HookGivesUp(a)
                            \/ HandleAsk(a) \/ CloudReplies(a)
  BY <1>1, <1>8
<1>9. CASE \E ans \in Decisions \cup {"invalid"} : Press(ans) \/ StrayDecision(ans)
  BY <1>2, <1>7, <1>9
<1>10. CASE \E s \in {"empty", "idle", "working", "waiting"} : PostState(s)
  BY <1>3, <1>10
<1>11. CASE \E p \in Pollers : PollStart(p) \/ PollReply(p)
  BY <1>4, <1>11
<1> QED
  BY <1>5, <1>6, <1>8, <1>9, <1>10, <1>11 DEF Next, PusherSteps

\* Neither a hook nor a handler touches an ask whose hook has not run.
LEMMA NotAskedStep == TypeOK /\ NotAskedYet /\ [Next]_vars => NotAskedYet'
<1> SUFFICES ASSUME TypeOK, NotAskedYet, [Next]_vars PROVE NotAskedYet'
  OBVIOUS
<1> USE DEF hookVars, askVars, shownVars, pollVars, procVars, cloudVars, NotAskedYet, TypeOK
<1>1. ASSUME NEW a \in Asks, HookAsk(a) PROVE NotAskedYet'
  BY <1>1 DEF HookAsk
<1>2. ASSUME NEW a \in Asks, HookHears(a) \/ HookGivesUp(a) PROVE NotAskedYet'
  BY <1>2 DEF HookHears, HookGivesUp
<1>3. ASSUME NEW a \in Asks, HandleAsk(a) PROVE NotAskedYet'
  BY <1>3 DEF HandleAsk, TakeSerial, AskPass, AskOpen, WakeAgain, WakeClose, WakeTake, Awake,
              Close, Again
<1>4. ASSUME NEW a \in Asks, CloudReplies(a) PROVE NotAskedYet'
  BY <1>4 DEF CloudReplies, PushReply, TakeAgain, TakeClose, AskRaises, Close, Again
<1>5. ASSUME NEW ans, Press(ans) \/ StrayDecision(ans) PROVE NotAskedYet'
  BY <1>5 DEF Press, StrayDecision
<1>6. ASSUME NEW s, PostState(s) PROVE NotAskedYet'
  BY <1>6 DEF PostState
<1>7. ASSUME NEW p \in Pollers, PollStart(p) \/ PollReply(p) PROVE NotAskedYet'
  BY <1>7 DEF PollStart, PollReply
<1>8. ASSUME PusherSteps
      PROVE  NotAskedYet'
  BY <1>8 DEF PusherSteps, PusherWakes, PusherClears, PusherPuts, PusherReply, PusherRaises
<1>9. CASE Crash
  BY <1>9 DEF Crash, Serving
<1>10. CASE Restart \/ Tick \/ UNCHANGED vars
  BY <1>10 DEF Restart, Tick, vars
<1> HIDE DEF NotAskedYet, TypeOK
<1>11. CASE \E a \in Asks : \/ HookAsk(a) \/ HookHears(a) \/ HookGivesUp(a)
                             \/ HandleAsk(a) \/ CloudReplies(a)
  BY <1>1, <1>2, <1>3, <1>4, <1>11
<1> QED
  BY <1>5, <1>6, <1>7, <1>8, <1>9, <1>10, <1>11 DEF Next, PusherSteps

\* A handler thread goes to the relay by TakeSerial and WakeTake alone.
LEMMA RelayOnlyStep == TypeOK /\ RelayOnly /\ [Next]_vars => RelayOnly'
<1> SUFFICES ASSUME TypeOK, RelayOnly, [Next]_vars PROVE RelayOnly'
  OBVIOUS
<1> USE DEF RelayOnly, TypeOK
<1>1. CASE AsksUntouched
  BY <1>1 DEF AsksUntouched
<1>2. ASSUME NEW a \in Asks, HookAsk(a) PROVE RelayOnly'
  BY <1>2 DEF HookAsk
<1>3. ASSUME NEW a \in Asks, HandleAsk(a) PROVE RelayOnly'
  BY <1>3 DEF HandleAsk, TakeSerial, AskPass, AskOpen, WakeAgain, WakeClose, WakeTake, Awake,
              Close, Again
<1>4. ASSUME NEW a \in Asks, CloudReplies(a) PROVE RelayOnly'
  BY <1>4 DEF CloudReplies, PushReply, TakeAgain, TakeClose, AskRaises, Close, Again
<1>5. ASSUME NEW ans, Press(ans) PROVE RelayOnly'
  BY <1>5 DEF Press
<1>6. CASE Crash
  BY <1>6 DEF Crash, Serving
<1> QED
  BY <1>1, <1>2, <1>3, <1>4, <1>5, <1>6, OtherSteps

\* One ask at a time is preserved: one step per action that touches an ask.
LEMMA OneAskStep == BInv /\ [Next]_vars => OneAskAtATime'
<1> SUFFICES ASSUME TypeOK, NotAskedYet, OneAskAtATime, [Next]_vars PROVE OneAskAtATime'
  BY DEF BInv
<1> USE BridgeAssumption DEF Pending, Open, Waiting, Serving, NoPending, OneAskAtATime
<1>1. CASE AsksUntouched
  BY <1>1 DEF AsksUntouched
<1>2. ASSUME NEW a \in Asks, HookAsk(a) PROVE OneAskAtATime'
  <2>1. /\ pc' = pc \/ (pc[a] \notin Serving /\ pc' = [pc EXCEPT ![a] = "queued"])
        /\ UNCHANGED <<serial, pending, askSeq>>
    BY <1>2 DEF HookAsk, NotAskedYet
  <2>2. pc[a] # "raised" /\ pc[a] \notin Waiting BY <1>2 DEF HookAsk, NotAskedYet
  <2> QED BY <1>2, <2>1, <2>2 DEF TypeOK
<1>3. ASSUME NEW a \in Asks, TakeSerial(a) PROVE OneAskAtATime'
  BY <1>3 DEF TypeOK, TakeSerial
<1>4. ASSUME NEW a \in Asks, AskPass(a) PROVE OneAskAtATime'
  BY <1>4 DEF TypeOK, AskPass
<1>5. ASSUME NEW a \in Asks, AskOpen(a) PROVE OneAskAtATime'
  BY <1>5 DEF TypeOK, AskOpen
<1>6. ASSUME NEW a \in Asks, NEW ans, serial = a, Close(a, ans) PROVE OneAskAtATime'
  BY <1>6 DEF TypeOK, Close
<1>7. ASSUME NEW a \in Asks, pc[a] \in {"wait", "take"}, Again(a) PROVE OneAskAtATime'
  BY <1>7 DEF TypeOK, Again
<1>8. ASSUME NEW a \in Asks, HandleAsk(a) PROVE OneAskAtATime'
  <2>1. ASSUME WakeAgain(a) PROVE OneAskAtATime'
    BY <1>7, <2>1 DEF WakeAgain, Awake
  <2>2. ASSUME WakeClose(a) PROVE OneAskAtATime'
    BY <1>6, <2>2 DEF WakeClose, Awake
  <2>3. ASSUME WakeTake(a) PROVE OneAskAtATime'
    BY <2>3 DEF TypeOK, WakeTake, Awake
  <2> QED BY <1>3, <1>4, <1>5, <1>8, <2>1, <2>2, <2>3 DEF HandleAsk
<1>9. ASSUME NEW a \in Asks, CloudReplies(a) PROVE OneAskAtATime'
  <2>1. ASSUME NEW r, PushReply(a, r) PROVE OneAskAtATime'
    BY <2>1 DEF TypeOK, PushReply
  <2>2. ASSUME NEW got, TakeAgain(a, got) PROVE OneAskAtATime'
    BY <1>7, <2>2 DEF TakeAgain
  <2>3. ASSUME NEW got, TakeClose(a, got) PROVE OneAskAtATime'
    BY <1>6, <2>3 DEF TakeClose
  <2>4. ASSUME AskRaises(a) PROVE OneAskAtATime'
    BY <2>4 DEF TypeOK, AskRaises
  <2> QED BY <1>9, <2>1, <2>2, <2>3, <2>4 DEF CloudReplies
<1>10. ASSUME NEW ans, Press(ans) PROVE OneAskAtATime'
  BY <1>10 DEF TypeOK, Press
<1>11. CASE Crash
  BY <1>11 DEF TypeOK, Crash
<1> QED
  BY <1>1, <1>2, <1>8, <1>9, <1>10, <1>11, OtherSteps

LEMMA Invariance == Spec => []BInv
<1>1. BInv /\ [Next]_vars => BInv' BY TypeStep, NotAskedStep, RelayOnlyStep, OneAskStep DEF BInv
<1> QED BY <1>1, InitInv, PTL DEF Spec

\* The lock and the global `pending' stay in step whatever the schedule.
THEOREM OneAskCorrect == Spec => []OneAskAtATime
<1>1. BInv => OneAskAtATime BY DEF BInv
<1> QED BY <1>1, Invariance, PTL

-----------------------------------------------------------------------------
\* While the ask at the gate holds ask_serial no other is shown; a prompt whose
\* thread has raised may be.
LEMMA GateIsClear ==
  ASSUME BInv, NEW a \in Asks, pc[a] \in Serving \ Waiting
  PROVE  ~Open
  BY BridgeAssumption DEF BInv, OneAskAtATime, Serving, Waiting, Open

\* The asking thread in wait or take is the only one there.
LEMMA AloneInside ==
  ASSUME BInv, NEW a \in Asks, pc[a] \in Waiting
  PROVE  Open /\ Pending /\ \A b \in Asks : pc[b] \in Serving => b = a
  BY BridgeAssumption DEF BInv, OneAskAtATime, Serving, Waiting, Open

\* handle_ask replies once, from Close or AskPass; everything else leaves reply.
LEMMA HandleAskCases ==
  ASSUME NEW a \in Asks, HandleAsk(a) \/ CloudReplies(a)
  PROVE  \/ UNCHANGED <<reply, pending>> /\ pc[a] # "none"
         \/ AskPass(a)
         \/ AskOpen(a)
         \/ pc[a] = "wait" /\ (pending.answer # "none" \/ Expired) /\ Close(a, pending.answer)
         \/ pc[a] = "take" /\ \E got \in Answers : /\ Taken(got) # "none" \/ Expired
                                                  /\ Close(a, Taken(got))
<1>1. ASSUME NEW got, TakeAgain(a, got) PROVE UNCHANGED <<reply, pending>> /\ pc[a] # "none"
  BY <1>1 DEF TakeAgain, Again
<1>2. ASSUME (\E r \in Replies : PushReply(a, r)) \/ AskRaises(a)
      PROVE  UNCHANGED <<reply, pending>> /\ pc[a] # "none"
  BY <1>2 DEF PushReply, AskRaises
<1>3. ASSUME TakeSerial(a) \/ WakeAgain(a) \/ WakeTake(a)
      PROVE  UNCHANGED <<reply, pending>> /\ pc[a] # "none"
  BY <1>3 DEF TakeSerial, WakeAgain, WakeTake, Again, Awake
<1>4. CASE HandleAsk(a)
  BY <1>3, <1>4 DEF HandleAsk, WakeClose, Awake
<1>5. CASE CloudReplies(a)
  BY <1>1, <1>2, <1>5 DEF CloudReplies, TakeClose
<1> QED BY <1>4, <1>5

\* Once given, an answer is not replaced.
THEOREM AnswerStandsCorrect == Spec => AnswerStands
<1> DEFINE Stands == Open /\ pending.answer # "none" => pending' \in {pending, NoPending}
<1>1. ASSUME BInv, [Next]_vars PROVE Stands
  <2>1. CASE AsksUntouched \/ \E a \in Asks : HookAsk(a)
    BY <2>1 DEF AsksUntouched, HookAsk
  <2>2. ASSUME NEW a \in Asks, HandleAsk(a) \/ CloudReplies(a) PROVE Stands
    <3>1. AskOpen(a) => ~Open BY <1>1, GateIsClear DEF AskOpen, Serving, Waiting
    <3> QED BY <2>2, <3>1, HandleAskCases DEF AskPass, Close
  <2>3. ASSUME NEW ans, Press(ans) PROVE Stands
    BY <2>3 DEF Press
  <2>4. CASE Crash
    BY <2>4 DEF Crash
  <2> QED BY <1>1, <2>1, <2>2, <2>3, <2>4, OtherSteps
<1> QED BY <1>1, Invariance, PTL DEF Spec, AnswerStands

\* The reply is the press on the ask it answers; without one it is a deny, and
\* not before ASK_TIMEOUT.
THEOREM ReplyIsThePressCorrect == Spec => ReplyIsThePress
<1>1. ASSUME BInv, [Next]_vars PROVE \A a \in Asks : SaysThePress(a)
  <2>1. UNCHANGED reply => \A a \in Asks : SaysThePress(a)
    BY DEF Decisions, SaysThePress
  <2>2. ASSUME NEW b \in Asks, HandleAsk(b) \/ CloudReplies(b) PROVE \A a \in Asks : SaysThePress(a)
    <3>1. CASE AskPass(b) \/ AskOpen(b)
      BY <1>1, <3>1 DEF AskPass, AskOpen, BInv, TypeOK, Decisions, SaysThePress
    <3>2. ASSUME pc[b] = "wait", pending.answer # "none" \/ Expired, Close(b, pending.answer)
          PROVE  \A a \in Asks : SaysThePress(a)
      BY <1>1, <3>2 DEF Close, BInv, TypeOK, Decisions, SaysThePress, Expired
    <3>3. ASSUME pc[b] = "take", NEW got \in Answers, Taken(got) # "none" \/ Expired,
                 Close(b, Taken(got))
          PROVE  \A a \in Asks : SaysThePress(a)
      BY <1>1, <3>3 DEF Close, BInv, TypeOK, Decisions, SaysThePress, Taken
    <3> QED BY <2>1, <2>2, <3>1, <3>2, <3>3, HandleAskCases
  <2>3. CASE AsksUntouched \/ (\E a \in Asks : HookAsk(a)) \/ (\E ans : Press(ans)) \/ Crash
    BY <2>1, <2>3 DEF AsksUntouched, HookAsk, Press, Crash
  <2> QED BY <1>1, <2>2, <2>3, OtherSteps
<1> QED BY <1>1, Invariance, PTL DEF Spec, ReplyIsThePress

-----------------------------------------------------------------------------
(* Refinement of Gate.tla.                                                  *)

\* A step that touches one ask at most changes that ask's phase alone.
LEMMA OnePhase ==
  ASSUME NEW a \in Asks,
         \A b \in Asks : b # a => pc'[b] = pc[b] /\ reply'[b] = reply[b]
  PROVE  PhaseMap' = [PhaseMap EXCEPT ![a] = Phase(a)']
<1>1. ASSUME NEW b \in Asks, b # a PROVE Phase(b)' = Phase(b)
  BY <1>1 DEF Phase
<1>2. PhaseMap' = [b \in Asks |-> Phase(b)'] BY DEF PhaseMap
<1> HIDE DEF Phase
<1> QED BY <1>1, <1>2 DEF PhaseMap

LEMMA SamePhase ==
  ASSUME NEW a \in Asks,
         \A b \in Asks : b # a => pc'[b] = pc[b] /\ reply'[b] = reply[b],
         Phase(a)' = Phase(a)
  PROVE  PhaseMap' = PhaseMap
<1>1. PhaseMap' = [PhaseMap EXCEPT ![a] = Phase(a)'] BY OnePhase
<1>2. PhaseMap[a] = Phase(a) BY DEF PhaseMap
<1> QED BY <1>1, <1>2 DEF PhaseMap

\* Nor does it show or hide a prompt, unless that ask's thread begins or stops to
\* wait for the Flipper.
LEMMA SameOpen ==
  ASSUME NEW a \in Asks,
         \A b \in Asks : b # a => pc'[b] = pc[b],
         pc'[a] \in Waiting <=> pc[a] \in Waiting
  PROVE  Open' <=> Open
  BY DEF Open

LEMMA GateInit == Init => G!Init
  BY DEF Init, G!Init, PhaseMap, Phase, Waiting, Gone, PressMap, NoPending

\* handle_ask refines the gate's steps: showing, passing, settling.
LEMMA HandleAskRefines ==
  ASSUME BInv, NEW a \in Asks, HandleAsk(a) \/ CloudReplies(a)
  PROVE  [G!Next]_G!gateVars
<1> USE DEF hookVars, askVars, shownVars, pollVars, procVars, cloudVars
<1>a. a \in Asks /\ pc \in [Asks -> PCs] /\ reply \in [Asks -> Verdicts \cup {"none"}]
  BY DEF BInv, TypeOK
<1>b. pc[a] \in Waiting => Open /\ \A b \in Asks : b # a => pc[b] \notin Waiting
  BY AloneInside DEF Serving, Waiting
<1>c. pc[a] \in {"push", "gate"} => ~Open
  BY GateIsClear DEF Serving, Waiting
<1>1. ASSUME \/ TakeSerial(a) \/ WakeAgain(a) \/ WakeTake(a)
             \/ \E r \in Replies : PushReply(a, r)
             \/ \E got \in Answers : TakeAgain(a, got)
      PROVE  UNCHANGED G!gateVars
  <2>1. UNCHANGED <<reply, pending.answer>> /\ \A b \in Asks : b # a => pc'[b] = pc[b]
    BY <1>1, <1>a DEF TakeSerial, WakeAgain, WakeTake, PushReply, TakeAgain, Again
  <2>2. \/ pc[a] \in {"queued", "push", "gate"} /\ pc'[a] \in {"queued", "push", "gate"}
        \/ pc[a] \in {"wait", "take"} /\ pc'[a] \in {"wait", "take"}
    BY <1>1, <1>a DEF TakeSerial, WakeAgain, WakeTake, PushReply, TakeAgain, Again, Awake
  <2>3. Phase(a)' = Phase(a) BY <2>2 DEF Phase, Waiting, Gone
  <2>4. Open' <=> Open BY <2>1, <2>2, SameOpen DEF Waiting
  <2>5. PressMap' = PressMap BY <2>1, <2>4 DEF PressMap
  <2> QED BY <2>1, <2>3, <2>5, SamePhase DEF G!gateVars
<1>2. ASSUME AskPass(a) PROVE G!Pass(a)
  <2>1. Phase(a) = "asked" /\ Phase(a)' = "passthrough"
    BY <1>2, <1>a DEF AskPass, Phase, Waiting, Gone
  <2>2. \A b \in Asks : b # a => pc'[b] = pc[b] /\ reply'[b] = reply[b]
    BY <1>2, <1>a DEF AskPass
  <2>3. Open' <=> Open BY <1>2, <1>a, <2>2, SameOpen DEF AskPass, Waiting
  <2>4. PressMap' = PressMap BY <1>2, <2>3 DEF AskPass, PressMap
  <2> QED BY <2>1, <2>2, <2>4, OnePhase DEF G!Pass, PhaseMap
<1>3. ASSUME AskOpen(a) PROVE G!Show(a)
  <2>1. Phase(a) = "asked" /\ Phase(a)' = "shown"
    BY <1>3, <1>a DEF AskOpen, Phase, Waiting, Gone
  <2>2. \A b \in Asks : b # a => pc'[b] = pc[b] /\ reply'[b] = reply[b]
    BY <1>3, <1>a DEF AskOpen
  <2>3. ~Open BY <1>3, <1>c DEF AskOpen
  <2>4. \A b \in Asks : Phase(b) # "shown"
    BY <2>3, <1>a DEF Open, Phase, PCs, Serving, Waiting, Gone, Verdicts, Decisions
  <2>5. G!Shown = {} BY <2>4 DEF G!Shown, PhaseMap
  <2>6. PressMap = "none" /\ PressMap' = "none" BY <1>3, <2>3 DEF AskOpen, PressMap
  <2> QED BY <2>1, <2>2, <2>5, <2>6, OnePhase DEF G!Show, PhaseMap
<1>4. ASSUME NEW ans \in Answers, pc[a] \in Waiting, Close(a, ans)
      PROVE  G!Settle(a, IF ans = "none" THEN "deny" ELSE ans)
  <2>1. Phase(a) = "shown" /\ Phase(a)' = IF ans = "none" THEN "deny" ELSE ans
    BY <1>4, <1>a DEF Close, Phase, Waiting, Gone
  <2>2. \A b \in Asks : b # a => pc'[b] = pc[b] /\ reply'[b] = reply[b]
    BY <1>4, <1>a DEF Close
  <2>3. PressMap' = "none" BY <1>4 DEF Close, NoPending, PressMap
  <2> QED BY <2>1, <2>2, <2>3, OnePhase DEF G!Settle, PhaseMap
<1>5. ASSUME NEW ans \in Answers, pc[a] \in Waiting, Close(a, ans),
             pending.answer # "none" => ans = pending.answer,
             pc[a] = "wait" => ans = pending.answer
      PROVE  G!Decide(a) \/ G!Collect(a) \/ G!Expire(a)
  <2>0. PressMap = pending.answer BY <1>b, <1>5 DEF PressMap
  <2>1. CASE pending.answer # "none"
    BY <1>4, <1>5, <2>0, <2>1 DEF G!Decide
  <2>2. CASE pending.answer = "none" /\ ans # "none"
    <3>1. ans \in G!Presses BY <2>2 DEF Answers, Decisions, G!Presses
    <3>2. CloudUrl BY <1>5, <2>2 DEF BInv, RelayOnly, Waiting
    <3> QED BY <1>4, <1>5, <2>0, <2>2, <3>1, <3>2 DEF G!Collect
  <2>3. CASE pending.answer = "none" /\ ans = "none"
    BY <1>4, <1>5, <2>0, <2>3 DEF G!Expire
  <2> QED BY <2>1, <2>2, <2>3
<1>6. ASSUME WakeClose(a) PROVE G!Decide(a) \/ G!Collect(a) \/ G!Expire(a)
  <2>1. pending.answer \in Answers BY DEF BInv, TypeOK
  <2> QED BY <1>5, <1>6, <2>1 DEF WakeClose, Awake, Waiting
<1>7. ASSUME NEW got \in Answers, TakeClose(a, got)
      PROVE  G!Decide(a) \/ G!Collect(a) \/ G!Expire(a)
  <2>1. Taken(got) \in Answers BY DEF BInv, TypeOK, Taken
  <2> QED BY <1>5, <1>7, <2>1 DEF TakeClose, Taken, Waiting
<1>8. ASSUME AskRaises(a) PROVE G!Drop(a)
  <2>1. /\ Phase(a) = IF pc[a] = "push" THEN "asked" ELSE "shown"
        /\ Phase(a)' = "lost" /\ pc'[a] = "raised"
    BY <1>8, <1>a DEF AskRaises, Phase, Waiting, Gone
  <2>2. \A b \in Asks : b # a => pc'[b] = pc[b] /\ reply'[b] = reply[b]
    BY <1>8, <1>a DEF AskRaises
  <2>3. ~Open'
    <3>1. CASE pc[a] = "push"
      BY <1>c, <2>1, <2>2, <3>1 DEF Open, Waiting
    <3>2. CASE pc[a] = "take"
      BY <1>b, <2>1, <2>2, <3>2 DEF Open, Waiting
    <3> QED BY <1>8, <3>1, <3>2 DEF AskRaises
  <2>4. PressMap' = "none" /\ (pc[a] = "push" => PressMap = "none")
    BY <1>c, <2>3 DEF PressMap
  <2>5. CloudUrl BY <1>8 DEF AskRaises, BInv, RelayOnly
  <2> QED BY <1>8, <2>1, <2>2, <2>4, <2>5, OnePhase DEF AskRaises, G!Drop, PhaseMap
<1>9. CASE HandleAsk(a)
  BY <1>1, <1>2, <1>3, <1>6, <1>9 DEF HandleAsk, G!Next
<1>10. CASE CloudReplies(a)
  BY <1>1, <1>7, <1>8, <1>10 DEF CloudReplies, G!Next
<1> QED BY <1>9, <1>10

LEMMA GateStep == BInv /\ [Next]_vars => [G!Next]_G!gateVars
<1> SUFFICES ASSUME BInv, [Next]_vars PROVE [G!Next]_G!gateVars
  OBVIOUS
<1> USE DEF hookVars, askVars, shownVars, pollVars, procVars, cloudVars
<1>a. pc \in [Asks -> PCs] /\ reply \in [Asks -> Verdicts \cup {"none"}]
  BY DEF BInv, TypeOK
<1>1. CASE AsksUntouched
  <2>1. PhaseMap' = PhaseMap BY <1>1 DEF AsksUntouched, PhaseMap, Phase
  <2>2. PressMap' = PressMap BY <1>1 DEF AsksUntouched, PressMap, Open
  <2> QED BY <2>1, <2>2 DEF G!gateVars
<1>2. ASSUME NEW a \in Asks, HookAsk(a) PROVE [G!Next]_G!gateVars
  <2>1. UNCHANGED <<reply, pending>> /\ pc[a] = "none" BY <1>2 DEF HookAsk, BInv, NotAskedYet
  <2>2. CASE up
    <3>1. Phase(a) = "new" /\ Phase(a)' = "asked"
      BY <1>2, <1>a, <2>1, <2>2 DEF HookAsk, Phase, Waiting, Gone
    <3>2. \A b \in Asks : b # a => pc'[b] = pc[b] /\ reply'[b] = reply[b]
      BY <1>2, <1>a, <2>1, <2>2 DEF HookAsk
    <3>3. Open' <=> Open
      BY <1>2, <1>a, <2>1, <2>2, <3>2, SameOpen DEF HookAsk, Waiting
    <3>4. PressMap' = PressMap BY <2>1, <3>3 DEF PressMap
    <3>5. G!Ask(a) BY <3>1, <3>2, <3>4, OnePhase DEF G!Ask, PhaseMap
    <3> QED BY <3>5 DEF G!Next
  <2>3. CASE ~up
    <3>1. UNCHANGED pc BY <1>2, <2>3 DEF HookAsk
    <3>2. PhaseMap' = PhaseMap BY <2>1, <3>1 DEF PhaseMap, Phase
    <3>3. PressMap' = PressMap BY <2>1, <3>1 DEF PressMap, Open
    <3> QED BY <3>2, <3>3 DEF G!gateVars
  <2> QED BY <2>2, <2>3
<1>3. ASSUME NEW ans \in Decisions, Press(ans) PROVE [G!Next]_G!gateVars
  <2>1. UNCHANGED <<pc, reply>> BY <1>3 DEF Press
  <2>2. PhaseMap' = PhaseMap BY <2>1 DEF PhaseMap, Phase
  <2>3. pending.answer = "none" /\ pending'.answer = ans BY <1>3 DEF Press, BInv, TypeOK
  <2>4. Open' <=> Open BY <2>1 DEF Open
  <2>5. CASE Open
    <3>1. PICK a \in Asks : pc[a] \in Waiting BY <2>5 DEF Open
    <3>2. PhaseMap[a] = "shown" BY <3>1 DEF PhaseMap, Phase, Waiting, Gone
    <3>3. PressMap = "none" /\ PressMap' = ans BY <2>3, <2>4, <2>5 DEF PressMap
    <3>4. G!Press(ans) BY <2>2, <3>2, <3>3 DEF G!Press, G!Shown
    <3>5. ans \in G!Presses BY DEF G!Presses, Decisions
    <3> QED BY <3>4, <3>5 DEF G!Next
  <2>6. CASE ~Open
    <3>1. PressMap' = PressMap BY <2>4, <2>6 DEF PressMap
    <3> QED BY <2>2, <3>1 DEF G!gateVars
  <2> QED BY <2>5, <2>6
<1>4. CASE Crash
  <2>1. \A a \in Asks : /\ Phase(a) \in {"asked", "shown"} => Phase(a)' = "lost"
                        /\ Phase(a) \notin {"asked", "shown"} => Phase(a)' = Phase(a)
    BY <1>4, <1>a DEF Crash, Phase, PCs, Serving, Waiting, Gone, Verdicts, Decisions
  <2>2. PressMap' = "none" BY <1>4 DEF Crash, NoPending, PressMap
  <2>3. PhaseMap' = [a \in Asks |-> IF PhaseMap[a] \in {"asked", "shown"} THEN "lost"
                                                                     ELSE PhaseMap[a]]
    BY <2>1 DEF PhaseMap
  <2> QED BY <2>2, <2>3 DEF G!Lose, G!Next
<1> QED BY <1>1, <1>2, <1>3, <1>4, HandleAskRefines, OtherSteps

\* The bridge implements the gate: threads, locks, deadlines and the relay give
\* no behaviour the gate does not have.
THEOREM BridgeImplementsGate == Spec => ImplementsGate
BY GateInit, GateStep, Invariance, PTL DEF Spec, ImplementsGate, G!Spec

-----------------------------------------------------------------------------
(* The two clocks of a held poll.                                           *)

\* last_flipper_poll is no older than the polls still held, and no poll is held
\* longer than MAX_WAIT.
PollClock == \A p \in Pollers : poll[p].held => /\ pollAge <= poll[p].age
                                                /\ poll[p].age <= MaxWait

LEMMA PollClockStep == TypeOK /\ PollClock /\ [Next]_vars => PollClock'
<1> SUFFICES ASSUME TypeOK, PollClock, [Next]_vars PROVE PollClock'
  OBVIOUS
<1> USE DEF hookVars, askVars, shownVars, pollVars, procVars, cloudVars
<1>a. /\ poll \in [Pollers -> [held : BOOLEAN, v : Nat, age : Nat]]
      /\ pollAge \in Nat /\ MaxWait \in Nat /\ Stale \in Nat
  BY BridgeAssumption DEF TypeOK
<1>1. ASSUME poll' = poll, pollAge' \in {0, pollAge} PROVE PollClock'
  BY <1>1, <1>a DEF PollClock
<1>2. ASSUME NEW a \in Asks, HookAsk(a) \/ HookHears(a) \/ HookGivesUp(a) PROVE PollClock'
  BY <1>1, <1>2 DEF HookAsk, HookHears, HookGivesUp
<1>3. ASSUME NEW a \in Asks, HandleAsk(a) PROVE PollClock'
  BY <1>1, <1>3 DEF HandleAsk, TakeSerial, AskPass, AskOpen, WakeAgain, WakeClose, WakeTake,
                    Close, Again
<1>4. ASSUME NEW a \in Asks, CloudReplies(a) PROVE PollClock'
  BY <1>1, <1>4 DEF CloudReplies, PushReply, TakeAgain, TakeClose, AskRaises, Close, Again
<1>5. ASSUME NEW ans, Press(ans) \/ StrayDecision(ans) PROVE PollClock'
  BY <1>1, <1>5 DEF Press, StrayDecision
<1>6. ASSUME NEW s, PostState(s) PROVE PollClock'
  BY <1>1, <1>6 DEF PostState
<1>7. ASSUME NEW p \in Pollers, PollStart(p) PROVE PollClock'
  BY <1>7, <1>a DEF PollStart, PollClock
<1>8. ASSUME NEW p \in Pollers, PollReply(p) PROVE PollClock'
  BY <1>8, <1>a DEF PollReply, PollClock, NotPolling
<1>9. ASSUME PusherSteps
      PROVE  PollClock'
  BY <1>1, <1>9 DEF PusherSteps, PusherWakes, PusherClears, PusherPuts, PusherReply, PusherRaises
<1>10. CASE Crash
  BY <1>10, <1>a DEF Crash, PollClock, NotPolling
<1>11. CASE Restart \/ UNCHANGED vars
  BY <1>1, <1>11 DEF Restart, vars
<1>12. CASE Tick
  <2>1. pollAge' <= pollAge + 1 /\ pollAge' \in Nat BY <1>12, <1>a DEF Tick, Later
  <2>2. ASSUME NEW p \in Pollers, poll[p].held
        PROVE  poll'[p].age = poll[p].age + 1 /\ poll[p].age < MaxWait
    <3>1. poll[p].age < MaxWait BY <1>12, <1>a, <2>2 DEF Tick, Urgent
    <3> QED BY <1>12, <1>a, <2>2, <3>1 DEF Tick
  <2>3. \A p \in Pollers : poll'[p].held => poll[p].held BY <1>12, <1>a DEF Tick
  <2> QED BY <1>a, <2>1, <2>2, <2>3 DEF PollClock
<1>13. CASE \E a \in Asks : \/ HookAsk(a) \/ HookHears(a) \/ HookGivesUp(a)
                             \/ HandleAsk(a) \/ CloudReplies(a)
  BY <1>2, <1>3, <1>4, <1>13
<1>14. CASE \E p \in Pollers : PollStart(p) \/ PollReply(p)
  BY <1>7, <1>8, <1>14
<1> QED
  BY <1>5, <1>6, <1>9, <1>10, <1>11, <1>12, <1>13, <1>14 DEF Next, PusherSteps

\* With MAX_WAIT below FLIPPER_STALE a Flipper whose poll is held is online.
THEOREM HeldPollCorrect == ASSUME MaxWait < Stale PROVE Spec => []HeldPollIsOnline
<1>1. Init => PollClock BY DEF Init, PollClock, NotPolling
<1>2. TypeOK /\ PollClock => HeldPollIsOnline
  BY BridgeAssumption DEF TypeOK, PollClock, HeldPollIsOnline, FlipperOnline
<1> QED BY <1>1, <1>2, PollClockStep, TypeCorrect, PTL DEF Spec

-----------------------------------------------------------------------------
(* What bump() does: it counts, and it wakes.                               *)

\* GET /state's answer changes only in a step that calls bump(), or with the
\* process.
THEOREM ShownChangesBumpCorrect == Spec => ShownChangesBump
<1> DEFINE Kept   == <<Body, status>>' = <<Body, status>>
           Bumped == version' > version /\ dirty'
<1>1. ASSUME TypeOK, [Next]_vars PROVE up' # up \/ Kept \/ Bumped
  <2> USE DEF hookVars, askVars, shownVars, pollVars, procVars, cloudVars, Body, Pending
  <2>1. ASSUME NEW t, Bump(t) PROVE Bumped
    BY <1>1, <2>1, BumpTypes
  <2>2. ASSUME NEW a \in Asks, HookAsk(a) \/ HookHears(a) \/ HookGivesUp(a) PROVE Kept
    BY <2>2 DEF HookAsk, HookHears, HookGivesUp
  <2>3. ASSUME NEW a \in Asks, HandleAsk(a) PROVE Kept \/ Bumped
    <3>1. CASE AskPass(a) \/ AskOpen(a) \/ WakeClose(a)
      <4>1. Bump(a) BY <3>1 DEF AskPass, AskOpen, WakeClose, Close
      <4> QED BY <2>1, <4>1
    <3>2. CASE TakeSerial(a) \/ WakeAgain(a) \/ WakeTake(a)
      BY <3>2 DEF TakeSerial, WakeAgain, WakeTake, Again
    <3> QED BY <2>3, <3>1, <3>2 DEF HandleAsk
  <2>4. ASSUME NEW a \in Asks, CloudReplies(a) PROVE Kept \/ Bumped
    <3>1. ASSUME NEW got, TakeClose(a, got) PROVE Bumped
      <4>1. Bump(a) BY <3>1 DEF TakeClose, Close
      <4> QED BY <2>1, <4>1
    <3>2. ASSUME NEW got, TakeAgain(a, got) PROVE Kept
      BY <3>2 DEF TakeAgain, Again
    <3>3. ASSUME (\E r \in Replies : PushReply(a, r)) \/ AskRaises(a) PROVE Kept
      BY <3>3 DEF PushReply, AskRaises
    <3> HIDE DEF Kept, Bumped
    <3> QED BY <2>4, <3>1, <3>2, <3>3 DEF CloudReplies
  <2>5. ASSUME NEW ans, Press(ans) \/ StrayDecision(ans) PROVE Kept \/ Bumped
    <3>1. Press(ans) => Bump(NoAsk) BY DEF Press
    <3>2. StrayDecision(ans) => Kept BY DEF StrayDecision
    <3> QED BY <2>1, <2>5, <3>1, <3>2
  <2>6. ASSUME NEW s, PostState(s) PROVE Bumped
    <3>1. Bump(NoAsk) BY <2>6 DEF PostState
    <3> QED BY <2>1, <3>1
  <2>7. ASSUME NEW p \in Pollers, PollStart(p) \/ PollReply(p) PROVE Kept
    BY <2>7 DEF PollStart, PollReply
  <2>8. ASSUME PusherSteps
        PROVE  Kept
    BY <2>8 DEF PusherSteps, PusherWakes, PusherClears, PusherPuts, PusherReply, PusherRaises
  <2>9. CASE Crash \/ Restart
    BY <1>1, <2>9 DEF Crash, Restart, TypeOK
  <2>10. CASE Tick \/ UNCHANGED vars
    BY <2>10 DEF Tick, vars
  <2> HIDE DEF Kept, Bumped
  <2>11. CASE \E a \in Asks : \/ HookAsk(a) \/ HookHears(a) \/ HookGivesUp(a)
                               \/ HandleAsk(a) \/ CloudReplies(a)
    BY <2>2, <2>3, <2>4, <2>11
  <2> QED BY <1>1, <2>5, <2>6, <2>7, <2>8, <2>9, <2>10, <2>11 DEF Next, PusherSteps
<1>2. TypeOK /\ [Next]_vars =>
        [(up' = up /\ <<Body, status>>' # <<Body, status>>) => (version' > version /\ dirty')]_vars
  BY <1>1
<1> QED BY <1>2, TypeCorrect, PTL DEF Spec, ShownChangesBump

\* An answer is never left with a thread that sleeps on: Press wakes the thread
\* in cond.wait, and it does not go back to sleep while there is an answer.
AnswerWakes == \A a \in Asks : pc[a] = "wait" /\ pending.answer # "none" => a \in notified

LEMMA AnswerWakesStep == BInv /\ AnswerWakes /\ [Next]_vars => AnswerWakes'
<1> SUFFICES ASSUME BInv, TypeOK, AnswerWakes, [Next]_vars PROVE AnswerWakes'
  BY DEF BInv
<1> USE BridgeAssumption DEF hookVars, askVars, shownVars, pollVars, procVars, cloudVars
<1>1. ASSUME UNCHANGED <<pc, pending>>, notified \cap Asks \subseteq notified' PROVE AnswerWakes'
  BY <1>1 DEF AnswerWakes
<1>2. ASSUME pending'.answer = "none" PROVE AnswerWakes'
  BY <1>2 DEF AnswerWakes
<1>3. ASSUME NEW a \in Asks, NEW to, to # "wait", pc' = [pc EXCEPT ![a] = to],
             pending' = pending, notified \ {a} \subseteq notified'
      PROVE  AnswerWakes'
  BY <1>3 DEF AnswerWakes, TypeOK
<1>4. ASSUME NEW a \in Asks, HookAsk(a) PROVE AnswerWakes'
  BY <1>1, <1>3, <1>4 DEF HookAsk
<1>5. ASSUME NEW a \in Asks, HookHears(a) \/ HookGivesUp(a) PROVE AnswerWakes'
  BY <1>1, <1>5 DEF HookHears, HookGivesUp
<1>6. ASSUME NEW a \in Asks, HandleAsk(a) PROVE AnswerWakes'
  <2>1. CASE TakeSerial(a)
    BY <1>3, <2>1 DEF TakeSerial
  <2>2. CASE AskPass(a)
    BY <1>3, <2>2 DEF AskPass, Bump
  <2>3. CASE AskOpen(a) \/ WakeClose(a)
    BY <1>2, <2>3 DEF AskOpen, WakeClose, Close, NoPending
  <2>4. CASE WakeAgain(a) \/ WakeTake(a)
    BY <1>2, <2>4 DEF WakeAgain, WakeTake, Again
  <2> QED BY <1>6, <2>1, <2>2, <2>3, <2>4 DEF HandleAsk
<1>7. ASSUME NEW a \in Asks, CloudReplies(a) PROVE AnswerWakes'
  <2>1. ASSUME (\E r \in Replies : PushReply(a, r)) \/ AskRaises(a) PROVE AnswerWakes'
    BY <1>3, <2>1 DEF PushReply, AskRaises
  <2>2. ASSUME NEW got, TakeAgain(a, got) PROVE AnswerWakes'
    BY <1>2, <2>2 DEF TakeAgain, Again, Taken
  <2>3. ASSUME NEW got, TakeClose(a, got) PROVE AnswerWakes'
    BY <1>2, <2>3 DEF TakeClose, Close, NoPending
  <2> QED BY <1>7, <2>1, <2>2, <2>3 DEF CloudReplies
<1>8. ASSUME NEW ans, Press(ans) PROVE AnswerWakes'
  BY <1>8 DEF Press, Bump, InWait, AnswerWakes
<1>9. ASSUME NEW ans, StrayDecision(ans) PROVE AnswerWakes'
  BY <1>1, <1>9 DEF StrayDecision
<1>10. ASSUME NEW s, PostState(s) PROVE AnswerWakes'
  BY <1>1, <1>10 DEF PostState, Bump
<1>11. ASSUME NEW p \in Pollers, PollStart(p) \/ PollReply(p) PROVE AnswerWakes'
  BY <1>1, <1>11 DEF PollStart, PollReply
<1>12. ASSUME PusherSteps
       PROVE  AnswerWakes'
  BY <1>1, <1>12 DEF PusherSteps, PusherWakes, PusherClears, PusherPuts, PusherReply, PusherRaises
<1>13. CASE Crash
  BY <1>2, <1>13 DEF Crash, NoPending
<1>14. CASE Restart \/ Tick \/ UNCHANGED vars
  BY <1>1, <1>14 DEF Restart, Tick, vars
<1>15. CASE \E a \in Asks : \/ HookAsk(a) \/ HookHears(a) \/ HookGivesUp(a)
                             \/ HandleAsk(a) \/ CloudReplies(a)
  BY <1>4, <1>5, <1>6, <1>7, <1>15
<1> QED
  BY <1>8, <1>9, <1>10, <1>11, <1>12, <1>13, <1>14, <1>15 DEF Next, PusherSteps

\* No second passes between a press and the end of the wait it ends.
THEOREM PressEndsTheAskCorrect == Spec => PressEndsTheAsk
<1> DEFINE Prompt == \A a \in Asks : pc[a] = "wait" /\ pending.answer # "none" => stepAge' <= stepAge
<1>1. ASSUME TypeOK, AnswerWakes, [Next]_vars PROVE Prompt
  <2> USE DEF hookVars, askVars, shownVars, pollVars, procVars, cloudVars
  <2>1. stepAge \in Nat BY <1>1 DEF TypeOK
  <2>2. stepAge' \in {0, stepAge} => Prompt BY <2>1
  <2>3. ASSUME Tick PROVE Prompt
    BY <1>1, <2>3 DEF AnswerWakes, Tick, Urgent
  <2> HIDE DEF Prompt
  <2>4. ASSUME NEW a \in Asks, HookAsk(a) \/ HookHears(a) \/ HookGivesUp(a)
        PROVE  stepAge' \in {0, stepAge}
    BY <2>4 DEF HookAsk, HookHears, HookGivesUp
  <2>5. ASSUME NEW a \in Asks, HandleAsk(a) PROVE stepAge' \in {0, stepAge}
    BY <2>5 DEF HandleAsk, TakeSerial, AskPass, AskOpen, WakeAgain, WakeClose, WakeTake, Close, Again
  <2>6. ASSUME NEW a \in Asks, CloudReplies(a) PROVE stepAge' \in {0, stepAge}
    BY <2>6 DEF CloudReplies, PushReply, TakeAgain, TakeClose, AskRaises, Close, Again
  <2>7. ASSUME NEW ans, Press(ans) \/ StrayDecision(ans) PROVE stepAge' = stepAge
    BY <2>7 DEF Press, StrayDecision
  <2>8. ASSUME NEW s, PostState(s) PROVE stepAge' = stepAge
    BY <2>8 DEF PostState
  <2>9. ASSUME NEW p \in Pollers, PollStart(p) \/ PollReply(p) PROVE stepAge' = stepAge
    BY <2>9 DEF PollStart, PollReply
  <2>10. ASSUME PusherSteps
         PROVE  stepAge' = stepAge
    BY <2>10 DEF PusherSteps, PusherWakes, PusherClears, PusherPuts, PusherReply, PusherRaises
  <2>11. CASE Crash \/ Restart \/ UNCHANGED vars
    BY <2>2, <2>11 DEF Crash, Restart, vars
  <2>12. CASE \E a \in Asks : \/ HookAsk(a) \/ HookHears(a) \/ HookGivesUp(a)
                               \/ HandleAsk(a) \/ CloudReplies(a)
    BY <2>2, <2>4, <2>5, <2>6, <2>12
  <2> QED BY <1>1, <2>2, <2>3, <2>7, <2>8, <2>9, <2>10, <2>11, <2>12 DEF Next, PusherSteps
<1>2. BInv => TypeOK BY DEF BInv
<1>3. Init => AnswerWakes BY DEF Init, AnswerWakes
<1> QED BY <1>1, <1>2, <1>3, AnswerWakesStep, Invariance, PTL DEF Spec, PressEndsTheAsk
=============================================================================
