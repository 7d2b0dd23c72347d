------------------------------ MODULE AppProofs ------------------------------
(***************************************************************************)
(* What TLAPS proves of MonitorApp.tla, for any asks, keys, faults and     *)
(* deaths of the bridge: its types, that a key press counts once, and that *)
(* prompts do not come up in silence.                                      *)
(*                                                                         *)
(* A press is a token that is in App, in the request, at the board or with *)
(* the bridge.  The invariant counts the tokens of each answer: no step    *)
(* makes one but a key.                                                    *)
(***************************************************************************)
EXTENDS MonitorApp, FiniteSets, FiniteSetTheorems, TLAPS

Of(ans, d) == IF d.answer = ans THEN 1 ELSE 0

InApp(ans)     == Of(ans, decision)
InRequest(ans) == IF req.kind = "decision" /\ ~req.served THEN Of(ans, req.decision) ELSE 0
Saying(ans, S) == {d \in S : d.answer = ans}
AtBoard(ans)   == Saying(ans, stray)
OnTheWay(ans)  == InApp(ans) + InRequest(ans) + Cardinality(AtBoard(ans))

Tokens == \A ans \in Answers : taken[ans] + OnTheWay(ans) <= keyed[ans]

AInv == TypeOK /\ IsFiniteSet(stray) /\ Tokens

USE DEF KeyPresses, Prompts, NoDecision, NoPrompt, Request, NoRequest, PollRequest,
        Wakes, Stops, DecisionTaken, NewPrompt, NoFails, workerVars

\* What GET /state answers is a prompt.
LEMMA StateBodyType ==
  ASSUME TypeOK PROVE StateBody \in Prompts
<1>1. B!Shown \subseteq Asks BY DEF B!Shown
<1>2. B!Shown # {} => (CHOOSE a \in B!Shown : TRUE) \in B!Shown
  OBVIOUS
<1> QED BY <1>1, <1>2 DEF StateBody, TypeOK

\* The gate's steps keep the gate's types.
LEMMA GateTypes ==
  ASSUME B!GateTypeOK,
         \/ B!Lose \/ \E ans \in Answers : B!Press(ans)
         \/ \E a \in Asks : B!Ask(a) \/ B!Pass(a) \/ B!Decide(a) \/ B!Expire(a) \/ B!Show(a)
  PROVE  B!GateTypeOK'
<1> USE DEF B!GateTypeOK, B!Final, B!Presses
<1>1. CASE B!Lose
  BY <1>1 DEF B!Lose
<1>2. CASE \E ans \in Answers : B!Press(ans)
  BY <1>2 DEF B!Press, Answers
<1>3. ASSUME NEW a \in Asks, B!Ask(a) \/ B!Pass(a) \/ B!Show(a) PROVE B!GateTypeOK'
  BY <1>3 DEF B!Ask, B!Pass, B!Show
<1>4. ASSUME NEW a \in Asks, B!Decide(a) \/ B!Expire(a) PROVE B!GateTypeOK'
  BY <1>4 DEF B!Decide, B!Expire, B!Settle
<1> QED BY <1>1, <1>2, <1>3, <1>4

\* The bridge takes a press or ignores it.
LEMMA TakesTypes ==
  ASSUME TypeOK, NEW d \in KeyPresses, Takes(d)
  PROVE  /\ B!GateTypeOK' /\ aim' \in Asks \cup {NoAsk}
         /\ taken' \in [Answers -> Nat]
         /\ \A ans \in Answers : taken'[ans] <= taken[ans] + Of(ans, d)
<1>1. CASE B!Shown # {} /\ press = "none"
  <2>1. B!Press(d.answer) /\ taken' = [taken EXCEPT ![d.answer] = @ + 1] /\ aim' = d.meant
    BY <1>1 DEF Takes
  <2>2. B!GateTypeOK' BY <2>1, GateTypes DEF TypeOK
  <2> QED BY <2>1, <2>2 DEF TypeOK, Of
<1>2. CASE UNCHANGED <<gateVars, takenVars>>
  BY <1>2 DEF gateVars, takenVars, TypeOK, Of, B!GateTypeOK
<1> QED BY <1>1, <1>2 DEF Takes

LEMMA InitInv == Init => AInv
<1> SUFFICES ASSUME Init PROVE AInv
  OBVIOUS
<1>1. TypeOK
  BY AppAssumption DEF Init, TypeOK, Answers, B!Init, B!GateTypeOK, B!Final, B!Presses
<1>2. \A ans \in Answers : AtBoard(ans) = {} BY DEF Init, AtBoard, Saying
<1>3. Tokens
  BY <1>2, FS_EmptySet DEF Init, Tokens, OnTheWay, InApp, InRequest, Of, Answers
<1> QED BY <1>1, <1>3, FS_EmptySet DEF Init, AInv

LEMMA TypeStep == TypeOK /\ [Next]_vars => TypeOK'
<1> SUFFICES ASSUME TypeOK, [Next]_vars PROVE TypeOK'
  OBVIOUS
<1> USE DEF bridgeVars, shownVars, inputVars, netVars, takenVars
<1>1. CASE BridgeStep
  <2>1. B!GateTypeOK' BY <1>1, GateTypes DEF BridgeStep, TypeOK
  <2>2. seq' \in Nat /\ losses' \in Nat BY <1>1 DEF BridgeStep, TypeOK
  <2> QED BY <1>1, <2>1, <2>2 DEF BridgeStep, TypeOK
<1>2. CASE Serve
  <2>1. /\ B!GateTypeOK' /\ aim' \in Asks \cup {NoAsk} /\ taken' \in [Answers -> Nat]
    <3>1. CASE req.kind = "decision"
      BY <1>2, <3>1, TakesTypes DEF Serve, TypeOK
    <3>2. CASE req.kind # "decision"
      BY <1>2, <3>2 DEF Serve, TypeOK, gateVars, B!GateTypeOK
    <3> QED BY <3>1, <3>2
  <2>2. /\ req' \in [kind : {"none", "poll", "decision"}, decision : KeyPresses \cup {NoDecision},
                     ask : Nat, served : BOOLEAN, body : Prompts]
        /\ req'.kind = "decision" => req'.decision \in KeyPresses
    BY <1>2, StateBodyType DEF Serve, TypeOK
  <2> QED BY <1>2, <2>1, <2>2 DEF Serve, TypeOK
<1>3. CASE ServeStray
  <2>1. PICK d \in stray : /\ Takes(d)
                           /\ stray' = stray \ {d}
                           /\ UNCHANGED <<seq, losses, shownVars, inputVars, workerVars, req, faults>>
    BY <1>3 DEF ServeStray
  <2>2. d \in KeyPresses BY DEF TypeOK
  <2> QED BY <2>1, <2>2, TakesTypes DEF TypeOK
<1>4. ASSUME UNCHANGED gateVars PROVE B!GateTypeOK'
  BY <1>4 DEF gateVars, TypeOK, B!GateTypeOK
<1>5. ASSUME NEW ans \in Answers, Key(ans) PROVE TypeOK'
  BY <1>4, <1>5 DEF Key, TypeOK, gateVars
<1>6. CASE Exit
  BY <1>4, <1>6 DEF Exit, TypeOK, gateVars
<1>7. CASE WakeToWork
  <2>1. decision' \in KeyPresses \cup {NoDecision} BY <1>7 DEF WakeToWork, TypeOK
  <2>2. /\ req' \in [kind : {"none", "poll", "decision"}, decision : KeyPresses \cup {NoDecision},
                     ask : Nat, served : BOOLEAN, body : Prompts]
        /\ req'.kind = "decision" => req'.decision \in KeyPresses
    <3>1. CASE req' = PollRequest
      BY <3>1 DEF TypeOK
    <3>2. CASE decision # NoDecision /\ req' = Request("decision", decision, screen.ask)
      <4>1. decision \in KeyPresses /\ screen.ask \in Nat BY <3>2 DEF TypeOK
      <4> QED BY <3>2, <4>1
    <3> QED BY <1>7, <3>1, <3>2 DEF WakeToWork
  <2>3. board' \in {"absent", "plugged", "found"} /\ faults' \in Nat
    BY <1>7 DEF WakeToWork, Ping, TypeOK
  <2>4. pc' \in {"decide", "poll"} /\ flags' = {}
    BY <1>7 DEF WakeToWork
  <2> QED BY <1>4, <1>7, <2>1, <2>2, <2>3, <2>4 DEF WakeToWork, TypeOK, gateVars
<1>13. ASSUME NEW pong \in BOOLEAN, Ping(pong)
       PROVE  board' \in {"absent", "plugged", "found"} /\ faults' \in Nat
  BY <1>13 DEF Ping, TypeOK
<1>14. CASE FindBoard
  <2>1. conn' \in {"offline", "noboard"} /\ pc' = "loop"
    BY <1>14 DEF FindBoard
  <2>2. board' \in {"absent", "plugged", "found"} /\ faults' \in Nat
    BY <1>13, <1>14 DEF FindBoard
  <2> QED BY <1>4, <1>14, <2>1, <2>2 DEF FindBoard, TypeOK, gateVars
<1>15. CASE WakeToStop
  BY <1>4, <1>15 DEF WakeToStop, TypeOK, gateVars
<1>16. CASE WakeToPing
  <2>1. board' \in {"absent", "plugged", "found"} /\ faults' \in Nat
    BY <1>13, <1>16 DEF WakeToPing
  <2>2. flags' = {} /\ pc' = pc
    BY <1>16 DEF WakeToPing
  <2> QED BY <1>4, <1>16, <2>1, <2>2 DEF WakeToPing, TypeOK, gateVars
<1>17. CASE Plug
  BY <1>4, <1>17 DEF Plug, TypeOK, gateVars
<1>8. ASSUME Fails PROVE stray' \subseteq KeyPresses /\ faults' \in Nat
  BY <1>8 DEF Fails, TypeOK
<1>9. CASE Decided
  <2>1. stray' \subseteq KeyPresses /\ faults' \in Nat /\ screen' \in Prompts
    BY <1>8, <1>9 DEF Decided, TypeOK
  <2> QED BY <1>4, <1>9, <2>1 DEF Decided, TypeOK, gateVars
<1>10. CASE Polled
  BY <1>4, <1>10 DEF Polled, TypeOK, gateVars
<1>11. CASE PollFails
  BY <1>4, <1>8, <1>11 DEF PollFails, TypeOK, gateVars
<1>12. CASE UNCHANGED vars
  BY <1>4, <1>12 DEF vars, TypeOK, gateVars
<1> QED
  BY <1>1, <1>2, <1>3, <1>5, <1>6, <1>7, <1>9, <1>10, <1>11, <1>12, <1>14, <1>15, <1>16, <1>17
  DEF Next, Worker

\* Every state of the app is of the declared types.
THEOREM AppTypeCorrect == Spec => []TypeOK
<1>1. Init => TypeOK BY InitInv DEF AInv
<1> QED BY <1>1, TypeStep, PTL DEF Spec

-----------------------------------------------------------------------------
\* The board gets a press, or gives one to the bridge.
LEMMA BoardCounts ==
  ASSUME NEW S, IsFiniteSet(S), NEW d, NEW ans
  PROVE  /\ IsFiniteSet(S \cup {d}) /\ IsFiniteSet(S \ {d})
         /\ Cardinality(Saying(ans, S)) \in Nat
         /\ Cardinality(Saying(ans, S \cup {d})) \in Nat
         /\ Cardinality(Saying(ans, S \ {d})) \in Nat
         /\ Cardinality(Saying(ans, S \cup {d})) <= Cardinality(Saying(ans, S)) + Of(ans, d)
         /\ d \in S => Cardinality(Saying(ans, S \ {d})) + Of(ans, d) = Cardinality(Saying(ans, S))
<1>1. IsFiniteSet(S \cup {d}) /\ IsFiniteSet(S \ {d})
  BY FS_AddElement, FS_RemoveElement
<1>2. IsFiniteSet(Saying(ans, S))
  <2>1. Saying(ans, S) \in SUBSET S BY DEF Saying
  <2> QED BY <2>1, FS_Subset
<1>3. Cardinality(Saying(ans, S)) \in Nat
  BY <1>2, FS_CardinalityType
<1>4. CASE d.answer = ans
  <2>1. Saying(ans, S \cup {d}) = Saying(ans, S) \cup {d} BY <1>4 DEF Saying
  <2>2. Saying(ans, S \ {d}) = Saying(ans, S) \ {d} BY <1>4 DEF Saying
  <2>3. d \in S <=> d \in Saying(ans, S) BY <1>4 DEF Saying
  <2>4. Of(ans, d) = 1 BY <1>4 DEF Of
  <2>5. Cardinality(Saying(ans, S) \cup {d}) =
          IF d \in Saying(ans, S) THEN Cardinality(Saying(ans, S)) ELSE Cardinality(Saying(ans, S)) + 1
    BY <1>2, FS_AddElement
  <2>6. Cardinality(Saying(ans, S) \ {d}) =
          IF d \in Saying(ans, S) THEN Cardinality(Saying(ans, S)) - 1 ELSE Cardinality(Saying(ans, S))
    BY <1>2, FS_RemoveElement
  <2>7. Cardinality(Saying(ans, S) \ {d}) \in Nat
    BY <1>2, FS_RemoveElement, FS_CardinalityType
  <2> DEFINE n == Cardinality(Saying(ans, S))
             more == Cardinality(Saying(ans, S \cup {d}))
             less == Cardinality(Saying(ans, S \ {d}))
  <2>8. n \in Nat /\ less \in Nat /\ (d \in S => more = n /\ less = n - 1)
        /\ (d \notin S => more = n + 1 /\ less = n)
    BY <1>3, <2>1, <2>2, <2>3, <2>5, <2>6, <2>7
  <2> HIDE DEF n, more, less
  <2>9. more \in Nat /\ more <= n + 1 /\ (d \in S => less + 1 = n)
    BY <2>8
  <2> QED BY <1>1, <2>4, <2>8, <2>9 DEF n, more, less
<1>5. CASE d.answer # ans
  <2>1. Saying(ans, S \cup {d}) = Saying(ans, S) /\ Saying(ans, S \ {d}) = Saying(ans, S)
    BY <1>5 DEF Saying
  <2> QED BY <1>1, <1>3, <1>5, <2>1 DEF Of
<1> QED BY <1>4, <1>5

\* A press stays where it is, or leaves the request for the board, when http_do
\* fails.
LEMMA FailsCounts ==
  ASSUME AInv, NEW ans \in Answers, Fails
  PROVE  /\ IsFiniteSet(stray') /\ Cardinality(AtBoard(ans)') \in Nat
         /\ Cardinality(AtBoard(ans)') <= Cardinality(AtBoard(ans)) + InRequest(ans)
<1>1. IsFiniteSet(stray) BY DEF AInv
<1>2. Of(ans, req.decision) \in Nat /\ InRequest(ans) \in Nat BY DEF Of, InRequest
<1>3. Cardinality(AtBoard(ans)) \in Nat BY <1>1, BoardCounts DEF AtBoard
<1>4. CASE stray' = stray
  BY <1>1, <1>2, <1>3, <1>4 DEF AtBoard
<1>5. CASE req.kind = "decision" /\ ~req.served /\ stray' = stray \cup {req.decision}
  <2>1. InRequest(ans) = Of(ans, req.decision) BY <1>5 DEF InRequest
  <2>2. /\ IsFiniteSet(stray \cup {req.decision})
        /\ Cardinality(Saying(ans, stray \cup {req.decision})) \in Nat
        /\ Cardinality(Saying(ans, stray \cup {req.decision}))
             <= Cardinality(Saying(ans, stray)) + Of(ans, req.decision)
    BY <1>1, BoardCounts
  <2> QED BY <1>5, <2>1, <2>2 DEF AtBoard
<1> QED BY <1>4, <1>5 DEF Fails

\* No step but Key makes a token, and Key makes one.
LEMMA TokensStep == AInv /\ [Next]_vars => IsFiniteSet(stray') /\ Tokens'
<1> SUFFICES ASSUME AInv, [Next]_vars, NEW ans \in Answers
             PROVE  IsFiniteSet(stray') /\ taken'[ans] + OnTheWay(ans)' <= keyed'[ans]
  BY DEF Tokens, Answers
<1> USE DEF bridgeVars, shownVars, inputVars, netVars, takenVars
<1> DEFINE t == taken[ans]
           k == keyed[ans]
           n == Cardinality(AtBoard(ans))
           Goal == IsFiniteSet(stray') /\ taken'[ans] + OnTheWay(ans)' <= keyed'[ans]
<1>a. TypeOK /\ IsFiniteSet(stray) BY DEF AInv
<1>b. t \in Nat /\ k \in Nat BY <1>a DEF TypeOK
<1>c. n \in Nat BY <1>a, BoardCounts DEF AtBoard
<1>d. t + (InApp(ans) + InRequest(ans) + n) <= k BY DEF AInv, Tokens, OnTheWay
<1>e. InApp(ans) \in {0, 1} /\ InRequest(ans) \in {0, 1} BY DEF InApp, InRequest, Of
<1>f. InApp(ans)' \in {0, 1} /\ InRequest(ans)' \in {0, 1} BY DEF InApp, InRequest, Of
\* What a step does to the press in App, in the request and at the board.
<1>1. ASSUME stray' = stray PROVE IsFiniteSet(stray') /\ Cardinality(AtBoard(ans)') = n
  BY <1>a, <1>1 DEF AtBoard
<1>2. ASSUME UNCHANGED <<taken, keyed>>, IsFiniteSet(stray'), Cardinality(AtBoard(ans)') \in Nat,
             InApp(ans)' + InRequest(ans)' + Cardinality(AtBoard(ans)')
               <= InApp(ans) + InRequest(ans) + n
      PROVE  Goal
  BY <1>2, <1>b, <1>c, <1>d, <1>e, <1>f DEF OnTheWay
<1>3. CASE BridgeStep \/ Exit \/ Plug \/ FindBoard \/ WakeToStop \/ WakeToPing \/ UNCHANGED vars
  <2>1. UNCHANGED <<taken, keyed, decision, req, stray>>
    BY <1>3 DEF BridgeStep, Exit, Plug, FindBoard, WakeToStop, WakeToPing, vars
  <2>2. InApp(ans)' = InApp(ans) /\ InRequest(ans)' = InRequest(ans)
    BY <2>1 DEF InApp, InRequest
  <2> QED BY <1>1, <1>2, <1>c, <1>e, <2>1, <2>2
<1>4. ASSUME NEW a \in Answers, Key(a) PROVE Goal
  <2>1. /\ UNCHANGED <<taken, req, stray>>
        /\ decision' = [answer |-> a, meant |-> screen.of]
        /\ keyed'[ans] = IF a = ans THEN k + 1 ELSE k
    BY <1>a, <1>4 DEF Key, TypeOK
  <2>2. InApp(ans)' = (IF a = ans THEN 1 ELSE 0) /\ InRequest(ans)' = InRequest(ans)
    BY <2>1 DEF InApp, InRequest, Of
  <2> QED BY <1>1, <1>b, <1>c, <1>d, <1>e, <2>1, <2>2 DEF OnTheWay
<1>5. CASE Serve
  <2>1. /\ UNCHANGED <<keyed, decision, stray>>
        /\ req' = [req EXCEPT !.served = TRUE, !.body = StateBody] /\ ~req.served
    BY <1>5 DEF Serve
  <2>2. InApp(ans)' = InApp(ans) /\ InRequest(ans)' = 0
    BY <1>a, <2>1 DEF InApp, InRequest, TypeOK
  <2>3. taken'[ans] \in Nat /\ taken'[ans] <= t + InRequest(ans)
    <3>1. CASE req.kind = "decision"
      <4>1. Takes(req.decision) /\ req.decision \in KeyPresses BY <1>5, <1>a, <3>1 DEF Serve, TypeOK
      <4>2. InRequest(ans) = Of(ans, req.decision) BY <2>1, <3>1 DEF InRequest
      <4> QED BY <1>a, <4>1, <4>2, TakesTypes
    <3>2. CASE req.kind # "decision"
      BY <1>5, <1>b, <1>e, <3>2 DEF Serve
    <3> QED BY <3>1, <3>2
  <2> QED BY <1>1, <1>b, <1>c, <1>d, <1>e, <2>1, <2>2, <2>3 DEF OnTheWay
<1>6. CASE ServeStray
  <2>1. PICK d \in stray : /\ Takes(d)
                           /\ stray' = stray \ {d}
                           /\ UNCHANGED <<seq, losses, shownVars, inputVars, workerVars, req, faults>>
    BY <1>6 DEF ServeStray
  <2>2. InApp(ans)' = InApp(ans) /\ InRequest(ans)' = InRequest(ans)
    BY <2>1 DEF InApp, InRequest
  <2>3. taken'[ans] \in Nat /\ taken'[ans] <= t + Of(ans, d)
    <3>1. d \in KeyPresses BY <1>a DEF TypeOK
    <3> QED BY <1>a, <2>1, <3>1, TakesTypes
  <2>4. /\ IsFiniteSet(stray') /\ Cardinality(AtBoard(ans)') \in Nat
        /\ Cardinality(AtBoard(ans)') + Of(ans, d) = n
    BY <1>a, <2>1, BoardCounts DEF AtBoard
  <2>5. Of(ans, d) \in {0, 1} BY DEF Of
  <2> QED BY <1>b, <1>c, <1>d, <1>e, <2>1, <2>2, <2>3, <2>4, <2>5 DEF OnTheWay
<1>7. CASE WakeToWork
  <2>1. UNCHANGED <<taken, keyed, stray>> BY <1>7 DEF WakeToWork
  <2>2. InApp(ans)' + InRequest(ans)' <= InApp(ans) + InRequest(ans)
    <3>1. CASE decision' = NoDecision /\ decision = NoDecision /\ req' = PollRequest
      BY <3>1, <1>e DEF InApp, InRequest, Of, Answers
    <3>2. CASE decision' = NoDecision /\ req' = Request("decision", decision, screen.ask)
      <4>1. InApp(ans)' = 0 /\ InRequest(ans)' = InApp(ans)
        BY <3>2 DEF InApp, InRequest, Of, Answers
      <4> QED BY <4>1, <1>e
    <3> QED BY <1>7, <3>1, <3>2 DEF WakeToWork
  <2> QED BY <1>1, <1>2, <1>c, <1>e, <1>f, <2>1, <2>2
<1>8. ASSUME req' \in {PollRequest, NoRequest}, UNCHANGED <<taken, keyed, decision>>,
             stray' = stray \/ Fails
      PROVE  Goal
  <2>1. InRequest(ans)' = 0 /\ InApp(ans)' = InApp(ans) BY <1>8 DEF InRequest, InApp
  <2>2. /\ IsFiniteSet(stray') /\ Cardinality(AtBoard(ans)') \in Nat
        /\ Cardinality(AtBoard(ans)') <= n + InRequest(ans)
    BY <1>1, <1>8, <1>c, <1>e, FailsCounts
  <2> QED BY <1>2, <1>8, <1>c, <1>e, <2>1, <2>2
<1>9. CASE Decided \/ Polled \/ PollFails
  BY <1>8, <1>9 DEF Decided, Polled, PollFails
<1> QED
  BY <1>3, <1>4, <1>5, <1>6, <1>7, <1>9 DEF Next, Worker

\* A key press counts at most once, whatever fails: the bridge takes no answer
\* more often than its key was pressed.
THEOREM EachKeyCountsOnceCorrect == Spec => []EachKeyCountsOnce
<1>1. AInv /\ [Next]_vars => AInv' BY TypeStep, TokensStep DEF AInv
<1>2. AInv => EachKeyCountsOnce
  <2> SUFFICES ASSUME AInv, NEW ans \in Answers PROVE taken[ans] <= keyed[ans]
    BY DEF EachKeyCountsOnce
  <2>1. Cardinality(AtBoard(ans)) \in Nat BY BoardCounts DEF AInv, AtBoard
  <2>2. InApp(ans) \in {0, 1} /\ InRequest(ans) \in {0, 1} BY DEF InApp, InRequest, Of
  <2>3. taken[ans] \in Nat /\ keyed[ans] \in Nat BY DEF AInv, TypeOK
  <2>4. taken[ans] + OnTheWay(ans) <= keyed[ans] BY DEF AInv, Tokens
  <2> QED BY <2>1, <2>2, <2>3, <2>4 DEF OnTheWay
<1> QED BY <1>1, <1>2, InitInv, PTL DEF Spec

-----------------------------------------------------------------------------
(* The number that poll_state compares.                                     *)

\* Two prompts with one number are prompts of one ask.
SameAsk(p, q) == p.pending /\ q.pending /\ p.ask = q.ask => p.of = q.of

\* Until the bridge starts over, a number is the number of one ask, and the
\* prompt that is remembered is the one the Flipper vibrated for.
Numbered ==
  /\ \A a, b \in B!Shown : a = b
  /\ losses = 0 => /\ screen.ask <= seq /\ req.body.ask <= seq
                   /\ SameAsk(screen, req.body)
                   /\ SameAsk(screen, StateBody) /\ SameAsk(req.body, StateBody)
                   /\ screen.pending => buzzed = screen.of

\* GET /state answers with the last number, or without a prompt.
LEMMA StateBodyIs ==
  /\ StateBody.pending => StateBody.ask = seq
  /\ B!Shown = {} => ~StateBody.pending
  /\ StateBody.ask \in {0, seq}
  /\ UNCHANGED <<phase, seq>> => StateBody' = StateBody
  BY DEF StateBody, B!Shown

\* The gate shows one ask at a time, and counts it.
LEMMA BridgeNumbers ==
  ASSUME TypeOK, Numbered, BridgeStep
  PROVE  Numbered'
<1> USE DEF shownVars, inputVars, netVars, takenVars
<1>1. UNCHANGED <<screen, req, buzzed>> BY DEF BridgeStep
<1>2. CASE B!Lose /\ losses' = losses + 1
  <2>1. losses' # 0 BY <1>2 DEF TypeOK
  <2>2. B!Shown' = {} BY <1>2 DEF B!Lose, B!Shown, TypeOK, B!GateTypeOK
  <2> QED BY <2>1, <2>2 DEF Numbered
<1>3. ASSUME NEW a \in Asks, B!Show(a), seq' = seq + 1, UNCHANGED losses PROVE Numbered'
  <2>1. B!Shown' = {a} BY <1>3 DEF B!Show, B!Shown, TypeOK, B!GateTypeOK
  <2>2. StateBody'.pending => StateBody'.ask = seq + 1 BY <1>3 DEF StateBody
  <2>3. screen \in Prompts /\ req.body \in Prompts /\ seq \in Nat BY DEF TypeOK
  <2> QED BY <1>1, <1>3, <2>1, <2>2, <2>3 DEF Numbered, SameAsk
<1>4. ASSUME NEW a \in Asks, B!Ask(a) \/ B!Pass(a) \/ B!Decide(a) \/ B!Expire(a),
             UNCHANGED <<seq, losses>>
      PROVE  Numbered'
  <2>1. B!Shown' \subseteq B!Shown
    BY <1>4 DEF B!Ask, B!Pass, B!Decide, B!Expire, B!Settle, B!Shown, B!Presses, TypeOK, B!GateTypeOK
  <2>2. CASE B!Shown' = {}
    <3>1. ~StateBody'.pending BY <2>2, StateBodyIs DEF StateBody
    <3> QED BY <1>1, <1>4, <2>2, <3>1 DEF Numbered, SameAsk
  <2>3. CASE B!Shown' # {}
    <3>1. B!Shown' = B!Shown BY <2>1, <2>3 DEF Numbered
    <3>2. StateBody' = StateBody BY <1>4, <3>1 DEF StateBody
    <3> QED BY <1>1, <1>4, <3>1, <3>2 DEF Numbered
  <2> QED BY <2>2, <2>3
<1> QED BY <1>2, <1>3, <1>4 DEF BridgeStep

LEMMA NumberedStep == TypeOK /\ Numbered /\ [Next]_vars => Numbered'
<1> SUFFICES ASSUME TypeOK, Numbered, [Next]_vars PROVE Numbered'
  OBVIOUS
<1> USE DEF bridgeVars, shownVars, inputVars, netVars, takenVars
<1>a. /\ screen \in Prompts /\ req.body \in Prompts /\ StateBody \in Prompts /\ seq \in Nat
  BY StateBodyType DEF TypeOK
\* Outside BridgeStep the asks keep their phases and numbers.
<1>1. ASSUME UNCHANGED <<phase, seq, losses>>
      PROVE  StateBody' = StateBody /\ B!Shown' = B!Shown
  BY <1>1, StateBodyIs DEF B!Shown
<1>2. ASSUME NEW d, Takes(d) PROVE UNCHANGED phase
  BY <1>2 DEF Takes, B!Press, gateVars
<1>3. CASE BridgeStep
  BY <1>3, BridgeNumbers
<1>4. CASE Serve
  <2>1. /\ UNCHANGED <<phase, seq, losses, screen, buzzed>>
        /\ req' = [req EXCEPT !.served = TRUE, !.body = StateBody]
    BY <1>2, <1>4 DEF Serve, gateVars
  <2>2. req'.body = StateBody BY <2>1 DEF TypeOK
  <2>3. StateBody.ask <= seq BY <1>a, StateBodyIs
  <2> QED BY <1>1, <2>1, <2>2, <2>3 DEF Numbered, SameAsk
<1>5. CASE ServeStray
  <2>1. UNCHANGED <<phase, seq, losses, screen, buzzed, req>>
    BY <1>2, <1>5 DEF ServeStray
  <2> QED BY <1>1, <2>1 DEF Numbered
<1>6. ASSUME UNCHANGED <<phase, seq, losses, buzzed>>,
             screen' = screen \/ (~screen'.pending /\ screen'.ask = screen.ask),
             req'.body \in {req.body, NoPrompt}
      PROVE  Numbered'
  BY <1>1, <1>6, <1>a DEF Numbered, SameAsk
<1>7. ASSUME NEW ans, Key(ans) PROVE Numbered'
  BY <1>6, <1>7 DEF Key
<1>8. CASE Exit \/ Plug \/ FindBoard \/ WakeToStop \/ WakeToPing \/ UNCHANGED vars
  BY <1>6, <1>8 DEF Exit, Plug, FindBoard, WakeToStop, WakeToPing, vars
<1>9. CASE WakeToWork
  <2>1. req'.body = NoPrompt BY <1>9 DEF WakeToWork
  <2> QED BY <1>6, <1>9, <2>1 DEF WakeToWork
<1>10. CASE Decided
  <2>1. screen' = screen \/ (~screen'.pending /\ screen'.ask = screen.ask)
    BY <1>10, <1>a DEF Decided
  <2> QED BY <1>6, <1>10, <2>1 DEF Decided
<1>11. CASE PollFails
  BY <1>6, <1>11 DEF PollFails
<1>12. CASE Polled
  <2>1. /\ UNCHANGED <<phase, seq, losses>> /\ screen' = req.body /\ req'.body = NoPrompt
        /\ buzzed' = IF req.body.pending /\ (~screen.pending \/ req.body.ask # screen.ask)
                     THEN req.body.of ELSE buzzed
    BY <1>12 DEF Polled
  <2>2. losses = 0 /\ screen'.pending => buzzed' = screen'.of
    BY <2>1 DEF Numbered, SameAsk
  <2> QED BY <1>1, <1>a, <2>1, <2>2 DEF Numbered, SameAsk
<1> QED
  BY <1>3, <1>4, <1>5, <1>7, <1>8, <1>9, <1>10, <1>11, <1>12 DEF Next, Worker

\* No prompt comes up in silence before the bridge starts over: the number is
\* enough to tell a new prompt from the one on the screen.
THEOREM EveryPromptBuzzesCorrect == Spec => []EveryPromptBuzzes
<1>1. Init => TypeOK /\ Numbered
  <2>1. Init => B!Shown = {} BY DEF Init, B!Init, B!Shown
  <2> QED BY <2>1, InitInv, StateBodyIs DEF AInv, Init, Numbered, SameAsk
<1>2. TypeOK /\ Numbered /\ [Next]_vars => (TypeOK /\ Numbered)'
  BY TypeStep, NumberedStep
<1>3. Numbered => EveryPromptBuzzes
  BY DEF Numbered, EveryPromptBuzzes, PromptOnScreen
<1> QED BY <1>1, <1>2, <1>3, PTL DEF Spec

=============================================================================
