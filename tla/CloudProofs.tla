----------------------------- MODULE CloudProofs -----------------------------
(***************************************************************************)
(* Proofs about CloudSync.tla, for any asks, timeouts, evictions and       *)
(* faults: the composition behaves like a bridge, its mirror catches up,   *)
(* and, when calls keep their order, what the bridge collects was accepted *)
(* while the relay showed the pending ask.                                 *)
(***************************************************************************)
EXTENDS CloudSync, BridgeProofs

Bodies    == [pending : BOOLEAN, ask : Nat]
BoxKinds  == [answer : BoxAnswers \cup {"none"}, ask : Nat, shown : Nat]
Requests  == [kind : {"none", "put", "take"}, body : Bodies, served : BOOLEAN,
              got : BoxKinds, online : BOOLEAN]

CTypes ==
  /\ box \in Bodies /\ decision \in BoxKinds /\ screen \in [Flippers -> Bodies]
  /\ call \in [Threads -> Requests] /\ ahead \in [Threads -> SUBSET Threads]
  /\ late \subseteq Requests /\ faults \in Nat /\ missed \in Nat

\* A thread has the request open that its place in the code says.
CallsMatch ==
  /\ \A a \in Asks : call[a].kind = IF pc[a] = "push" THEN "put"
                                    ELSE IF pc[a] = "take" THEN "take" ELSE "none"
  /\ call["pusher"].kind = IF pusher = "put" THEN "put" ELSE "none"

\* handle_ask pushes before it opens its ask, and holds ask_serial: there is
\* nothing else to see by the time the push arrives.
PushesAsIs == \A a \in Asks : call[a].kind = "put" => call[a].body = Body

\* version counts from 1, so missed = 0 is no version.
Versioned == version # 0

SInv == BInv /\ CTypes /\ CallsMatch /\ PushesAsIs /\ Versioned

USE CloudAssumption, BridgeAssumption, MailboxAssumption
USE DEF hookVars, askVars, shownVars, pollVars, procVars, cloudVars, boxVars, syncVars, otherVars,
        PusherMoves

LEMMA RequestTypes ==
  /\ NoCall \in Requests
  /\ TypeOK => PutCall \in Requests
  /\ TakeCall \in Requests
  /\ EmptyBox \in Bodies /\ NoDecision \in BoxKinds
  BY DEF NoCall, PutCall, TakeCall, Request, Requests, Bodies, BoxKinds, EmptyBox, NoDecision,
         BoxAnswers, TypeOK, Body, Pending

LEMMA InitSInv == SyncInit => SInv
<1> SUFFICES ASSUME SyncInit PROVE SInv
  OBVIOUS
<1>1. BInv
  BY InitInv DEF SyncInit
<1>2. CTypes
  BY RequestTypes DEF SyncInit, CTypes, NoCalls, NoOrder, BoxInit
<1>3. CallsMatch
  BY DEF SyncInit, CallsMatch, NoCalls, NoCall, Request, Threads, Init
<1>4. PushesAsIs
  BY DEF SyncInit, PushesAsIs, NoCalls, NoCall, Request, Threads
<1> QED
  BY <1>1, <1>2, <1>3, <1>4 DEF SInv, SyncInit, Init, Versioned

\* Every step of the composition is a step of the bridge, or none.
LEMMA BridgeStep == ASSUME SInv, [SyncNext]_allVars PROVE [Next]_vars
<1>1. ASSUME NEW a \in Asks, SyncAsk(a) PROVE HandleAsk(a) \/ CloudReplies(a)
  <2>1. Online(a) \in Replies /\ "failed" \in Replies
    BY DEF Online, Replies
  <2>2. call[a].got.answer \in Answers /\ "none" \in Answers
    BY DEF SInv, CTypes, Requests, BoxKinds, BoxAnswers, Answers, Decisions, Threads
  <2> QED
    BY <1>1, <2>1, <2>2 DEF SyncAsk, HandleAsk, CloudReplies
<1>2. ASSUME NEW a \in Asks, SyncHook(a) PROVE HookAsk(a) \/ HookHears(a) \/ HookGivesUp(a)
  BY <1>2 DEF SyncHook
<1>3. CASE SyncPusher
  <2>1. Online("pusher") \in Replies /\ "failed" \in Replies
    BY DEF Online, Replies
  <2> QED
    BY <1>3, <2>1 DEF SyncPusher, Next
<1>4. CASE SyncLocal
  BY <1>4 DEF SyncLocal, Next
<1>5. CASE SyncFlipper \/ (\E t \in Threads : Serve(t)) \/ (\E c \in late : ServeLate(c)) \/ SyncEvict
  BY <1>5 DEF SyncFlipper, Serve, ServeLate, SyncEvict
<1>6. CASE SyncCrash \/ (Restart /\ UNCHANGED otherVars) \/ SyncTick
  BY <1>6 DEF SyncCrash, SyncTick, Next
<1>7. CASE UNCHANGED allVars
  BY <1>7 DEF allVars
<1> QED
  BY <1>1, <1>2, <1>3, <1>4, <1>5, <1>6, <1>7 DEF SyncNext, Next

LEMMA BInvStep == ASSUME SInv, [SyncNext]_allVars PROVE BInv'
  BY BridgeStep, TypeStep, NotAskedStep, RelayOnlyStep, OneAskStep DEF SInv, BInv

-----------------------------------------------------------------------------
(* What the actions do to the relay and to the open calls.                  *)

LEMMA SendTypes ==
  ASSUME CTypes, NEW t \in Threads, NEW c \in Requests, Send(t, c), UNCHANGED boxVars
  PROVE  CTypes'
<1>1. Unserved \subseteq Threads
  BY DEF Unserved
<1> QED
  BY <1>1 DEF CTypes, Send

LEMMA AnsweredTypes ==
  ASSUME CTypes, NEW t \in Threads, Answered(t)
  PROVE  CTypes'
  BY RequestTypes DEF CTypes, Answered

LEMMA LeavesTypes ==
  ASSUME CTypes, NEW t \in Threads, LeavesOrder(t)
  PROVE  ahead' \in [Threads -> SUBSET Threads]
<1>1. \A u \in Threads : (IF u = t THEN {} ELSE ahead[u] \ {t}) \in SUBSET Threads
  BY DEF CTypes
<1> QED
  BY <1>1 DEF LeavesOrder

LEMMA FailsTypes ==
  ASSUME TypeOK, CTypes, NEW t \in Threads, Fails(t)
  PROVE  CTypes'
<1>1. late' \subseteq Requests
  <2>1. call[t] \in Requests
    BY DEF CTypes
  <2> QED
    BY <2>1 DEF CTypes, Fails
<1>2. call' \in [Threads -> Requests]
  BY RequestTypes DEF CTypes, Fails
<1>3. faults' \in Nat /\ missed' \in Nat
  BY DEF TypeOK, CTypes, Fails, Fault, Misses
<1> QED
  BY <1>1, <1>2, <1>3, LeavesTypes DEF CTypes, Fails

LEMMA BoxTypes ==
  ASSUME CTypes
  PROVE  /\ \A b \in Bodies : PutState(b) => (box \in Bodies /\ decision \in BoxKinds)'
         /\ TakeDecision => (box \in Bodies /\ decision \in BoxKinds)'
         /\ \A ans \in BoxAnswers, n \in Nat :
              AnswerBox(ans, n) => (box \in Bodies /\ decision \in BoxKinds)'
<1>1. ASSUME NEW b \in Bodies, PutState(b) PROVE (box \in Bodies /\ decision \in BoxKinds)'
  BY <1>1, RequestTypes DEF CTypes, PutState, DecisionAfter
<1>2. TakeDecision => (box \in Bodies /\ decision \in BoxKinds)'
  BY RequestTypes DEF CTypes, TakeDecision
<1>3. ASSUME NEW ans \in BoxAnswers, NEW n \in Nat, AnswerBox(ans, n)
      PROVE  (box \in Bodies /\ decision \in BoxKinds)'
  BY <1>3 DEF CTypes, AnswerBox, BoxKinds, Bodies
<1> QED
  BY <1>1, <1>2, <1>3

LEMMA ServeTypes ==
  ASSUME CTypes, NEW t \in Threads, Serve(t)
  PROVE  CTypes'
<1>1. call[t].body \in Bodies
  BY DEF CTypes, Requests
<1>2. (box \in Bodies /\ decision \in BoxKinds)'
  BY <1>1, BoxTypes DEF Serve
<1>3. call' \in [Threads -> Requests]
  <2>1. BoxOnline \in BOOLEAN
    BY DEF BoxOnline
  <2>2. [call[t] EXCEPT !.served = TRUE, !.got = decision, !.online = BoxOnline] \in Requests
    <3>1. call[t] \in Requests /\ decision \in BoxKinds
      BY DEF CTypes
    <3> QED
      BY <2>1, <3>1 DEF Requests
  <2>3. call' = [call EXCEPT ![t] = [call[t] EXCEPT !.served = TRUE, !.got = decision,
                                                    !.online = BoxOnline]]
    BY DEF Serve, CTypes
  <2> QED
    BY <2>2, <2>3 DEF CTypes
<1> QED
  BY <1>2, <1>3, LeavesTypes DEF CTypes, Serve, PutState, TakeDecision

\* The steps of the composition by what they do to the calls.
AskSends(a)  == \/ TakeSerial(a) /\ Send(a, PutCall) /\ UNCHANGED boxVars
                \/ WakeTake(a) /\ Send(a, TakeCall) /\ UNCHANGED boxVars
AskHears(a)  == \/ PushReply(a, Online(a)) /\ Answered(a)
                \/ (TakeAgain(a, call[a].got.answer) \/ TakeClose(a, call[a].got.answer)) /\ Answered(a)
AskMisses(a) == \/ (PushReply(a, "failed") \/ AskRaises(a)) /\ Fails(a)
                \/ (TakeAgain(a, "none") \/ TakeClose(a, "none")) /\ Fails(a)
AskInside(a) == (AskPass(a) \/ AskOpen(a) \/ WakeClose(a)) /\ UNCHANGED otherVars

LEMMA AskCases ==
  ASSUME NEW a \in Asks
  PROVE  SyncAsk(a) <=> AskSends(a) \/ AskHears(a) \/ AskMisses(a) \/ AskInside(a)
  BY DEF SyncAsk, AskSends, AskHears, AskMisses, AskInside

LEMMA TypesStep == SInv /\ [SyncNext]_allVars => CTypes'
<1> SUFFICES ASSUME SInv, [SyncNext]_allVars PROVE CTypes'
  OBVIOUS
<1>0. TypeOK /\ CTypes /\ PutCall \in Requests /\ TakeCall \in Requests /\ "pusher" \in Threads
  BY RequestTypes DEF SInv, BInv, Threads
<1>1. ASSUME UNCHANGED otherVars PROVE CTypes'
  BY <1>0, <1>1 DEF CTypes
<1>2. ASSUME NEW a \in Asks, SyncAsk(a) PROVE CTypes'
  <2>1. a \in Threads
    BY DEF Threads
  <2> QED
    BY <1>0, <1>1, <1>2, <2>1, AskCases, SendTypes, AnsweredTypes, FailsTypes
    DEF AskSends, AskHears, AskMisses, AskInside
<1>3. ASSUME NEW a \in Asks, SyncHook(a) PROVE CTypes'
  BY <1>1, <1>3 DEF SyncHook
<1>4. CASE SyncPusher
  BY <1>0, <1>1, <1>4, SendTypes, AnsweredTypes, FailsTypes DEF SyncPusher
<1>5. CASE SyncLocal
  BY <1>1, <1>5 DEF SyncLocal
<1>6. CASE SyncFlipper
  <2>1. (box \in Bodies /\ decision \in BoxKinds /\ screen \in [Flippers -> Bodies])'
    <3>1. ASSUME NEW f \in Flippers, NEW ans \in BoxAnswers, AnswerBox(ans, screen[f].ask) PROVE <2>1!:
      <4>1. screen[f].ask \in Nat
        BY <1>0 DEF CTypes, Bodies
      <4> QED
        BY <1>0, <3>1, <4>1, BoxTypes DEF AnswerBox, CTypes
    <3>2. CASE StrayAnswer("allow") \/ \E f \in Flippers : BoxPollStart(f) \/ BoxPollReply(f)
      BY <1>0, <3>2 DEF CTypes, StrayAnswer, BoxPollStart, BoxPollReply
    <3> QED
      BY <1>6, <3>1, <3>2 DEF SyncFlipper, BoxPress
  <2> QED
    BY <1>0, <1>6, <2>1 DEF SyncFlipper, CTypes
<1>7. ASSUME NEW t \in Threads, Serve(t) PROVE CTypes'
  BY <1>0, <1>7, ServeTypes
<1>8. ASSUME NEW c \in late, ServeLate(c) PROVE CTypes'
  <2>1. c.body \in Bodies
    BY <1>0 DEF CTypes, Requests
  <2>2. (box \in Bodies /\ decision \in BoxKinds)'
    BY <1>0, <1>8, <2>1, BoxTypes DEF ServeLate
  <2>3. missed' \in Nat
    BY <1>0, <1>8 DEF ServeLate, Misses, TypeOK, CTypes
  <2> QED
    BY <1>0, <1>8, <2>2, <2>3 DEF ServeLate, CTypes, PutState, TakeDecision
<1>9. CASE SyncEvict
  BY <1>0, <1>9, RequestTypes DEF SyncEvict, Evict, Fault, TypeOK, CTypes
<1>10. CASE SyncCrash
  <2>1. late' \subseteq Requests
    BY <1>0, <1>10 DEF SyncCrash, Unserved, CTypes
  <2> QED
    BY <1>0, <1>10, <2>1, RequestTypes DEF SyncCrash, Fault, CTypes, NoCalls, NoOrder
<1>11. CASE SyncTick
  BY <1>0, <1>11 DEF SyncTick, BoxTick, CTypes
<1>12. CASE UNCHANGED allVars
  BY <1>1, <1>12 DEF allVars
<1> QED
  BY <1>1, <1>2, <1>3, <1>4, <1>5, <1>6, <1>7, <1>8, <1>9, <1>10, <1>11, <1>12 DEF SyncNext

\* How a step of each group changes the calls and the places in the code.
PusherStays == pusher' = pusher
AskMoves(a, c) == /\ call' = [call EXCEPT ![a] = c]
                  /\ pc' = [pc EXCEPT ![a] = IF c.kind = "put" THEN "push"
                                             ELSE IF c.kind = "take" THEN "take" ELSE pc'[a]]
                  /\ c.kind = "none" => pc'[a] \notin {"push", "take"}
                  /\ PusherStays

LEMMA AskMoveCases ==
  ASSUME SInv, NEW a \in Asks
  PROVE  /\ AskSends(a) => \/ TakeSerial(a) /\ AskMoves(a, PutCall)
                           \/ WakeTake(a) /\ AskMoves(a, TakeCall)
         /\ AskHears(a) \/ AskMisses(a) => AskMoves(a, NoCall)
         /\ AskInside(a) => /\ \E x \in {"replied", "wait"} : pc' = [pc EXCEPT ![a] = x]
                            /\ pc[a] \in {"gate", "wait"}
                            /\ PusherStays /\ UNCHANGED otherVars
<1> USE DEF PutCall, TakeCall, NoCall, Request
<1>0. pc \in [Asks -> PCs]
  BY DEF SInv, BInv, TypeOK
<1>1. AskSends(a) => \/ TakeSerial(a) /\ AskMoves(a, PutCall)
                     \/ WakeTake(a) /\ AskMoves(a, TakeCall)
  BY <1>0 DEF AskSends, TakeSerial, WakeTake, Send, AskMoves, PusherStays
<1>2. AskHears(a) \/ AskMisses(a) => AskMoves(a, NoCall)
  <2>1. ASSUME NEW r, PushReply(a, r)
        PROVE  PusherStays /\ \E x \in {"gate", "wait", "replied", "raised"} : pc' = [pc EXCEPT ![a] = x]
    BY <2>1 DEF PushReply, PusherStays, AfterPush
  <2>2. ASSUME NEW got, TakeAgain(a, got) \/ TakeClose(a, got)
        PROVE  PusherStays /\ \E x \in {"gate", "wait", "replied", "raised"} : pc' = [pc EXCEPT ![a] = x]
    BY <2>2 DEF TakeAgain, TakeClose, Again, Close, PusherStays
  <2>3. AskHears(a) \/ AskMisses(a) => call' = [call EXCEPT ![a] = NoCall]
    BY DEF AskHears, AskMisses, Answered, Fails
  <2>4. AskHears(a) \/ AskMisses(a) =>
          PusherStays /\ \E x \in {"gate", "wait", "replied", "raised"} : pc' = [pc EXCEPT ![a] = x]
    <3>1. AskRaises(a) => PusherStays /\ pc' = [pc EXCEPT ![a] = "raised"]
      BY DEF AskRaises, PusherStays
    <3> QED
      BY <2>1, <2>2, <3>1 DEF AskHears, AskMisses
  <2> QED
    BY <1>0, <2>3, <2>4 DEF AskMoves
<1>3. AskInside(a) => /\ \E x \in {"replied", "wait"} : pc' = [pc EXCEPT ![a] = x]
                      /\ pc[a] \in {"gate", "wait"}
                      /\ PusherStays /\ UNCHANGED otherVars
  BY DEF AskInside, AskPass, AskOpen, WakeClose, Awake, Close, PusherStays
<1> QED
  BY <1>1, <1>2, <1>3

LEMMA MatchStep == SInv /\ [SyncNext]_allVars => CallsMatch'
<1> SUFFICES ASSUME SInv, [SyncNext]_allVars PROVE CallsMatch'
  OBVIOUS
<1>0. /\ call \in [Threads -> Requests] /\ pc \in [Asks -> PCs]
      /\ CallsMatch /\ NotAskedYet /\ "pusher" \in Threads
      /\ \A a \in Asks : a \in Threads /\ a # "pusher"
  BY DEF SInv, BInv, TypeOK, CTypes, Threads
<1>1. ASSUME UNCHANGED <<pc, pusher, call>> PROVE CallsMatch'
  BY <1>0, <1>1 DEF CallsMatch
<1>2. ASSUME NEW a \in Asks, NEW c, AskMoves(a, c), c.kind \in {"none", "put", "take"}
      PROVE  CallsMatch'
  BY <1>0, <1>2 DEF AskMoves, CallsMatch, PusherStays
<1>3. ASSUME NEW a \in Asks, SyncAsk(a) PROVE CallsMatch'
  <2>1. PutCall.kind = "put" /\ TakeCall.kind = "take" /\ NoCall.kind = "none"
    BY DEF PutCall, TakeCall, NoCall, Request
  <2>2. CASE AskInside(a)
    <3>1. PICK x \in {"replied", "wait"} : pc' = [pc EXCEPT ![a] = x]
      BY <2>2, AskMoveCases
    <3> QED
      BY <1>0, <2>2, <3>1, AskMoveCases DEF CallsMatch, PusherStays
  <2> QED
    BY <1>2, <1>3, <2>1, <2>2, AskCases, AskMoveCases
<1>4. ASSUME NEW a \in Asks, SyncHook(a) PROVE CallsMatch'
  <2>1. CASE HookAsk(a)
    <3>1. pc[a] = "none" /\ UNCHANGED <<call, pusher>>
      BY <1>0, <1>4, <2>1 DEF HookAsk, NotAskedYet, SyncHook
    <3>2. pc' = [pc EXCEPT ![a] = "queued"] \/ pc' = pc
      BY <2>1 DEF HookAsk
    <3> QED
      BY <1>0, <3>1, <3>2 DEF CallsMatch
  <2>2. CASE HookHears(a) \/ HookGivesUp(a)
    BY <1>1, <1>4, <2>2 DEF HookHears, HookGivesUp, SyncHook
  <2> QED
    BY <1>4, <2>1, <2>2 DEF SyncHook
<1>5. CASE SyncPusher
  <2>1. CASE (PusherWakes \/ PusherClears) /\ UNCHANGED otherVars
    <3>1. UNCHANGED <<pc, call>> /\ pusher # "put" /\ pusher' # "put"
      BY <2>1 DEF PusherWakes, PusherClears
    <3> QED
      BY <1>0, <3>1 DEF CallsMatch
  <2>2. CASE PusherPuts /\ Send("pusher", PutCall)
    <3>1. UNCHANGED pc /\ pusher' = "put" /\ call' = [call EXCEPT !["pusher"] = PutCall]
      BY <2>2 DEF PusherPuts, Send
    <3> QED
      BY <1>0, <3>1 DEF CallsMatch, PutCall, Request
  <2>3. ASSUME NEW r, PusherReply(r) \/ PusherRaises, Answered("pusher") \/ Fails("pusher")
        PROVE  CallsMatch'
    <3>1. /\ UNCHANGED pc /\ pusher' \in {"idle", "ended"}
          /\ call' = [call EXCEPT !["pusher"] = NoCall]
      BY <2>3 DEF PusherReply, PusherRaises, Answered, Fails
    <3> QED
      BY <1>0, <3>1 DEF CallsMatch, NoCall, Request
  <2> QED
    BY <1>5, <2>1, <2>2, <2>3 DEF SyncPusher
<1>6. CASE SyncLocal
  BY <1>1, <1>6 DEF SyncLocal, Press, PostState
<1>7. CASE SyncFlipper \/ SyncEvict
  BY <1>1, <1>7 DEF SyncFlipper, SyncEvict, vars
<1>8. ASSUME NEW t \in Threads, Serve(t) PROVE CallsMatch'
  <2>1. \A u \in Threads : call'[u].kind = call[u].kind
    BY <1>0, <1>8 DEF Serve, Requests
  <2> QED
    BY <1>0, <1>8, <2>1 DEF CallsMatch, Serve, vars
<1>9. ASSUME NEW c \in late, ServeLate(c) PROVE CallsMatch'
  BY <1>1, <1>9 DEF ServeLate, vars
<1>10. CASE SyncCrash
  <2>1. \A t \in Threads : call'[t].kind = "none"
    BY <1>10 DEF SyncCrash, NoCalls, NoCall, Request
  <2>2. pusher' = "idle" /\ \A a \in Asks : pc'[a] \notin {"push", "take"}
    BY <1>10 DEF SyncCrash, Crash, Serving
  <2> QED
    BY <1>0, <2>1, <2>2 DEF CallsMatch
<1>11. CASE (Restart /\ UNCHANGED otherVars) \/ SyncTick \/ UNCHANGED allVars
  BY <1>1, <1>11 DEF Restart, SyncTick, Tick, allVars, vars
<1> QED
  BY <1>3, <1>4, <1>5, <1>6, <1>7, <1>8, <1>9, <1>10, <1>11 DEF SyncNext

\* Only a step of thread t opens or closes t's call; serving it keeps what it is.
LEMMA PushesStep == SInv /\ [SyncNext]_allVars => PushesAsIs'
<1> SUFFICES ASSUME SInv, [SyncNext]_allVars PROVE PushesAsIs'
  OBVIOUS
<1>0. /\ call \in [Threads -> Requests] /\ PushesAsIs /\ CallsMatch
      /\ pending \in [id : Nat, answer : Answers]
      /\ \A a \in Asks : a \in Threads /\ a # "pusher"
  BY DEF SInv, BInv, TypeOK, CTypes, Threads
<1>1. ASSUME UNCHANGED call, pending'.id = pending.id PROVE PushesAsIs'
  BY <1>0, <1>1 DEF PushesAsIs, Body, Pending
<1>2. ASSUME NEW a \in Asks, SyncAsk(a) PROVE PushesAsIs'
  <2>1. ASSUME NEW c, AskMoves(a, c), pending' = pending, c.kind = "put" => c.body = Body
        PROVE  PushesAsIs'
    BY <1>0, <2>1 DEF AskMoves, PushesAsIs, Body, Pending
  <2>2. PutCall.body = Body /\ TakeCall.kind = "take" /\ NoCall.kind = "none"
    BY DEF PutCall, TakeCall, NoCall, Request
  <2>3. ASSUME pc[a] \in Serving \ {"push"}, NEW c, call' = [call EXCEPT ![a] = c], c.kind = "none"
        PROVE  PushesAsIs'
    <3>1. \A b \in Asks : call[b].kind # "put"
      BY <1>0, <2>3, BridgeAssumption DEF SInv, BInv, OneAskAtATime, CallsMatch, Serving
    <3> QED
      BY <1>0, <2>3, <3>1 DEF PushesAsIs
  <2>4. CASE AskInside(a)
    <3>1. pc[a] \in Serving \ {"push"} /\ UNCHANGED call /\ call[a].kind = "none"
      BY <1>0, <2>4, AskMoveCases DEF CallsMatch, Serving
    <3>2. call' = [call EXCEPT ![a] = call[a]]
      BY <1>0, <3>1
    <3> QED
      BY <2>3, <3>1, <3>2
  <2>5. CASE AskSends(a)
    <3>1. UNCHANGED pending
      BY <2>5 DEF AskSends, TakeSerial, WakeTake
    <3> QED
      BY <2>1, <2>2, <2>5, <3>1, AskMoveCases
  <2>6. CASE AskHears(a) \/ AskMisses(a)
    <3>1. CASE pc[a] = "take"
      <4>1. call' = [call EXCEPT ![a] = NoCall]
        BY <2>6, AskMoveCases DEF AskMoves
      <4> QED
        BY <2>2, <2>3, <3>1, <4>1 DEF Serving
    <3>2. CASE pc[a] # "take"
      <4>1. UNCHANGED pending
        BY <2>6, <3>2 DEF AskHears, AskMisses, PushReply, AskRaises, TakeAgain, TakeClose
      <4> QED
        BY <2>1, <2>2, <2>6, <4>1, AskMoveCases
    <3> QED
      BY <3>1, <3>2
  <2> QED
    BY <1>2, <2>4, <2>5, <2>6, AskCases
<1>3. ASSUME NEW a \in Asks, SyncHook(a) PROVE PushesAsIs'
  BY <1>1, <1>3 DEF SyncHook, HookAsk, HookHears, HookGivesUp
<1>4. CASE SyncPusher
  <2>1. \A a \in Asks : call'[a] = call[a]
    BY <1>0, <1>4 DEF SyncPusher, Send, Answered, Fails
  <2>2. pending' = pending
    BY <1>4 DEF SyncPusher, PusherWakes, PusherClears, PusherPuts, PusherReply, PusherRaises
  <2> QED
    BY <1>0, <2>1, <2>2 DEF PushesAsIs, Body, Pending
<1>5. CASE SyncLocal \/ SyncFlipper \/ SyncEvict \/ (Restart /\ UNCHANGED otherVars) \/ SyncTick
  <2>1. UNCHANGED call /\ pending'.id = pending.id
    BY <1>0, <1>5 DEF SyncLocal, Press, PostState, SyncFlipper, SyncEvict, Restart, SyncTick, Tick, vars
  <2> QED
    BY <1>1, <2>1
<1>6. ASSUME NEW t \in Threads, Serve(t) PROVE PushesAsIs'
  <2>1. \A u \in Threads : call'[u].kind = call[u].kind /\ call'[u].body = call[u].body
    BY <1>0, <1>6 DEF Serve, Requests
  <2>2. pending' = pending
    BY <1>6 DEF Serve, vars
  <2> QED
    BY <1>0, <2>1, <2>2 DEF PushesAsIs, Body, Pending
<1>7. ASSUME NEW c \in late, ServeLate(c) PROVE PushesAsIs'
  BY <1>1, <1>7 DEF ServeLate, vars
<1>8. CASE SyncCrash
  BY <1>0, <1>8 DEF SyncCrash, NoCalls, NoCall, Request, PushesAsIs
<1>9. CASE UNCHANGED allVars
  BY <1>1, <1>9 DEF allVars, vars
<1> QED
  BY <1>2, <1>3, <1>4, <1>5, <1>6, <1>7, <1>8, <1>9 DEF SyncNext

LEMMA VersionStep == ASSUME SInv, [SyncNext]_allVars PROVE Versioned'
<1>0. version \in Nat /\ version # 0
  BY DEF SInv, BInv, TypeOK, Versioned
<1>1. ASSUME NEW t, Bump(t) PROVE version' # 0
  BY <1>0, <1>1 DEF Bump
<1>2. ASSUME NEW a \in Asks, NEW ans, Close(a, ans) \/ Again(a) PROVE version' # 0
  BY <1>0, <1>1, <1>2 DEF Close, Again
<1>3. ASSUME NEW a \in Asks, HandleAsk(a) PROVE version' # 0
  BY <1>0, <1>1, <1>2, <1>3
  DEF HandleAsk, TakeSerial, AskPass, AskOpen, WakeAgain, WakeClose, WakeTake, PassBump
<1>4. ASSUME NEW a \in Asks, CloudReplies(a) PROVE version' # 0
  BY <1>0, <1>2, <1>4 DEF CloudReplies, PushReply, TakeAgain, TakeClose, AskRaises
<1>5. ASSUME NEW a \in Asks, HookAsk(a) \/ HookHears(a) \/ HookGivesUp(a) PROVE version' # 0
  BY <1>0, <1>5 DEF HookAsk, HookHears, HookGivesUp
<1>6. ASSUME NEW ans, Press(ans) \/ StrayDecision(ans) \/ PostState(ans) PROVE version' # 0
  BY <1>0, <1>1, <1>6 DEF Press, PressBump, StrayDecision, PostState
<1>7. ASSUME NEW p, PollStart(p) \/ PollReply(p) \/ PusherReply(p) PROVE version' # 0
  BY <1>0, <1>7 DEF PollStart, PollReply, PusherReply
<1>8. ASSUME PusherWakes \/ PusherClears \/ PusherPuts \/ PusherRaises PROVE version' # 0
  BY <1>0, <1>8 DEF PusherWakes, PusherClears, PusherPuts, PusherRaises
<1>9. ASSUME Crash \/ Restart \/ Tick \/ UNCHANGED vars PROVE version' # 0
  <2>1. Crash => version' = 1
    BY DEF Crash
  <2>2. Restart \/ Tick \/ UNCHANGED vars => version' = version
    BY DEF Restart, Tick, vars
  <2> QED
    BY <1>0, <1>9, <2>1, <2>2
<1>10. ASSUME Next PROVE version' # 0
  <2>1. CASE \E a \in Asks : \/ HookAsk(a) \/ HookHears(a) \/ HookGivesUp(a)
                             \/ HandleAsk(a) \/ CloudReplies(a)
    BY <1>3, <1>4, <1>5, <2>1
  <2>2. CASE \/ \E ans \in Decisions \cup {"invalid"} : Press(ans) \/ StrayDecision(ans)
             \/ \E s \in {"empty", "idle", "working", "waiting"} : PostState(s)
    BY <1>6, <2>2
  <2>3. CASE \/ \E p \in Pollers : PollStart(p) \/ PollReply(p)
             \/ \E r \in Replies : PusherReply(r)
    BY <1>7, <2>3
  <2> QED
    BY <1>8, <1>9, <1>10, <2>1, <2>2, <2>3 DEF Next
<1> QED
  BY <1>9, <1>10, BridgeStep DEF Versioned

\* A mishap is only forgotten when the bridge starts over.
LEMMA MissedStays ==
  ASSUME SInv, [SyncNext]_allVars, missed' = 0, ~SyncCrash
  PROVE  missed = 0
<1>0. version # 0 BY DEF SInv, Versioned
<1>1. ASSUME NEW c, Misses(c) PROVE missed' = missed
  BY <1>0, <1>1 DEF Misses
<1>2. ASSUME NEW t, NEW c, Send(t, c) \/ Answered(t) \/ Fails(t) PROVE missed' = missed
  BY <1>1, <1>2 DEF Send, Answered, Fails
<1>3. ASSUME NEW a \in Asks, SyncAsk(a) PROVE missed' = missed
  BY <1>2, <1>3 DEF SyncAsk
<1>4. SyncPusher => missed' = missed
  BY <1>2 DEF SyncPusher
<1>5. ASSUME NEW c \in late, ServeLate(c) PROVE missed' = missed
  BY <1>1, <1>5 DEF ServeLate
<1>6. ~SyncEvict
  BY <1>0 DEF SyncEvict
<1> QED
  BY <1>3, <1>4, <1>5, <1>6
  DEF SyncNext, SyncHook, SyncLocal, SyncFlipper, Serve, SyncTick, allVars

LEMMA SInvStep == SInv /\ [SyncNext]_allVars => SInv'
  BY BInvStep, TypesStep, MatchStep, PushesStep, VersionStep DEF SInv

LEMMA SyncInvariance == SyncSpec => []SInv
  BY InitSInv, SInvStep, PTL DEF SyncSpec

\* The bridge in the composition is the bridge of Bridge.tla: whatever the
\* worker, the network and the calls of two threads do, the relay's answers are
\* ones Bridge.tla foresees, so everything proved of Bridge.tla holds here.
THEOREM SyncImplementsBridge == SyncSpec => Spec
<1>1. SyncInit => Init
  BY DEF SyncInit
<1>2. SInv /\ [SyncNext]_allVars => [Next]_vars
  BY BridgeStep
<1> QED
  BY <1>1, <1>2, SyncInvariance, PTL DEF SyncSpec, Spec

\* With a relay too, asks are shown one at a time, and a verdict is the first
\* press, what was collected at the relay, or the timeout's deny.
THEOREM SyncImplementsGate == SyncSpec => ImplementsGate
  BY SyncImplementsBridge, BridgeImplementsGate

-----------------------------------------------------------------------------
(* The mirror.                                                              *)

Shown == box.ask = pending.id /\ (box.pending => Pending)

\* Unless cloud_pusher still has to look, or nothing has changed since the relay
\* was told wrong, what cloud_pusher pushed last is what there is to see, on its
\* way or arrived.
Mirrored ==
  (missed < version /\ ~dirty /\ pusher \in {"idle", "put"}) =>
    IF pusher = "put" /\ ~call["pusher"].served THEN call["pusher"].body = Body ELSE Shown

MirrorFrame == UNCHANGED <<pending, version, dirty, pusher, box, call["pusher"], missed>>

\* An ask changes what there is to see only with dirty set.
LEMMA AskMirror ==
  ASSUME SInv, NEW a \in Asks, SyncAsk(a), missed' < version'
  PROVE  MirrorFrame \/ dirty'
<1>0. /\ call \in [Threads -> Requests] /\ a \in Threads /\ "pusher" \in Threads /\ a # "pusher"
      /\ CallsMatch /\ version \in Nat
  BY DEF SInv, BInv, TypeOK, CTypes, Threads
<1>1. CASE AskSends(a)
  BY <1>0, <1>1 DEF AskSends, TakeSerial, WakeTake, Send, MirrorFrame
<1>2. ASSUME NEW got, TakeClose(a, got) PROVE dirty'
  BY <1>2 DEF TakeClose, Close, Bump
<1>3. CASE AskHears(a)
  <2>1. Answered(a) => UNCHANGED <<box, call["pusher"], missed>>
    BY <1>0 DEF Answered
  <2>2. CASE PushReply(a, Online(a)) /\ Answered(a)
    BY <2>1, <2>2 DEF PushReply, MirrorFrame
  <2>3. ASSUME NEW got, TakeAgain(a, got), Answered(a) PROVE MirrorFrame
    BY <2>1, <2>3 DEF TakeAgain, Again, MirrorFrame
  <2> QED
    BY <1>2, <1>3, <2>2, <2>3 DEF AskHears
<1>4. CASE AskMisses(a)
  <2>0. call[a].kind # "put"
    <3>1. SUFFICES ASSUME call[a].kind = "put" PROVE FALSE
      OBVIOUS
    <3>2. pc[a] = "push"
      BY <1>0, <3>1 DEF CallsMatch
    <3>3. missed' = version /\ version' = version
      BY <1>4, <3>1, <3>2
      DEF AskMisses, Fails, Misses, PushReply, AskRaises, TakeAgain, TakeClose
    <3> QED
      BY <1>0, <3>3
  <2>1. ~PushReply(a, "failed")
    BY <1>0, <2>0 DEF PushReply, CallsMatch
  <2>3. CASE AskRaises(a) /\ Fails(a)
    <3>1. UNCHANGED <<missed, box, call["pusher"]>>
      BY <1>0, <2>0, <2>3 DEF Fails, Misses
    <3> QED
      BY <2>3, <3>1 DEF AskRaises, MirrorFrame
  <2>2. CASE TakeAgain(a, "none") /\ Fails(a)
    <3>1. call[a].kind = "take"
      BY <1>0, <2>2 DEF TakeAgain, CallsMatch
    <3>2. UNCHANGED <<missed, box, call["pusher"]>>
      BY <1>0, <2>2, <3>1 DEF Fails, Misses
    <3> QED
      BY <2>2, <3>2 DEF TakeAgain, Again, MirrorFrame
  <2> QED
    BY <1>2, <1>4, <2>1, <2>2, <2>3 DEF AskMisses
<1>5. CASE AskInside(a)
  BY <1>5 DEF AskInside, AskPass, AskOpen, WakeClose, Close, PassBump, Bump
<1> QED
  BY <1>1, <1>3, <1>4, <1>5, AskCases

LEMMA MirroredStep == SInv /\ Mirrored /\ [SyncNext]_allVars => Mirrored'
<1> SUFFICES ASSUME SInv, Mirrored, [SyncNext]_allVars, missed' < version', ~dirty'
             PROVE  Mirrored'
  BY DEF Mirrored
<1>0. /\ call \in [Threads -> Requests] /\ box \in Bodies /\ CallsMatch /\ PushesAsIs
      /\ "pusher" \in Threads /\ \A a \in Asks : a \in Threads /\ a # "pusher"
      /\ pusher \in {"idle", "sleep", "body", "put", "ended"} /\ version \in Nat /\ missed \in Nat
  BY DEF SInv, BInv, TypeOK, CTypes, Threads
<1>1. ASSUME MirrorFrame PROVE Mirrored'
  BY <1>1 DEF MirrorFrame, Mirrored, Shown, Pending, Body
<1>2. ASSUME NEW a \in Asks, SyncAsk(a) PROVE Mirrored'
  BY <1>1, <1>2, AskMirror
<1>3. ASSUME NEW a \in Asks, SyncHook(a) PROVE Mirrored'
  BY <1>1, <1>3 DEF SyncHook, HookAsk, HookHears, HookGivesUp, MirrorFrame
<1>4. CASE SyncPusher
  <2>1. CASE PusherWakes \/ PusherClears
    BY <2>1 DEF PusherWakes, PusherClears, Mirrored
  <2>2. CASE PusherPuts /\ Send("pusher", PutCall)
    <3>1. call'["pusher"] = PutCall /\ UNCHANGED <<pending>> /\ pusher' = "put"
      BY <1>0, <2>2 DEF PusherPuts, Send
    <3> QED
      BY <3>1 DEF Mirrored, PutCall, Request, Body, Pending
  <2>3. CASE PusherReply(Online("pusher")) /\ Answered("pusher")
    <3>1. /\ pusher = "put" /\ pusher' = "idle" /\ call["pusher"].served
          /\ UNCHANGED <<pending, version, missed, dirty, box>>
      BY <2>3 DEF PusherReply, Answered, DirtyStays
    <3> QED
      BY <1>0, <3>1 DEF Mirrored, Shown, Pending
  <2>4. ~(PusherReply("failed") /\ Fails("pusher"))
    <3>1. SUFFICES ASSUME PusherReply("failed"), Fails("pusher") PROVE FALSE
      OBVIOUS
    <3>2. call["pusher"].kind = "put" /\ version' = version
      BY <1>0, <3>1 DEF PusherReply, CallsMatch
    <3> QED
      BY <1>0, <3>1, <3>2 DEF Fails, Misses
  <2>5. CASE PusherRaises
    BY <2>5 DEF PusherRaises, Mirrored
  <2> QED
    BY <1>4, <2>1, <2>2, <2>3, <2>4, <2>5 DEF SyncPusher
<1>5. CASE SyncLocal
  BY <1>5 DEF SyncLocal, Press, PostState, PressBump, Bump
<1>6. CASE SyncFlipper
  <2>1. CASE \E ans, n : AnswerBox(ans, n)
    <3>1. box'.ask = box.ask /\ ~box'.pending
      BY <1>0, <2>1 DEF AnswerBox, Bodies
    <3>2. UNCHANGED <<pending, version, dirty, pusher, call, missed>>
      BY <1>6 DEF SyncFlipper, vars
    <3> QED
      BY <3>1, <3>2 DEF Mirrored, Shown, Pending, Body
  <2>2. CASE StrayAnswer("allow") \/ \E f \in Flippers : BoxPollStart(f) \/ BoxPollReply(f)
    BY <1>1, <1>6, <2>2 DEF SyncFlipper, StrayAnswer, BoxPollStart, BoxPollReply, MirrorFrame, vars
  <2> QED
    BY <1>6, <2>1, <2>2 DEF SyncFlipper, BoxPress
<1>7. CASE Serve("pusher")
  <2>1. call["pusher"].kind = "put" /\ ~call["pusher"].served /\ pusher = "put"
    BY <1>0, <1>7 DEF Serve, Unserved, CallsMatch
  <2>2. /\ box' = call["pusher"].body /\ call'["pusher"].served
        /\ UNCHANGED <<pending, version, missed, dirty, pusher>>
    BY <1>0, <1>7, <2>1 DEF Serve, PutState, Requests, vars
  <2>3. call["pusher"].body = Body
    <3>1. ~dirty
      BY <2>2
    <3>2. missed < version /\ pusher = "put" /\ ~call["pusher"].served
      BY <2>1, <2>2
    <3> QED
      BY <3>1, <3>2, Zenon DEF Mirrored
  <2>4. Shown'
    <3>1. box' = [pending |-> pending.id # 0, ask |-> pending.id] /\ pending' = pending
      BY <2>2, <2>3 DEF Body, Pending
    <3>2. box'.ask = pending.id /\ (box'.pending => pending.id # 0)
      BY <3>1
    <3> QED
      BY <3>1, <3>2 DEF Shown, Pending
  <2> QED
    BY <2>2, <2>4 DEF Mirrored
<1>8. ASSUME NEW a \in Asks, Serve(a) PROVE Mirrored'
  <2>1. call'["pusher"] = call["pusher"] /\ UNCHANGED <<pending, version, missed, dirty, pusher>>
    BY <1>0, <1>8 DEF Serve, vars
  <2>2. CASE call[a].kind = "put"
    <3>1. box' = Body
      BY <1>0, <1>8, <2>2 DEF Serve, PutState, PushesAsIs
    <3>2. Shown'
      <4>1. box'.ask = pending.id /\ (box'.pending => pending.id # 0)
        BY <3>1 DEF Body, Pending
      <4> QED
        BY <2>1, <4>1 DEF Shown, Pending
    <3>3. Body' = Body
      BY <2>1 DEF Body, Pending
    <3> QED
      BY <1>0, <2>1, <3>2, <3>3 DEF Mirrored
  <2>3. CASE call[a].kind # "put"
    BY <1>0, <1>1, <1>8, <2>1, <2>3 DEF Serve, TakeDecision, MirrorFrame
  <2> QED
    BY <2>2, <2>3
<1>9. ASSUME NEW c \in late, ServeLate(c) PROVE Mirrored'
  <2>1. UNCHANGED <<pending, version, dirty, pusher, call>>
    BY <1>9 DEF ServeLate, vars
  <2>2. c.kind # "put" /\ missed' = missed
    BY <1>0, <1>9, <2>1 DEF ServeLate, Misses
  <2>3. box' = box
    BY <1>9, <2>2 DEF ServeLate, TakeDecision
  <2> QED
    BY <1>1, <2>1, <2>2, <2>3 DEF MirrorFrame
<1>10. CASE SyncEvict
  BY <1>0, <1>10 DEF SyncEvict, vars
<1>11. CASE SyncCrash
  BY <1>11 DEF SyncCrash, Crash
<1>12. CASE (Restart /\ UNCHANGED otherVars) \/ SyncTick \/ UNCHANGED allVars
  BY <1>1, <1>12 DEF Restart, SyncTick, Tick, BoxTick, allVars, vars, MirrorFrame
<1> QED
  BY <1>0, <1>2, <1>3, <1>4, <1>5, <1>6, <1>7, <1>8, <1>9, <1>10, <1>11, <1>12
  DEF SyncNext, Threads

\* cloud_pusher's wait/clear/sleep/clear/push loses no change: once nothing is
\* left to push and no call is open, the relay shows the bridge's ask, or no
\* prompt, unless nothing has changed since a push was lost or served late or the
\* relay was evicted.  Lost calls, restarts and the order in which the calls of
\* the two threads reach the worker do not matter.
THEOREM MirrorCatchesUpCorrect == SyncSpec => []MirrorCatchesUp
<1>1. SyncInit => Mirrored
  BY DEF SyncInit, Init, Mirrored
<1>2. SInv /\ Mirrored => MirrorCatchesUp
  BY DEF Mirrored, MirrorCatchesUp, Quiet, Shown
<1> QED
  BY <1>1, <1>2, SyncInvariance, MirroredStep, PTL DEF SyncSpec

-----------------------------------------------------------------------------
(* What was on show when the answer was given, when calls keep their order.  *)

\* cloud_pusher has a prompt on its way to the relay.
PromptOnItsWay ==
  call["pusher"].kind = "put" /\ ~call["pusher"].served /\ call["pusher"].body.pending

\* The relay has nothing left of an earlier ask and will get nothing of it.
NothingLeft == decision = NoDecision /\ ~box.pending /\ ~PromptOnItsWay

\* What the relay has, or will get, is of the pending ask.
OnlyThisAsk ==
  /\ decision # NoDecision => decision.shown = pending.id
  /\ box.pending => box.ask = pending.id
  /\ PromptOnItsWay => call["pusher"].body.ask = pending.id

\* handle_ask, stage by stage: its push clears what the ask before it left, since
\* an older prompt that is still on its way is ahead of that push.
Stage(a) ==
  /\ pc[a] = "push" /\ ~call[a].served /\ PromptOnItsWay => "pusher" \in ahead[a]
  /\ pc[a] = "push" /\ call[a].served => NothingLeft
  /\ pc[a] = "gate" => NothingLeft
  /\ pc[a] \in {"wait", "take"} => OnlyThisAsk
  /\ pc[a] = "take" /\ call[a].served /\ call[a].got # NoDecision => call[a].got.shown = pending.id

\* No thread of handle_ask has left its `pending' behind.
NoneRaised == \A b \in Asks : pc[b] # "raised"

Staged == missed = 0 /\ NoneRaised => \A a \in Asks : Stage(a)

\* The push at the head of handle_ask then says that nothing is pending.
LEMMA NothingPending ==
  ASSUME SInv, NoneRaised, NEW a \in Asks, pc[a] \in Serving \ Waiting
  PROVE  ~Pending /\ Body = EmptyBox
<1>1. ~Pending
  BY GateIsClear DEF SInv, BInv, OneAskAtATime, NoneRaised
<1> QED
  BY <1>1 DEF Body, EmptyBox, Pending

\* A thread that has raised does not come back.
LEMMA RaisedStays ==
  ASSUME SInv, [SyncNext]_allVars, NoneRaised'
  PROVE  NoneRaised
<1>0. pc \in [Asks -> PCs] /\ NotAskedYet
  BY DEF SInv, BInv, TypeOK
<1> SUFFICES ASSUME NEW b \in Asks, pc[b] = "raised" PROVE pc'[b] = "raised"
  BY DEF NoneRaised
<1>1. ASSUME NEW a \in Asks, HandleAsk(a) \/ CloudReplies(a) PROVE pc'[b] = "raised"
  BY <1>0, <1>1
  DEF HandleAsk, CloudReplies, TakeSerial, AskPass, AskOpen, WakeAgain, WakeClose, WakeTake, Awake,
      Close, Again, PushReply, TakeAgain, TakeClose, AskRaises
<1>2. ASSUME NEW a \in Asks, HookAsk(a) \/ HookHears(a) \/ HookGivesUp(a) PROVE pc'[b] = "raised"
  BY <1>0, <1>2 DEF HookAsk, HookHears, HookGivesUp, NotAskedYet
<1>3. CASE Crash
  BY <1>3 DEF Crash, Serving
<1>4. ASSUME pc' = pc PROVE pc'[b] = "raised"
  BY <1>4
<1>5. ASSUME NEW x, Press(x) \/ StrayDecision(x) \/ PostState(x) \/ PollStart(x) \/ PollReply(x)
      PROVE  pc' = pc
  BY <1>5 DEF Press, StrayDecision, PostState, PollStart, PollReply
<1>6. ASSUME PusherSteps \/ Restart \/ Tick \/ UNCHANGED vars PROVE pc' = pc
  BY <1>6 DEF PusherSteps, PusherWakes, PusherClears, PusherPuts, PusherReply, PusherRaises,
              Restart, Tick, vars
<1> QED
  BY <1>1, <1>2, <1>3, <1>4, <1>5, <1>6, BridgeStep DEF Next, PusherSteps

\* Steps of the asking thread itself.
LEMMA StageOwn ==
  ASSUME SInv, NEW a \in Asks, Stage(a), SyncAsk(a), missed' = 0, NoneRaised'
  PROVE  Stage(a)'
<1>0. /\ call \in [Threads -> Requests] /\ pc \in [Asks -> PCs] /\ ahead \in [Threads -> SUBSET Threads]
      /\ a \in Threads /\ "pusher" \in Threads /\ a # "pusher" /\ CallsMatch /\ version # 0
  BY DEF SInv, BInv, TypeOK, CTypes, Threads, Versioned
<1>1. CASE TakeSerial(a) /\ Send(a, PutCall) /\ UNCHANGED boxVars
  <2>1. pc'[a] = "push" /\ ~call'[a].served /\ call'["pusher"] = call["pusher"] /\ ahead'[a] = Unserved
    BY <1>0, <1>1 DEF TakeSerial, Send, PutCall, Request
  <2>2. PromptOnItsWay => "pusher" \in Unserved
    BY <1>0 DEF PromptOnItsWay, Unserved
  <2> QED
    BY <2>1, <2>2 DEF Stage, PromptOnItsWay
<1>2. CASE PushReply(a, Online(a)) /\ Answered(a)
  <2>1. /\ pc[a] = "push" /\ call[a].served /\ pc'[a] = "gate"
        /\ call'["pusher"] = call["pusher"] /\ UNCHANGED <<box, decision>>
    BY <1>0, <1>2 DEF PushReply, AfterPush, Answered
  <2> QED
    BY <2>1 DEF Stage, NothingLeft, PromptOnItsWay
<1>3. CASE (AskPass(a) \/ WakeClose(a)) /\ UNCHANGED otherVars
  <2>1. pc'[a] = "replied"
    BY <1>0, <1>3 DEF AskPass, WakeClose, Close
  <2> QED
    BY <2>1 DEF Stage
<1>4. CASE AskOpen(a) /\ UNCHANGED otherVars
  <2>1. /\ pc[a] = "gate" /\ pc'[a] = "wait"
        /\ UNCHANGED <<call, box, decision>>
    BY <1>0, <1>4 DEF AskOpen
  <2> QED
    BY <2>1 DEF Stage, NothingLeft, OnlyThisAsk, PromptOnItsWay
<1>5. CASE WakeTake(a) /\ Send(a, TakeCall) /\ UNCHANGED boxVars
  <2>1. /\ pc[a] = "wait" /\ pc'[a] = "take" /\ ~call'[a].served
        /\ call'["pusher"] = call["pusher"] /\ UNCHANGED <<box, decision, pending>>
    BY <1>0, <1>5 DEF WakeTake, Awake, Send, TakeCall, Request
  <2> QED
    BY <2>1 DEF Stage, OnlyThisAsk, PromptOnItsWay
<1>6. ASSUME NEW got, TakeAgain(a, got), Answered(a) \/ Fails(a) PROVE Stage(a)'
  <2>1. /\ pc[a] = "take" /\ pc'[a] = "wait"
        /\ call'["pusher"] = call["pusher"] /\ UNCHANGED <<box, decision, pending>>
    BY <1>0, <1>6 DEF TakeAgain, Again, Answered, Fails
  <2> QED
    BY <2>1 DEF Stage, OnlyThisAsk, PromptOnItsWay
<1>7. ASSUME NEW got, TakeClose(a, got) PROVE Stage(a)'
  <2>1. pc'[a] = "replied"
    BY <1>0, <1>7 DEF TakeClose, Close
  <2> QED
    BY <2>1 DEF Stage
<1>8. ~(PushReply(a, "failed") /\ Fails(a))
  BY <1>0 DEF PushReply, CallsMatch, Fails, Misses
<1>9. ~AskRaises(a)
  BY <1>0 DEF AskRaises, NoneRaised
<1> QED
  BY <1>1, <1>2, <1>3, <1>4, <1>5, <1>6, <1>7, <1>8, <1>9 DEF SyncAsk

\* Steps that leave the ask, the relay and the calls alone.
StageFrame(a) == UNCHANGED <<pc[a], pending.id, box, decision, call, ahead>>

LEMMA StageSame == ASSUME NEW a \in Asks, Stage(a), StageFrame(a) PROVE Stage(a)'
  BY DEF Stage, StageFrame, NothingLeft, OnlyThisAsk, PromptOnItsWay

\* The worker serves a request in order.
LEMMA StageServe ==
  ASSUME Ordered = TRUE, SInv, NoneRaised, NEW a \in Asks, Stage(a), NEW t \in Threads, Serve(t)
  PROVE  Stage(a)'
<1>0. /\ call \in [Threads -> Requests] /\ ahead \in [Threads -> SUBSET Threads]
      /\ a \in Threads /\ "pusher" \in Threads /\ a # "pusher" /\ CallsMatch /\ PushesAsIs
      /\ call[t].kind # "none" /\ ~call[t].served /\ ahead[t] = {}
      /\ UNCHANGED <<pc, pending>>
  BY DEF SInv, CTypes, Threads, Serve, Unserved, vars
<1>1. /\ call'[t].served /\ call'[t].got = decision
      /\ call'[t].kind = call[t].kind /\ call'[t].body = call[t].body
      /\ \A u \in Threads : u # t => call'[u] = call[u]
  BY <1>0 DEF Serve, Requests
<1>2. CASE t = "pusher"
  <2>1. call[t].kind = "put"
    BY <1>0, <1>2 DEF CallsMatch
  <2>2. ~PromptOnItsWay'
    BY <1>1, <1>2 DEF PromptOnItsWay
  <2>3. box' = call[t].body /\ decision' = IF call[t].body.pending THEN decision ELSE NoDecision
    BY <2>1 DEF Serve, PutState, DecisionAfter
  <2>4. call[t].body.pending => PromptOnItsWay
    BY <1>0, <1>2, <2>1 DEF PromptOnItsWay
  <2>5. pc[a] = "gate" \/ (pc[a] = "push" /\ call[a].served) => NothingLeft'
    BY <2>2, <2>3, <2>4 DEF Stage, NothingLeft
  <2>6. pc[a] \in {"wait", "take"} => OnlyThisAsk'
    BY <1>0, <1>2, <2>2, <2>3, <2>4 DEF Stage, OnlyThisAsk
  <2>7. call'[a] = call[a]
    BY <1>0, <1>1, <1>2
  <2> QED
    BY <1>0, <2>2, <2>5, <2>6, <2>7 DEF Stage
<1>3. CASE t \in Asks
  <2>1. pc[t] \in {"push", "take"}
    BY <1>0, <1>3 DEF CallsMatch
  <2>2. call'["pusher"] = call["pusher"] /\ (PromptOnItsWay' <=> PromptOnItsWay)
    BY <1>0, <1>1, <1>3 DEF PromptOnItsWay
  <2>3. CASE t # a
    <3>1. pc[a] \notin Serving
      BY <1>3, <2>1, <2>3, BridgeAssumption DEF SInv, BInv, OneAskAtATime, Serving
    <3> QED
      BY <1>0, <3>1 DEF Stage, Serving
  <2>4. CASE t = a /\ pc[a] = "push"
    <3>1. call[a].kind = "put" /\ call[a].body = EmptyBox
      BY <1>0, <2>4, NothingPending DEF CallsMatch, PushesAsIs, Serving, Waiting
    <3>2. box' = EmptyBox /\ decision' = NoDecision
      BY <2>4, <3>1 DEF Serve, PutState, DecisionAfter, EmptyBox
    <3>3. ~PromptOnItsWay
      BY <1>0, <2>4 DEF Stage
    <3> QED
      BY <1>0, <1>1, <2>2, <2>4, <3>2, <3>3 DEF Stage, NothingLeft, EmptyBox
  <2>5. CASE t = a /\ pc[a] = "take"
    <3>1. call[a].kind = "take"
      BY <1>0, <2>5 DEF CallsMatch
    <3>2. box' = box /\ decision' = NoDecision
      BY <2>5, <3>1 DEF Serve, TakeDecision
    <3> QED
      BY <1>0, <1>1, <2>2, <2>5, <3>2 DEF Stage, OnlyThisAsk
  <2> QED
    BY <2>1, <2>3, <2>4, <2>5
<1> QED
  BY <1>2, <1>3 DEF Threads

LEMMA StagePusher ==
  ASSUME SInv, NoneRaised, NEW a \in Asks, Stage(a), SyncPusher, missed' = 0
  PROVE  Stage(a)'
<1>0. /\ call \in [Threads -> Requests] /\ ahead \in [Threads -> SUBSET Threads]
      /\ a \in Threads /\ "pusher" \in Threads /\ a # "pusher" /\ PushesAsIs
  BY DEF SInv, CTypes, Threads
<1>1. CASE (PusherWakes \/ PusherClears) /\ UNCHANGED otherVars
  BY <1>1, StageSame DEF PusherWakes, PusherClears, StageFrame
<1>2. CASE PusherPuts /\ Send("pusher", PutCall) /\ UNCHANGED boxVars
  <2>1. /\ UNCHANGED <<pc, pending, box, decision>> /\ call'["pusher"] = PutCall
        /\ call'[a] = call[a] /\ ahead'[a] = ahead[a]
    BY <1>0, <1>2 DEF PusherPuts, Send
  <2>2. PromptOnItsWay' => Pending /\ call'["pusher"].body.ask = pending.id
    BY <2>1 DEF PromptOnItsWay, PutCall, Request, Body
  <2>3. pc[a] \in {"push", "gate"} => ~Pending
    BY NothingPending DEF Serving, Waiting
  <2> QED
    BY <2>1, <2>2, <2>3 DEF Stage, NothingLeft, OnlyThisAsk
<1>3. CASE PusherReply(Online("pusher")) /\ Answered("pusher")
  <2>1. /\ UNCHANGED <<pc, pending, box, decision, ahead>> /\ call'["pusher"].kind = "none"
        /\ call'[a] = call[a]
    BY <1>0, <1>3 DEF PusherReply, Answered, NoCall, Request
  <2>2. ~PromptOnItsWay'
    BY <2>1 DEF PromptOnItsWay
  <2> QED
    BY <2>1, <2>2 DEF Stage, NothingLeft, OnlyThisAsk
<1>4. ~((PusherReply("failed") \/ PusherRaises) /\ Fails("pusher"))
  BY DEF PusherReply, PusherRaises, SInv, CallsMatch, Versioned, Fails, Misses
<1> QED
  BY <1>1, <1>2, <1>3, <1>4 DEF SyncPusher

\* Of the late requests only a take is no mishap: it takes a decision away.
LEMMA StageLate ==
  ASSUME SInv, NEW a \in Asks, Stage(a), NEW c, ServeLate(c), missed' = 0
  PROVE  Stage(a)'
<1>1. c.kind # "put"
  BY DEF ServeLate, Misses, SInv, Versioned
<1>2. box' = box /\ decision' = NoDecision /\ UNCHANGED <<pc, pending, call, ahead>>
  BY <1>1 DEF ServeLate, TakeDecision, vars
<1>3. PromptOnItsWay' <=> PromptOnItsWay
  BY <1>2 DEF PromptOnItsWay
<1> QED
  BY <1>2, <1>3 DEF Stage, NothingLeft, OnlyThisAsk

LEMMA StageFlipper == ASSUME SInv, NEW a \in Asks, Stage(a), SyncFlipper PROVE Stage(a)'
<1>0. UNCHANGED <<pc, pending, call, ahead>> /\ box \in Bodies
  BY DEF SyncFlipper, vars, SInv, CTypes
<1>1. CASE \E ans, n : AnswerBox(ans, n)
  <2>1. /\ box.pending /\ ~box'.pending /\ box'.ask = box.ask
        /\ decision'.shown = box.ask
    BY <1>0, <1>1 DEF AnswerBox, Bodies
  <2>2. PromptOnItsWay' <=> PromptOnItsWay
    BY <1>0 DEF PromptOnItsWay
  <2> QED
    BY <1>0, <2>1, <2>2 DEF Stage, NothingLeft, OnlyThisAsk
<1>2. CASE StrayAnswer("allow") \/ \E f \in Flippers : BoxPollStart(f) \/ BoxPollReply(f)
  BY <1>0, <1>2, StageSame DEF StrayAnswer, BoxPollStart, BoxPollReply, StageFrame
<1> QED
  BY <1>1, <1>2 DEF SyncFlipper, BoxPress

LEMMA StageStep ==
  ASSUME Ordered = TRUE, SInv, Staged, [SyncNext]_allVars
  PROVE  Staged'
<1> SUFFICES ASSUME missed' = 0, NoneRaised', NEW a \in Asks PROVE Stage(a)'
  BY DEF Staged
<1>7. CASE SyncCrash
  <2>1. pc'[a] \notin Serving
    BY <1>7 DEF SyncCrash, Crash, Serving
  <2> QED
    BY <2>1 DEF Stage, Serving
<1> SUFFICES ASSUME ~SyncCrash PROVE Stage(a)'
  BY <1>7
<1>0. Stage(a) /\ NoneRaised /\ pc \in [Asks -> PCs]
  BY MissedStays, RaisedStays DEF Staged, SInv, BInv, TypeOK
<1>1. ASSUME NEW b \in Asks, SyncAsk(b) PROVE Stage(a)'
  <2>1. CASE b = a
    BY <1>0, <1>1, <2>1, StageOwn
  <2>2. CASE b # a
    <3>1. pc'[a] = pc[a]
      BY <1>0, <1>1, <2>2
      DEF SyncAsk, TakeSerial, PushReply, AskPass, AskOpen, WakeClose, WakeTake, TakeAgain,
          TakeClose, Close, Again, AskRaises
    <3>2. serial = NoAsk \/ pc[b] \in Serving
      BY <1>1 DEF SyncAsk, TakeSerial, SerialFree, PushReply, AskPass, AskOpen, WakeClose,
                  WakeTake, Awake, TakeAgain, TakeClose, AskRaises, Serving
    <3>3. pc[a] \notin Serving
      BY <2>2, <3>2, BridgeAssumption DEF SInv, BInv, OneAskAtATime
    <3> QED
      BY <3>1, <3>3 DEF Stage, Serving
  <2> QED
    BY <2>1, <2>2
<1>2. ASSUME NEW b \in Asks, SyncHook(b) PROVE Stage(a)'
  <2>1. CASE pc'[a] = pc[a]
    BY <1>0, <1>2, <2>1, StageSame DEF SyncHook, HookAsk, HookHears, HookGivesUp, StageFrame
  <2>2. CASE pc'[a] # pc[a]
    <3>1. pc'[a] = "queued"
      BY <1>0, <1>2, <2>2 DEF SyncHook, HookAsk, HookHears, HookGivesUp
    <3> QED
      BY <3>1 DEF Stage
  <2> QED
    BY <2>1, <2>2
<1>3. CASE SyncPusher
  BY <1>0, <1>3, StagePusher
<1>4. CASE SyncLocal
  <2>1. pending'.id = pending.id /\ UNCHANGED <<pc, box, decision, call, ahead>>
    BY <1>4 DEF SyncLocal, Press, PostState, SInv, BInv, TypeOK
  <2> QED
    BY <1>0, <2>1, StageSame DEF StageFrame
<1>5. CASE SyncFlipper
  BY <1>0, <1>5, StageFlipper
<1>6. ASSUME NEW t \in Threads, Serve(t) PROVE Stage(a)'
  BY <1>0, <1>6, StageServe
<1>9. ASSUME NEW c \in late, ServeLate(c) PROVE Stage(a)'
  BY <1>0, <1>9, StageLate
<1>10. ~SyncEvict
  BY DEF SyncEvict, SInv, Versioned
<1>8. CASE (Restart /\ UNCHANGED otherVars) \/ SyncTick \/ UNCHANGED allVars
  BY <1>0, <1>8, StageSame DEF Restart, SyncTick, Tick, BoxTick, allVars, vars, StageFrame
<1> QED
  BY <1>1, <1>2, <1>3, <1>4, <1>5, <1>6, <1>8, <1>9, <1>10 DEF SyncNext

\* As long as calls keep their order, no push was lost, served late or undone by
\* an eviction since the bridge started, and no thread has raised, the answer that
\* cloud_take_decision collects was accepted while the relay showed the pending
\* ask: the push at the head of handle_ask does the work of the comparison of
\* numbers that neither side makes.  Takes may fail or come late, and the bridge
\* may have died with a prompt shown.  The press itself may have been meant for a
\* prompt that the screen still showed.
THEOREM CollectedWhileShownCorrect ==
  ASSUME Ordered = TRUE
  PROVE  SyncSpec => []CollectedWhileShown
<1>1. SyncInit => Staged
  BY DEF SyncInit, Init, Staged, Stage
<1>2. Staged => CollectedWhileShown
  BY DEF Staged, NoneRaised, Stage, CollectedWhileShown
<1>3. SInv /\ Staged /\ [SyncNext]_allVars => Staged'
  BY StageStep
<1> QED
  BY <1>1, <1>2, <1>3, SyncInvariance, PTL DEF SyncSpec

=============================================================================
