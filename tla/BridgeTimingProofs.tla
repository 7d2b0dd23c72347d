------------------------- MODULE BridgeTimingProofs -------------------------
(***************************************************************************)
(* How the timeouts of bridge/main.py and hooks/cc-ask.sh fit each other:  *)
(* what handle_ask may spend on an ask is summed up stage by stage.  Asks  *)
(* that queue on ask_serial pay for each other, which bounds how long a    *)
(* hook can be kept waiting, and a prompt that is shown with enough of     *)
(* curl's --max-time left has its hook until it is answered.               *)
(***************************************************************************)
EXTENDS BridgeProofs, FiniteSetTheorems

Ended == {"replied"} \cup Gone

\* The asks the bridge is through with, and the longest that can have taken.
Over   == {a \in Asks : pc[a] \in Ended}
Before == LongestAsk * Cardinality(Over)

\* Ask a may have held ask_serial for x seconds by now.
HeldFor(a, x) ==
  /\ pc[a] = "push" => x <= stepAge /\ stepAge <= CallLimit
  /\ pc[a] = "gate" => x <= CallTime
  /\ pc[a] = "wait" => x <= CallTime + (AskTimeout - 1) + stepAge /\ stepAge <= WaitSlice
  /\ pc[a] = "take" => /\ x <= CallTime + (AskTimeout - 1) + WaitSlice + stepAge
                       /\ stepAge <= CallLimit
  /\ pc[a] \in Waiting /\ askAge < AskTimeout => x <= CallTime + askAge

\* How long curl has waited: for the asks that are over, then for the one that
\* is being asked, which may be its own.
HookClock(b) ==
  /\ pc[b] = "none" => hookAge[b] = 0
  /\ pc[b] \in Serving \cup {"queued"} =>
       IF serial = NoAsk THEN hookAge[b] <= Before ELSE HeldFor(serial, hookAge[b] - Before)
  /\ pc[b] \in Ended => hookAge[b] <= LongestQueue

\* A hook that asks has a thread, and the reply is what ends it.
HookOpen(a) == /\ hook[a] = "asking" => pc[a] # "none"
               /\ pc[a] = "replied" <=> reply[a] # "none"

Clocks == \A a \in Asks : HookClock(a) /\ HookOpen(a)

USE BridgeAssumption
USE DEF hookVars, askVars, shownVars, pollVars, procVars, cloudVars, Waiting, Gone, Ended

LEMMA CallTimeNat ==
  /\ CallTime \in Nat /\ LongestAsk \in Nat /\ AskTimeout \in Nat /\ AskTimeout >= 1
  /\ WaitSlice \in Nat /\ CallLimit \in Nat /\ HookTimeout \in Nat
  /\ CloudUrl => CallTime = CallLimit
  /\ LongestAsk = CallTime + (AskTimeout - 1) + WaitSlice + CallTime
  BY DEF CallTime, LongestAsk, LongestShow

LEMMA Distribute ==
  ASSUME NEW l \in Nat, NEW m \in Nat, NEW n \in Nat
  PROVE  /\ l * m \in Nat
         /\ l * (m + 1) = l * m + l
         /\ m < n => l * m + l <= l * n
         /\ m <= n => l * m <= l * n
  OBVIOUS

\* The queue is finite, and an ask that is not over has its turn still to come.
LEMMA RoomLeft ==
  ASSUME IsFiniteSet(Asks)
  PROVE  /\ Before \in Nat /\ LongestQueue \in Nat /\ Before <= LongestQueue
         /\ \A a \in Asks : a \notin Over => Before + LongestAsk <= LongestQueue
<1>1. /\ IsFiniteSet(Over) /\ Cardinality(Over) \in Nat /\ Cardinality(Asks) \in Nat
      /\ Cardinality(Over) <= Cardinality(Asks)
      /\ Cardinality(Over) = Cardinality(Asks) => Over = Asks
  <2>1. Over \subseteq Asks BY DEF Over
  <2> QED BY <2>1, FS_Subset, FS_CardinalityType
<1>2. ASSUME NEW a \in Asks, a \notin Over PROVE Cardinality(Over) < Cardinality(Asks)
  BY <1>1, <1>2
<1> DEFINE m == Cardinality(Over)
           n == Cardinality(Asks)
<1>3. m \in Nat /\ n \in Nat /\ m <= n BY <1>1
<1>4. Before = LongestAsk * m /\ LongestQueue = LongestAsk * n BY DEF Before, LongestQueue
<1> HIDE DEF m, n
<1>5. Before \in Nat /\ LongestQueue \in Nat /\ Before <= LongestQueue
  BY <1>3, <1>4, Distribute, CallTimeNat
<1>6. m < n => Before + LongestAsk <= LongestQueue
  BY <1>3, <1>4, Distribute, CallTimeNat
<1> QED BY <1>2, <1>5, <1>6 DEF m, n

LEMMA OneMoreOver ==
  ASSUME IsFiniteSet(Asks), NEW a \in Asks, a \notin Over, Over' = Over \cup {a}
  PROVE  Before' = Before + LongestAsk
<1>1. IsFiniteSet(Over) /\ Cardinality(Over) \in Nat
  <2>1. Over \subseteq Asks BY DEF Over
  <2> QED BY <2>1, FS_Subset, FS_CardinalityType
<1>2. Cardinality(Over') = Cardinality(Over) + 1
  BY <1>1, FS_AddElement
<1>3. Before' = LongestAsk * Cardinality(Over')
  BY DEF Before, LongestAsk, LongestShow, CallTime
<1> QED BY <1>1, <1>2, <1>3, Distribute, CallTimeNat DEF Before

\* An ask holds ask_serial no longer than LongestAsk.
LEMMA HeldAtMost ==
  ASSUME BInv, NEW a \in Asks, pc[a] \in Serving, NEW x \in Int, HeldFor(a, x)
  PROVE  x <= LongestAsk
<1>1. stepAge \in Nat /\ (pc[a] \in {"push", "take"} => CallTime = CallLimit)
  BY CallTimeNat DEF BInv, TypeOK, RelayOnly
<1> QED BY <1>1, CallTimeNat DEF HeldFor, Serving

\* Nobody waits longer than the whole queue takes.
LEMMA ClockBound ==
  ASSUME BInv, IsFiniteSet(Asks), Clocks, NEW a \in Asks
  PROVE  hookAge[a] <= LongestQueue
<1>1. hookAge[a] \in Nat /\ pc[a] \in PCs /\ serial \in Asks \cup {NoAsk}
  BY DEF BInv, TypeOK
<1>2. CASE pc[a] \in Serving \cup {"queued"} /\ serial # NoAsk
  <2>1. serial \in Asks /\ pc[serial] \in Serving /\ serial \notin Over
    BY <1>1, <1>2 DEF BInv, OneAskAtATime, Over, Serving
  <2>2. HeldFor(serial, hookAge[a] - Before) BY <1>2 DEF Clocks, HookClock
  <2>3. hookAge[a] - Before <= LongestAsk BY <1>1, <2>1, <2>2, RoomLeft, HeldAtMost
  <2> QED BY <1>1, <2>1, <2>3, RoomLeft, CallTimeNat
<1>3. CASE pc[a] \in Serving \cup {"queued"} /\ serial = NoAsk
  BY <1>1, <1>3, RoomLeft DEF Clocks, HookClock
<1> QED BY <1>1, <1>2, <1>3, RoomLeft DEF Clocks, HookClock, PCs

\* Where the threads and the clocks stand still, so does HookClock.
LEMMA SameClock ==
  ASSUME Clocks, UNCHANGED <<hookAge, pc, serial, stepAge, askAge>>
  PROVE  \A a \in Asks : HookClock(a)'
<1>1. Before' = Before /\ LongestQueue' = LongestQueue
  BY DEF Over, Before, LongestQueue, LongestAsk, LongestShow, CallTime
<1> QED BY <1>1 DEF Clocks, HookClock, HeldFor, CallTime

\* A step of the holder within its critical section.
LEMMA InsideStep ==
  ASSUME BInv, IsFiniteSet(Asks), Clocks, NEW a \in Asks, serial = a,
         pc' = [pc EXCEPT ![a] = pc'[a]], pc[a] \in Serving, pc'[a] \in Serving,
         UNCHANGED <<hook, heard, hookAge, reply, serial>>,
         \A x \in Int : HeldFor(a, x) => HeldFor(a, x)'
  PROVE  Clocks'
<1>0. /\ hookAge \in [Asks -> Nat] /\ pc \in [Asks -> PCs] /\ NoAsk \notin Asks
  BY DEF BInv, TypeOK
<1>1. Over' = Over BY <1>0 DEF Over, Serving
<1>2. Before' = Before BY <1>1 DEF Before, LongestAsk, LongestShow, CallTime
<1>3. ASSUME NEW b \in Asks PROVE HookOpen(b)'
  BY <1>0 DEF Clocks, HookOpen, Serving
<1>4. ASSUME NEW b \in Asks PROVE HookClock(b)'
  <2>1. pc'[b] = pc[b] \/ b = a BY <1>0
  <2>2. pc'[b] \in Serving \cup {"queued"} <=> pc[b] \in Serving \cup {"queued"} BY <2>1
  <2>3. /\ pc'[b] = "none" => pc[b] = "none"
        /\ pc'[b] \in Ended => pc[b] \in Ended
    BY <2>1 DEF Serving
  <2>4. hookAge[b] - Before \in Int BY <1>0, RoomLeft
  <2>5. ASSUME pc[b] \in Serving \cup {"queued"} PROVE HeldFor(a, hookAge[b] - Before)'
    <3>1. HeldFor(a, hookAge[b] - Before) BY <1>0, <2>5 DEF Clocks, HookClock
    <3>2. PICK x \in Int : x = hookAge[b] - Before BY <2>4
    <3>3. HeldFor(a, x)' BY <3>1, <3>2
    <3>4. hookAge'[b] - Before' = x BY <1>2, <3>2
    <3> QED BY <3>3, <3>4 DEF HeldFor, CallTime
  <2>6. HookClock(b) BY DEF Clocks
  <2>7. serial' = a /\ a # NoAsk /\ hookAge'[b] = hookAge[b] BY <1>0
  <2> QED BY <2>2, <2>3, <2>5, <2>6, <2>7 DEF HookClock, LongestQueue, LongestAsk, LongestShow, CallTime
<1> QED BY <1>3, <1>4 DEF Clocks

\* The step that ends it, and ask_serial with it.
LEMMA LastStep ==
  ASSUME BInv, IsFiniteSet(Asks), Clocks, NEW a \in Asks, serial = a,
         NEW end \in {"replied", "raised"}, NEW r \in Verdicts,
         pc' = [pc EXCEPT ![a] = end], pc[a] \in Serving, serial' = NoAsk,
         reply' = IF end = "replied" THEN [reply EXCEPT ![a] = r] ELSE reply,
         UNCHANGED <<hook, heard, hookAge>>
  PROVE  Clocks'
<1>0. /\ hookAge \in [Asks -> Nat] /\ pc \in [Asks -> PCs] /\ NoAsk \notin Asks
      /\ reply \in [Asks -> Verdicts \cup {"none"}] /\ r # "none"
  BY DEF BInv, TypeOK, Verdicts, Decisions
<1>1. a \notin Over /\ Over' = Over \cup {a} BY <1>0 DEF Over, Serving
<1>2. Before' = Before + LongestAsk BY <1>1, OneMoreOver
<1>3. ASSUME NEW b \in Asks PROVE HookOpen(b)'
  BY <1>0 DEF Clocks, HookOpen, Serving
<1>4. ASSUME NEW b \in Asks PROVE HookClock(b)'
  <2>1. hookAge[b] <= LongestQueue BY ClockBound
  <2>2. ASSUME pc'[b] \in Serving \cup {"queued"} PROVE hookAge[b] <= Before'
    <3>1. pc[b] \in Serving \cup {"queued"} BY <1>0, <2>2 DEF Serving
    <3>2. HeldFor(a, hookAge[b] - Before) BY <1>0, <3>1 DEF Clocks, HookClock
    <3>3. hookAge[b] - Before <= LongestAsk BY <1>0, <3>2, RoomLeft, HeldAtMost
    <3> QED BY <1>0, <1>2, <3>3, RoomLeft, CallTimeNat
  <2>3. pc'[b] = "none" => hookAge[b] = 0 BY <1>0 DEF Clocks, HookClock
  <2>4. hookAge'[b] = hookAge[b] /\ LongestQueue' = LongestQueue
    BY DEF LongestQueue, LongestAsk, LongestShow, CallTime
  <2> QED BY <2>1, <2>2, <2>3, <2>4 DEF HookClock
<1> QED BY <1>3, <1>4 DEF Clocks

\* ask_serial is free: what every queued ask has waited for is over.
LEMMA FirstStep ==
  ASSUME BInv, IsFiniteSet(Asks), Clocks, NEW a \in Asks, TakeSerial(a)
  PROVE  Clocks'
<1>0. /\ hookAge \in [Asks -> Nat] /\ pc \in [Asks -> PCs] /\ NoAsk \notin Asks
      /\ pc[a] = "queued" /\ serial = NoAsk /\ serial' = a /\ stepAge' = 0
      /\ pc' = [pc EXCEPT ![a] = IF CloudUrl THEN "push" ELSE "gate"]
      /\ UNCHANGED <<hook, heard, hookAge, reply, askAge>>
  BY DEF BInv, TypeOK, TakeSerial, SerialFree
<1>1. Over' = Over BY <1>0 DEF Over
<1>2. Before' = Before BY <1>1 DEF Before, LongestAsk, LongestShow, CallTime
<1>3. ASSUME NEW b \in Asks PROVE HookOpen(b)'
  BY <1>0 DEF Clocks, HookOpen, Serving
<1>4. ASSUME NEW b \in Asks PROVE HookClock(b)'
  <2>1. ASSUME pc'[b] \in Serving \cup {"queued"} PROVE HeldFor(a, hookAge[b] - Before)'
    <3>1. pc[b] \in Serving \cup {"queued"} BY <1>0, <2>1
    <3>2. hookAge[b] <= Before BY <1>0, <3>1 DEF Clocks, HookClock
    <3>3. hookAge'[b] - Before' <= 0 BY <1>0, <1>2, <3>2, RoomLeft
    <3>4. hookAge'[b] - Before' \in Int BY <1>0, <1>2, RoomLeft
    <3>5. pc'[a] = "push" \/ pc'[a] = "gate" BY <1>0
    <3> QED BY <1>0, <3>3, <3>4, <3>5, CallTimeNat DEF HeldFor, CallTime
  <2>2. /\ pc'[b] = "none" => pc[b] = "none"
        /\ pc'[b] \in Ended => pc[b] \in Ended
    BY <1>0
  <2>3. HookClock(b) BY DEF Clocks
  <2>4. hookAge'[b] = hookAge[b] /\ serial' # NoAsk BY <1>0
  <2> QED BY <1>0, <2>1, <2>2, <2>3, <2>4 DEF HookClock, LongestQueue, LongestAsk, LongestShow, CallTime
<1> QED BY <1>3, <1>4 DEF Clocks

\* What a thread has spent so far it has still spent when it goes on.
LEMMA HeldOn ==
  ASSUME BInv, NEW a \in Asks, HandleAsk(a) \/ CloudReplies(a),
         pc[a] \in Serving, pc'[a] \in Serving
  PROVE  /\ pc' = [pc EXCEPT ![a] = pc'[a]] /\ serial = a
         /\ UNCHANGED <<hook, heard, hookAge, reply, serial>>
         /\ \A x \in Int : HeldFor(a, x) => HeldFor(a, x)'
<1>0. /\ stepAge \in Nat /\ askAge \in Nat /\ pc \in [Asks -> PCs] /\ serial = a
      /\ pc[a] \in {"push", "take"} => CallTime = CallLimit
  BY CallTimeNat DEF BInv, TypeOK, RelayOnly, OneAskAtATime
<1> DEFINE Goal == /\ pc' = [pc EXCEPT ![a] = pc'[a]]
                   /\ UNCHANGED <<hook, heard, hookAge, reply, serial>>
                   /\ \A x \in Int : HeldFor(a, x) => HeldFor(a, x)'
<1>1. ASSUME NEW r, PushReply(a, r) PROVE Goal
  <2>1. /\ pc[a] = "push" /\ pc' = [pc EXCEPT ![a] = "gate"]
        /\ UNCHANGED <<hook, heard, hookAge, reply, serial>>
    BY <1>1 DEF PushReply, AfterPush
  <2> QED BY <1>0, <2>1, CallTimeNat DEF HeldFor, CallTime
<1>2. ASSUME AskOpen(a) PROVE Goal
  <2>1. /\ pc[a] = "gate" /\ pc' = [pc EXCEPT ![a] = "wait"] /\ stepAge' = 0 /\ askAge' = 0
        /\ UNCHANGED <<hook, heard, hookAge, reply, serial>>
    BY <1>2 DEF AskOpen
  <2> QED BY <1>0, <2>1, CallTimeNat DEF HeldFor, CallTime
<1>3. ASSUME Again(a), pc[a] \in Waiting, ~Expired PROVE Goal
  <2>1. /\ pc' = [pc EXCEPT ![a] = "wait"] /\ stepAge' = 0 /\ askAge' = askAge
        /\ askAge < AskTimeout
        /\ UNCHANGED <<hook, heard, hookAge, reply, serial>>
    BY <1>0, <1>3, CallTimeNat DEF Again, Expired, DeadlineStays
  <2> QED BY <1>0, <1>3, <2>1, CallTimeNat DEF HeldFor, CallTime
<1>4. ASSUME WakeTake(a) PROVE Goal
  <2>1. /\ pc[a] = "wait" /\ pc' = [pc EXCEPT ![a] = "take"] /\ stepAge' = 0
        /\ UNCHANGED <<hook, heard, hookAge, reply, askAge, serial>>
    BY <1>4 DEF WakeTake, Awake
  <2> QED BY <1>0, <2>1, CallTimeNat DEF HeldFor, CallTime
<1> HIDE DEF Goal
<1>5. ~TakeSerial(a) /\ ~AskPass(a) /\ ~AskRaises(a) /\ \A ans : ~Close(a, ans)
  BY <1>0 DEF TakeSerial, AskPass, AskRaises, Close, Serving
<1>6. ASSUME HandleAsk(a) PROVE Goal
  BY <1>2, <1>3, <1>4, <1>5, <1>6 DEF HandleAsk, WakeAgain, WakeClose, Awake
<1>7. ASSUME CloudReplies(a) PROVE Goal
  BY <1>1, <1>3, <1>5, <1>7 DEF CloudReplies, TakeAgain, TakeClose
<1> QED BY <1>0, <1>6, <1>7 DEF Goal

\* handle_ask.
LEMMA HandlerClock ==
  ASSUME BInv, IsFiniteSet(Asks), Clocks, NEW a \in Asks, HandleAsk(a) \/ CloudReplies(a)
  PROVE  Clocks'
<1>0. /\ pending.answer \in Answers /\ pc \in [Asks -> PCs]
      /\ pc[a] \in Serving => serial = a
  BY DEF BInv, TypeOK, OneAskAtATime
<1>1. CASE pc[a] \in Serving /\ pc'[a] \in Serving
  BY <1>1, HeldOn, InsideStep
<1>2. CASE AskPass(a)
  <2>1. /\ pc[a] = "gate" /\ pc' = [pc EXCEPT ![a] = "replied"] /\ serial' = NoAsk
        /\ reply' = [reply EXCEPT ![a] = "passthrough"]
        /\ UNCHANGED <<hook, heard, hookAge>>
    BY <1>2 DEF AskPass
  <2> QED BY <1>0, <2>1, LastStep DEF Serving, Verdicts
<1>3. ASSUME NEW ans \in Answers, Close(a, ans), pc[a] \in Waiting PROVE Clocks'
  <2>1. Verdict(ans) \in Verdicts BY DEF Verdict, Verdicts, Answers, Decisions
  <2>2. /\ pc' = [pc EXCEPT ![a] = "replied"] /\ serial' = NoAsk
        /\ reply' = [reply EXCEPT ![a] = Verdict(ans)]
        /\ UNCHANGED <<hook, heard, hookAge>>
    BY <1>3 DEF Close
  <2> QED BY <1>0, <1>3, <2>1, <2>2, LastStep DEF Serving
<1>4. CASE AskRaises(a)
  <2>1. /\ pc[a] \in Serving /\ pc' = [pc EXCEPT ![a] = "raised"] /\ serial' = NoAsk
        /\ UNCHANGED <<hook, heard, hookAge, reply>>
    BY <1>4 DEF AskRaises, SerialGivenBack, Serving
  <2>2. "allow" \in Verdicts BY DEF Verdicts, Decisions
  <2> QED BY <1>0, <2>1, <2>2, LastStep
<1>5. CASE WakeClose(a)
  BY <1>0, <1>3, <1>5 DEF WakeClose, Awake
<1>6. ASSUME NEW got \in Answers, TakeClose(a, got) PROVE Clocks'
  <2>1. Taken(got) \in Answers BY <1>0 DEF Taken
  <2> QED BY <1>3, <1>6, <2>1 DEF TakeClose
<1>7. CASE AskOpen(a) \/ WakeAgain(a) \/ WakeTake(a) \/ \E r \in Replies : PushReply(a, r)
  BY <1>0, <1>1, <1>7 DEF AskOpen, WakeAgain, WakeTake, PushReply, AfterPush, Again, Awake, Serving
<1>8. CASE \E got \in Answers : TakeAgain(a, got)
  BY <1>0, <1>1, <1>8 DEF TakeAgain, Again, Serving
<1>9. CASE HandleAsk(a)
  BY FirstStep, <1>2, <1>5, <1>7, <1>9 DEF HandleAsk
<1>10. CASE CloudReplies(a)
  BY <1>4, <1>6, <1>7, <1>8, <1>10 DEF CloudReplies
<1> QED
  BY <1>9, <1>10

\* Time passes only while the holder is inside a blocking call, and nobody is
\* queued on a free ask_serial.
LEMMA HolderTicks ==
  ASSUME BInv, Tick, NEW a \in Asks, pc[a] \in Serving, NEW x \in Int, NEW y \in Int,
         HeldFor(a, x), y <= x + 1
  PROVE  HeldFor(a, y)'
<1>0. stepAge \in Nat /\ askAge \in Nat /\ pc' = pc BY DEF BInv, TypeOK, Tick
<1>1. pc[a] \in Blocking BY DEF Tick, Urgent, Serving, Blocking
<1>2. stepAge' = stepAge + 1 /\ stepAge < Slice(pc[a])
  <2>1. stepAge' = stepAge + 1 BY <1>1 DEF Tick
  <2>2. ~(stepAge >= Slice(pc[a])) /\ Slice(pc[a]) \in Nat
    BY <1>1, CallTimeNat DEF Tick, Urgent, Slice
  <2> QED BY <1>0, <2>1, <2>2
<1>3. ASSUME pc[a] \in Waiting, askAge' < AskTimeout
      PROVE  askAge < AskTimeout /\ askAge' = askAge + 1
  <2>1. Open BY <1>3 DEF Open
  <2> QED BY <1>0, <1>3, <2>1, CallTimeNat DEF Tick, Later
<1>4. CASE pc[a] = "push"
  BY <1>0, <1>2, <1>4, CallTimeNat DEF HeldFor, Slice
<1>5. CASE pc[a] = "wait"
  BY <1>0, <1>2, <1>3, <1>5, CallTimeNat DEF HeldFor, Slice, CallTime
<1>6. CASE pc[a] = "take"
  BY <1>0, <1>2, <1>3, <1>6, CallTimeNat DEF HeldFor, Slice, CallTime
<1> QED BY <1>1, <1>4, <1>5, <1>6 DEF Blocking

LEMMA TickClock ==
  ASSUME BInv, IsFiniteSet(Asks), Clocks, Tick
  PROVE  Clocks'
<1>0. /\ hookAge \in [Asks -> Nat] /\ pc \in [Asks -> PCs] /\ serial \in Asks \cup {NoAsk}
      /\ UNCHANGED <<hook, heard, pc, reply, serial>>
      /\ \A b \in Asks : hookAge'[b] = IF hook[b] = "asking" THEN hookAge[b] + 1 ELSE hookAge[b]
  BY DEF BInv, TypeOK, Tick
<1>1. Before' = Before /\ LongestQueue' = LongestQueue
  BY <1>0 DEF Over, Before, LongestQueue, LongestAsk, LongestShow, CallTime
<1>2. ASSUME NEW b \in Asks PROVE HookOpen(b)'
  BY <1>0 DEF Clocks, HookOpen
<1>3. ASSUME NEW b \in Asks PROVE HookClock(b)'
  <2>1. CASE pc[b] = "none"
    BY <1>0, <2>1 DEF Clocks, HookClock, HookOpen, Serving
  <2>2. CASE pc[b] \in Ended
    <3>1. hook[b] # "asking" BY <2>2 DEF Tick, Urgent, Clocks, HookOpen
    <3> QED BY <1>0, <1>1, <2>2, <3>1 DEF Clocks, HookClock, Serving
  <2>3. CASE pc[b] \in Serving \cup {"queued"}
    <3>1. serial # NoAsk BY <2>3 DEF Tick, Urgent, BInv, OneAskAtATime, Serving
    <3>2. serial \in Asks /\ pc[serial] \in Serving
      BY <1>0, <3>1 DEF BInv, OneAskAtATime
    <3>3. HeldFor(serial, hookAge[b] - Before) BY <2>3, <3>1 DEF Clocks, HookClock
    <3>4. PICK x \in Int : x = hookAge[b] - Before BY <1>0, RoomLeft
    <3>5. PICK y \in Int : y = hookAge'[b] - Before' BY <1>0, <1>1, RoomLeft
    <3>6. PICK a \in Asks : a = serial BY <3>2
    <3>7. HeldFor(a, y)'
      <4>1. y <= x + 1 BY <1>0, <1>1, <3>4, <3>5, RoomLeft
      <4> QED BY <3>2, <3>3, <3>4, <3>6, <4>1, HolderTicks
    <3>8. HeldFor(serial, hookAge[b] - Before)'
      BY <1>0, <3>5, <3>6, <3>7 DEF HeldFor, CallTime
    <3> QED BY <1>0, <2>3, <3>1, <3>8 DEF HookClock, Serving
  <2> QED BY <1>0, <2>1, <2>2, <2>3 DEF PCs
<1> QED BY <1>2, <1>3 DEF Clocks

\* The steps of the hook.  An ask that comes late has waited for nothing yet.
LEMMA HookSteps ==
  ASSUME BInv, IsFiniteSet(Asks), Clocks, NEW a \in Asks,
         HookAsk(a) \/ HookHears(a) \/ HookGivesUp(a)
  PROVE  Clocks'
<1>0. /\ hookAge \in [Asks -> Nat] /\ hook \in [Asks -> {"idle", "asking", "done"}]
      /\ heard \in [Asks -> Verdicts \cup {"none", "empty"}] /\ pc \in [Asks -> PCs]
      /\ serial \in Asks \cup {NoAsk} /\ NoAsk \notin Asks
      /\ hook[a] = "idle" => pc[a] = "none" /\ reply[a] = "none"
  BY DEF BInv, TypeOK, NotAskedYet
<1>1. CASE HookAsk(a)
  <2>1. CASE up
    <3>0. /\ pc[a] = "none" /\ reply[a] = "none" /\ hook' = [hook EXCEPT ![a] = "asking"]
          /\ pc' = [pc EXCEPT ![a] = "queued"] /\ hookAge[a] = 0
          /\ UNCHANGED <<heard, hookAge, reply, serial, stepAge, askAge>>
      BY <1>0, <1>1, <2>1 DEF HookAsk, Clocks, HookClock
    <3>1. Before' = Before /\ LongestQueue' = LongestQueue
      <4>1. Over' = Over BY <1>0, <3>0 DEF Over
      <4> QED BY <4>1 DEF Before, LongestQueue, LongestAsk, LongestShow, CallTime
    <3>2. ASSUME NEW b \in Asks PROVE HookOpen(b)'
      BY <1>0, <3>0 DEF Clocks, HookOpen, Serving
    <3>3. ASSUME serial # NoAsk, NEW x \in Int, HeldFor(serial, x) PROVE HeldFor(serial, x)'
      <4>1. serial \in Asks /\ serial # a BY <1>0, <3>0, <3>3 DEF BInv, OneAskAtATime, Serving
      <4>2. pc'[serial] = pc[serial] BY <1>0, <3>0, <4>1
      <4> QED BY <3>0, <3>3, <4>2 DEF HeldFor, CallTime
    <3>4. ASSUME NEW b \in Asks, b # a PROVE HookClock(b)'
      <4>1. hookAge[b] - Before \in Int BY <1>0, RoomLeft
      <4>2. pc'[b] = pc[b] /\ HookClock(b) BY <1>0, <3>0, <3>4 DEF Clocks
      <4>3. serial # NoAsk /\ HeldFor(serial, hookAge[b] - Before)
              => HeldFor(serial, hookAge[b] - Before)'
        <5>1. PICK x \in Int : x = hookAge[b] - Before BY <4>1
        <5>2. hookAge'[b] - Before' = x BY <3>0, <3>1, <5>1
        <5> QED BY <3>0, <3>3, <5>1, <5>2 DEF HeldFor, CallTime
      <4> QED BY <3>0, <3>1, <4>2, <4>3 DEF HookClock
    <3>5. HookClock(a)'
      <4>1. CASE serial = NoAsk
        BY <1>0, <3>0, <3>1, <4>1, RoomLeft DEF HookClock, Serving
      <4>2. CASE serial # NoAsk
        <5>1. serial \in Asks /\ pc[serial] \in Serving
          BY <1>0, <4>2 DEF BInv, OneAskAtATime
        <5>2. HeldFor(serial, hookAge[serial] - Before)
          BY <4>2, <5>1 DEF Clocks, HookClock
        <5>3. PICK x \in Int : x = 0 - Before BY RoomLeft
        <5>4. HeldFor(serial, x)
          <6>1. stepAge \in Nat /\ askAge \in Nat BY DEF BInv, TypeOK
          <6> QED BY <5>2, <5>3, <6>1, RoomLeft, CallTimeNat DEF HeldFor
        <5>5. HeldFor(serial, x)' BY <3>3, <4>2, <5>4
        <5>6. hookAge'[a] - Before' = x BY <3>0, <3>1, <5>3
        <5> QED BY <1>0, <3>0, <4>2, <5>5, <5>6 DEF HookClock, HeldFor, Serving, CallTime
      <4> QED BY <4>1, <4>2
    <3> QED BY <3>2, <3>4, <3>5 DEF Clocks
  <2>2. CASE ~up
    <3>1. /\ pc[a] = "none" /\ reply[a] = "none" /\ hook' = [hook EXCEPT ![a] = "done"]
          /\ heard' = [heard EXCEPT ![a] = "empty"]
          /\ UNCHANGED <<hookAge, reply, pc, serial, stepAge, askAge>>
      BY <1>0, <1>1, <2>2 DEF HookAsk
    <3>2. \A b \in Asks : HookOpen(b)'
      BY <1>0, <3>1 DEF Clocks, HookOpen, Serving
    <3> QED BY <3>1, <3>2, SameClock DEF Clocks
  <2> QED BY <2>1, <2>2
<1>2. CASE HookHears(a)
  <2>1. /\ hook' = [hook EXCEPT ![a] = "done"]
        /\ UNCHANGED <<hookAge, pc, reply, serial, stepAge, askAge>>
        /\ reply[a] # "none" \/ pc[a] \in Gone
    BY <1>0, <1>2 DEF HookHears
  <2>2. \A b \in Asks : HookOpen(b)'
    BY <1>0, <2>1 DEF Clocks, HookOpen, Serving
  <2> QED BY <2>1, <2>2, SameClock DEF Clocks
<1>3. CASE HookGivesUp(a)
  <2>1. /\ hook' = [hook EXCEPT ![a] = "done"]
        /\ UNCHANGED <<hookAge, pc, reply, serial, stepAge, askAge>>
    BY <1>3 DEF HookGivesUp
  <2>2. \A b \in Asks : HookOpen(b)'
    BY <1>0, <2>1 DEF Clocks, HookOpen
  <2> QED BY <2>1, <2>2, SameClock DEF Clocks
<1> QED
  BY <1>1, <1>2, <1>3

LEMMA ClocksStep ==
  ASSUME BInv, IsFiniteSet(Asks), Clocks, [Next]_vars
  PROVE  Clocks'
<1>1. ASSUME NEW a \in Asks, HookAsk(a) \/ HookHears(a) \/ HookGivesUp(a) PROVE Clocks'
  BY <1>1, HookSteps
<1>2. ASSUME NEW a \in Asks, HandleAsk(a) \/ CloudReplies(a) PROVE Clocks'
  BY <1>2, HandlerClock
<1>3. CASE Tick
  BY <1>3, TickClock
<1>4. CASE Crash
  <2>1. /\ \A a \in Asks : pc'[a] = IF pc[a] \in Serving \cup {"queued"} THEN "dead" ELSE pc[a]
        /\ UNCHANGED <<hook, heard, hookAge, reply>>
    BY <1>4 DEF Crash
  <2>2. \A a \in Asks : hookAge[a] <= LongestQueue
    BY ClockBound
  <2>3. \A a \in Asks : HookOpen(a)'
    BY <2>1 DEF Clocks, HookOpen, Serving
  <2>4. \A a \in Asks : HookClock(a)'
    BY <2>1, <2>2 DEF Clocks, HookClock, Serving, LongestQueue, LongestAsk, LongestShow, CallTime
  <2> QED BY <2>3, <2>4 DEF Clocks
<1>5. ASSUME UNCHANGED <<hook, heard, hookAge, pc, reply, serial, askAge, stepAge>>
      PROVE  Clocks'
  <2>1. \A a \in Asks : HookOpen(a)'
    BY <1>5 DEF Clocks, HookOpen
  <2> QED BY <1>5, <2>1, SameClock DEF Clocks
<1>6. ASSUME NEW ans, Press(ans) \/ StrayDecision(ans) PROVE Clocks'
  BY <1>5, <1>6 DEF Press, StrayDecision
<1>7. ASSUME NEW s, PostState(s) PROVE Clocks'
  BY <1>5, <1>7 DEF PostState
<1>8. ASSUME NEW p, PollStart(p) \/ PollReply(p) PROVE Clocks'
  BY <1>5, <1>8 DEF PollStart, PollReply
<1>9. CASE PusherSteps
  BY <1>5, <1>9 DEF PusherSteps, PusherWakes, PusherClears, PusherPuts, PusherReply, PusherRaises
<1>10. CASE Restart \/ UNCHANGED vars
  BY <1>5, <1>10 DEF Restart, vars
<1> QED
  BY <1>1, <1>2, <1>3, <1>4, <1>6, <1>7, <1>8, <1>9, <1>10 DEF Next, PusherSteps

LEMMA ClocksInvariance == ASSUME IsFiniteSet(Asks) PROVE Spec => []Clocks
<1>1. Init => Clocks
  BY DEF Init, Clocks, HookClock, HookOpen, Serving
<1>2. BInv /\ Clocks /\ [Next]_vars => Clocks'
  BY ClocksStep
<1> QED
  BY <1>1, <1>2, Invariance, PTL DEF Spec

\* No hook waits for the bridge longer than all the asks take one after the
\* other, whatever the relay, the Flipper and the other hooks do.
THEOREM AnsweredInTimeCorrect ==
  ASSUME IsFiniteSet(Asks)
  PROVE  Spec => []AnsweredInTime
<1>1. BInv /\ Clocks => AnsweredInTime
  BY ClockBound DEF AnsweredInTime
<1> QED
  BY <1>1, ClocksInvariance, Invariance, PTL

-----------------------------------------------------------------------------
(* What the hook makes of it.                                               *)

\* An ask that is not over has no reply, and a hook that still waits for one, or
\* has waited for all of --max-time.
HookWaits ==
  \A a \in Asks : pc[a] \in Serving \cup {"queued"} =>
    reply[a] = "none" /\ (hook[a] = "asking" \/ hookAge[a] >= HookTimeout)

LEMMA HookWaitsStep ==
  ASSUME BInv, HookWaits, [Next]_vars
  PROVE  HookWaits'
<1>0. /\ hook \in [Asks -> {"idle", "asking", "done"}] /\ pc \in [Asks -> PCs]
      /\ reply \in [Asks -> Verdicts \cup {"none"}] /\ hookAge \in [Asks -> Nat]
      /\ \A a \in Asks : hook[a] = "idle" => pc[a] = "none" /\ reply[a] = "none"
  BY DEF BInv, TypeOK, NotAskedYet
<1>1. ASSUME NEW a \in Asks, HookAsk(a) PROVE HookWaits'
  BY <1>0, <1>1 DEF HookAsk, HookWaits
<1>2. ASSUME NEW a \in Asks, HookHears(a) PROVE HookWaits'
  BY <1>0, <1>2 DEF HookHears, HookWaits, Serving
<1>3. ASSUME NEW a \in Asks, HookGivesUp(a) PROVE HookWaits'
  BY <1>0, <1>3, CallTimeNat DEF HookGivesUp, HookWaits
<1>4. ASSUME NEW a \in Asks, HandleAsk(a) \/ CloudReplies(a) PROVE HookWaits'
  <2>1. /\ UNCHANGED <<hook, hookAge>> /\ pc[a] \in Serving \cup {"queued"}
        /\ \A b \in Asks : b # a => pc'[b] = pc[b] /\ reply'[b] = reply[b]
        /\ pc'[a] \in Serving => reply'[a] = reply[a]
        /\ pc'[a] \in Serving \cup Ended
    <3>1. CASE TakeSerial(a) BY <1>0, <3>1 DEF TakeSerial, Serving
    <3>2. CASE AskPass(a) BY <1>0, <3>2 DEF AskPass, Serving
    <3>3. CASE AskOpen(a) BY <1>0, <3>3 DEF AskOpen, Serving
    <3>4. CASE WakeAgain(a) BY <1>0, <3>4 DEF WakeAgain, Again, Awake, Serving
    <3>5. CASE WakeClose(a) BY <1>0, <3>5 DEF WakeClose, Close, Awake, Serving
    <3>6. CASE WakeTake(a) BY <1>0, <3>6 DEF WakeTake, Awake, Serving
    <3>7. ASSUME NEW r, PushReply(a, r) PROVE <2>1!:
      BY <1>0, <3>7 DEF PushReply, AfterPush, Serving
    <3>8. ASSUME NEW got, TakeAgain(a, got) PROVE <2>1!:
      BY <1>0, <3>8 DEF TakeAgain, Again, Serving
    <3>9. ASSUME NEW got, TakeClose(a, got) PROVE <2>1!:
      BY <1>0, <3>9 DEF TakeClose, Close, Serving
    <3>10. CASE AskRaises(a) BY <1>0, <3>10 DEF AskRaises, Serving
    <3> QED
      BY <1>4, <3>1, <3>2, <3>3, <3>4, <3>5, <3>6, <3>7, <3>8, <3>9, <3>10 DEF HandleAsk, CloudReplies
  <2> QED BY <1>0, <2>1 DEF HookWaits, Serving
<1>5. CASE Tick
  BY <1>0, <1>5, CallTimeNat DEF Tick, HookWaits
<1>6. CASE Crash
  BY <1>0, <1>6 DEF Crash, HookWaits, Serving
<1>7. ASSUME UNCHANGED <<hook, hookAge, pc, reply>> PROVE HookWaits'
  BY <1>7 DEF HookWaits
<1>8. ASSUME NEW ans, Press(ans) \/ StrayDecision(ans) PROVE HookWaits'
  BY <1>7, <1>8 DEF Press, StrayDecision
<1>9. ASSUME NEW s, PostState(s) PROVE HookWaits'
  BY <1>7, <1>9 DEF PostState
<1>10. ASSUME NEW p, PollStart(p) \/ PollReply(p) PROVE HookWaits'
  BY <1>7, <1>10 DEF PollStart, PollReply
<1>11. CASE PusherSteps
  BY <1>7, <1>11 DEF PusherSteps, PusherWakes, PusherClears, PusherPuts, PusherReply, PusherRaises
<1>12. CASE Restart \/ UNCHANGED vars
  BY <1>7, <1>12 DEF Restart, vars
<1> QED
  BY <1>1, <1>2, <1>3, <1>4, <1>5, <1>6, <1>8, <1>9, <1>10, <1>11, <1>12 DEF Next, PusherSteps

LEMMA HookWaitsInvariance == Spec => []HookWaits
<1>1. Init => HookWaits
  BY DEF Init, HookWaits, Serving
<1>2. BInv /\ HookWaits /\ [Next]_vars => HookWaits'
  BY HookWaitsStep
<1> QED
  BY <1>1, <1>2, Invariance, PTL DEF Spec

\* A prompt that was shown in time: what curl had waited for before leaves it,
\* whatever the thread spends on showing the prompt from here, with a second less
\* than --max-time behind it when the reply is there.
HeardInTime ==
  \A a \in inTime :
    /\ pc[a] \in Waiting \cup Ended
    /\ pc[a] \in Waiting =>
         hook[a] = "asking" /\ HeldFor(a, hookAge[a] + LongestAsk + 1 - HookTimeout)
    /\ pc[a] = "replied" =>
         /\ reply[a] # "none"
         /\ hook[a] = "asking" => hookAge[a] < HookTimeout
         /\ hook[a] = "done" => heard[a] = reply[a]

\* As long as the thread shows the prompt, curl has time left.
LEMMA TimeLeft ==
  ASSUME BInv, HeardInTime, NEW a \in inTime, pc[a] \in Waiting
  PROVE  hookAge[a] < HookTimeout
<1>1. a \in Asks /\ hookAge[a] \in Nat BY DEF BInv, TypeOK
<1>2. PICK x \in Int : x = hookAge[a] + LongestAsk + 1 - HookTimeout BY <1>1, CallTimeNat
<1>3. HeldFor(a, x) BY <1>2 DEF HeardInTime
<1>4. x <= LongestAsk BY <1>1, <1>3, HeldAtMost DEF Serving
<1> QED BY <1>1, <1>2, <1>4, CallTimeNat

\* What the step of a handler thread does to the promise.  No other ask is shown.
LEMMA HeardHandler ==
  ASSUME BInv, HookWaits, HeardInTime, NEW a \in Asks, HandleAsk(a) \/ CloudReplies(a)
  PROVE  HeardInTime'
<1>0. /\ hook \in [Asks -> {"idle", "asking", "done"}] /\ pc \in [Asks -> PCs]
      /\ reply \in [Asks -> Verdicts \cup {"none"}] /\ hookAge \in [Asks -> Nat]
      /\ inTime \subseteq Asks /\ LongestAsk' = LongestAsk /\ pending.answer \in Answers
  BY DEF BInv, TypeOK, LongestAsk, LongestShow, CallTime
<1>1. /\ UNCHANGED <<hook, heard, hookAge>> /\ pc[a] \in Serving \cup {"queued"}
      /\ \A b \in Asks : b # a => pc'[b] = pc[b] /\ reply'[b] = reply[b]
      /\ inTime \subseteq inTime' /\ inTime' \subseteq inTime \cup {a}
      /\ pc'[a] # "queued"
      /\ a \in inTime' \ inTime =>
           pc[a] = "gate" /\ pc'[a] = "wait" /\ hookAge[a] + LongestShow < HookTimeout
      /\ pc[a] \in Waiting => pc'[a] \in Waiting \cup {"replied", "raised"}
      /\ pc'[a] = "replied" => reply'[a] # "none"
  <2>1. \A got \in Answers : Verdict(Taken(got)) \in Decisions
    BY <1>0 DEF Verdict, Taken, Answers, Decisions
  <2>2. Verdict(pending.answer) \in Decisions
    BY <1>0 DEF Verdict, Answers, Decisions
  <2>3. CASE TakeSerial(a) BY <1>0, <2>3 DEF TakeSerial, Serving
  <2>4. CASE AskPass(a) BY <1>0, <2>4 DEF AskPass, Serving
  <2>5. CASE AskOpen(a) BY <1>0, <2>5 DEF AskOpen, Serving
  <2>6. CASE WakeAgain(a) BY <1>0, <2>6 DEF WakeAgain, Again, Awake, Serving
  <2>7. CASE WakeClose(a) BY <1>0, <2>2, <2>7 DEF WakeClose, Close, Awake, Serving, Decisions
  <2>8. CASE WakeTake(a) BY <1>0, <2>8 DEF WakeTake, Awake, Serving
  <2>9. ASSUME NEW r, PushReply(a, r) PROVE <1>1!:
    BY <1>0, <2>9 DEF PushReply, AfterPush, Serving
  <2>10. ASSUME NEW got, TakeAgain(a, got) PROVE <1>1!:
    BY <1>0, <2>10 DEF TakeAgain, Again, Serving
  <2>11. ASSUME NEW got \in Answers, TakeClose(a, got) PROVE <1>1!:
    BY <1>0, <2>1, <2>11 DEF TakeClose, Close, Serving, Decisions
  <2>12. CASE AskRaises(a) BY <1>0, <2>12 DEF AskRaises, Serving
  <2> QED
    BY <2>3, <2>4, <2>5, <2>6, <2>7, <2>8, <2>9, <2>10, <2>11, <2>12 DEF HandleAsk, CloudReplies
<1>2. ASSUME NEW b \in inTime, b # a
      PROVE  pc[b] \in Ended
  <2>1. serial \in {a, NoAsk}
    BY <1>1, HeldOn DEF BInv, OneAskAtATime, HandleAsk, CloudReplies, TakeSerial, SerialFree,
         AskPass, AskOpen, WakeAgain, WakeClose, WakeTake, Awake, PushReply, TakeAgain, TakeClose,
         AskRaises, Serving
  <2>2. b \in Asks /\ a # NoAsk /\ b # NoAsk BY <1>0
  <2> QED BY <1>2, <2>1, <2>2 DEF HeardInTime, BInv, OneAskAtATime, Serving
<1>3. ASSUME NEW x \in Int, x = hookAge[a] + LongestAsk + 1 - HookTimeout,
             HeldFor(a, x), pc[a] \in Serving, pc'[a] \in Waiting
      PROVE  HeldFor(a, hookAge[a] + LongestAsk + 1 - HookTimeout)'
  <2>1. HeldFor(a, x)' BY <1>3, HeldOn DEF Serving
  <2>2. (hookAge[a] + LongestAsk + 1 - HookTimeout)' = x BY <1>0, <1>1, <1>3
  <2> QED BY <2>1, <2>2 DEF HeldFor, CallTime
<1>4. PICK x \in Int : x = hookAge[a] + LongestAsk + 1 - HookTimeout BY <1>0, CallTimeNat
<1>5. ASSUME a \in inTime' \ inTime
      PROVE  hook[a] = "asking" /\ HeldFor(a, hookAge[a] + LongestAsk + 1 - HookTimeout)'
  <2>1. pc[a] = "gate" /\ pc'[a] = "wait" /\ hookAge[a] + LongestShow < HookTimeout BY <1>1, <1>5
  <2>2. hook[a] = "asking"
    BY <1>0, <2>1, CallTimeNat DEF HookWaits, Serving, LongestShow
  <2>3. x <= CallTime
    <3>1. LongestAsk = CallTime + LongestShow /\ LongestShow \in Nat
      BY CallTimeNat DEF LongestAsk, LongestShow
    <3> QED BY <1>0, <1>4, <2>1, <3>1, CallTimeNat
  <2>4. HeldFor(a, x) BY <2>1, <2>3 DEF HeldFor
  <2> QED BY <1>3, <1>4, <2>1, <2>2, <2>4 DEF Serving
<1>6. ASSUME a \in inTime, pc[a] \in Waiting
      PROVE  /\ hook[a] = "asking" /\ hookAge[a] < HookTimeout
             /\ pc'[a] \in Waiting => HeldFor(a, hookAge[a] + LongestAsk + 1 - HookTimeout)'
  <2>1. hook[a] = "asking" /\ HeldFor(a, x) BY <1>4, <1>6 DEF HeardInTime
  <2> QED BY <1>3, <1>4, <1>6, <2>1, TimeLeft DEF Serving
<1>7. a \in inTime => pc[a] \in Waiting
  BY <1>1 DEF HeardInTime, Serving
<1>8. ASSUME NEW b \in inTime', b # a
      PROVE  b \in inTime /\ pc[b] \in Ended /\ pc'[b] = pc[b] /\ reply'[b] = reply[b]
  BY <1>0, <1>1, <1>2, <1>8
<1>9. ASSUME a \in inTime'
      PROVE  /\ pc'[a] \in Waiting \cup Ended
             /\ pc'[a] \in Waiting =>
                  hook'[a] = "asking" /\ HeldFor(a, hookAge[a] + LongestAsk + 1 - HookTimeout)'
             /\ pc'[a] = "replied" => reply'[a] # "none" /\ hook'[a] = "asking" /\ hookAge'[a] < HookTimeout
  BY <1>0, <1>1, <1>5, <1>6, <1>7, <1>9
<1>10. ASSUME NEW b \in inTime'
       PROVE  /\ pc'[b] \in Waiting \cup Ended
              /\ pc'[b] \in Waiting =>
                   hook'[b] = "asking" /\ HeldFor(b, hookAge[b] + LongestAsk + 1 - HookTimeout)'
              /\ pc'[b] = "replied" =>
                   /\ reply'[b] # "none"
                   /\ hook'[b] = "asking" => hookAge'[b] < HookTimeout
                   /\ hook'[b] = "done" => heard'[b] = reply'[b]
  <2>1. CASE b = a BY <1>9, <2>1
  <2>2. CASE b # a
    <3>1. b \in inTime /\ pc[b] \in Ended /\ pc'[b] = pc[b] /\ reply'[b] = reply[b] BY <1>8, <2>2
    <3> QED BY <1>1, <3>1 DEF HeardInTime
  <2> QED BY <2>1, <2>2
<1> QED BY <1>10 DEF HeardInTime

LEMMA HeardInTimeStep ==
  ASSUME BInv, HookWaits, HeardInTime, [Next]_vars
  PROVE  HeardInTime'
<1>0. /\ hook \in [Asks -> {"idle", "asking", "done"}] /\ pc \in [Asks -> PCs]
      /\ heard \in [Asks -> Verdicts \cup {"none", "empty"}]
      /\ reply \in [Asks -> Verdicts \cup {"none"}] /\ hookAge \in [Asks -> Nat]
      /\ \A a \in Asks : hook[a] = "idle" => pc[a] = "none"
      /\ inTime \subseteq Asks /\ LongestAsk' = LongestAsk
  BY DEF BInv, TypeOK, NotAskedYet, LongestAsk, LongestShow, CallTime
<1>1. ASSUME UNCHANGED <<hook, heard, hookAge, pc, reply, stepAge, askAge, inTime>>
      PROVE  HeardInTime'
  BY <1>0, <1>1 DEF HeardInTime, HeldFor, CallTime
<1>2. ASSUME NEW a \in Asks, HookAsk(a) PROVE HeardInTime'
  <2>1. /\ a \notin inTime /\ \A b \in Asks : b # a => /\ hook'[b] = hook[b]
                                                       /\ heard'[b] = heard[b] /\ pc'[b] = pc[b]
        /\ UNCHANGED <<hookAge, reply, stepAge, askAge, inTime>>
    BY <1>0, <1>2 DEF HookAsk, HeardInTime
  <2> QED BY <1>0, <2>1 DEF HeardInTime, HeldFor, CallTime
<1>3. ASSUME NEW a \in Asks, HookHears(a) PROVE HeardInTime'
  <2>1. /\ hook' = [hook EXCEPT ![a] = "done"]
        /\ UNCHANGED <<hookAge, pc, reply, stepAge, askAge, inTime>>
        /\ reply[a] # "none" \/ pc[a] \in Gone
        /\ heard' = [heard EXCEPT ![a] = IF reply[a] = "none" THEN "empty" ELSE reply[a]]
    BY <1>3 DEF HookHears
  <2>2. pc[a] \notin Waiting
    BY <2>1 DEF HookWaits, Serving
  <2> QED BY <1>0, <2>1, <2>2 DEF HeardInTime, HeldFor, CallTime
<1>4. ASSUME NEW a \in Asks, HookGivesUp(a) PROVE HeardInTime'
  <2>1. /\ hook' = [hook EXCEPT ![a] = "done"] /\ hook[a] = "asking" /\ hookAge[a] = HookTimeout
        /\ heard' = [heard EXCEPT ![a] = "empty"]
        /\ UNCHANGED <<hookAge, pc, reply, stepAge, askAge, inTime>>
    BY <1>4 DEF HookGivesUp
  <2>2. a \in inTime => pc[a] \in Gone
    BY <1>0, <2>1, TimeLeft, CallTimeNat DEF HeardInTime
  <2> QED BY <1>0, <2>1, <2>2 DEF HeardInTime, HeldFor, CallTime
<1>5. ASSUME NEW a \in Asks, HandleAsk(a) \/ CloudReplies(a) PROVE HeardInTime'
  BY <1>5, HeardHandler
<1>6. CASE Tick
  <2>1. /\ UNCHANGED <<hook, heard, pc, reply, inTime>>
        /\ \A b \in Asks : hookAge'[b] = IF hook[b] = "asking" THEN hookAge[b] + 1 ELSE hookAge[b]
    BY <1>6 DEF Tick
  <2>2. ASSUME NEW b \in inTime, pc[b] \in Waiting
        PROVE  HeldFor(b, hookAge[b] + LongestAsk + 1 - HookTimeout)'
    <3>0. b \in Asks /\ hook[b] = "asking" BY <1>0, <2>2 DEF HeardInTime
    <3>1. PICK x \in Int : x = hookAge[b] + LongestAsk + 1 - HookTimeout BY <1>0, <3>0, CallTimeNat
    <3>2. PICK y \in Int : y = (hookAge[b] + LongestAsk + 1 - HookTimeout)'
      BY <1>0, <2>1, <3>0, CallTimeNat
    <3>3. y <= x + 1 BY <1>0, <2>1, <3>0, <3>1, <3>2, CallTimeNat
    <3>4. HeldFor(b, x) BY <2>2, <3>1 DEF HeardInTime
    <3>5. HeldFor(b, y)' BY <1>6, <2>2, <3>0, <3>3, <3>4, HolderTicks DEF Serving
    <3> QED BY <3>2, <3>5 DEF HeldFor, CallTime
  <2>3. ASSUME NEW b \in inTime, pc[b] = "replied" PROVE hook[b] # "asking"
    BY <1>0, <1>6, <2>3 DEF HeardInTime, Tick, Urgent
  <2> QED BY <1>0, <2>1, <2>2, <2>3 DEF HeardInTime
<1>7. CASE Crash
  <2>1. /\ \A a \in Asks : pc'[a] = IF pc[a] \in Serving \cup {"queued"} THEN "dead" ELSE pc[a]
        /\ UNCHANGED <<hook, heard, hookAge, reply, inTime>>
    BY <1>7 DEF Crash
  <2> QED BY <1>0, <2>1 DEF HeardInTime, Serving
<1>8. ASSUME NEW ans, Press(ans) \/ StrayDecision(ans) PROVE HeardInTime'
  BY <1>1, <1>8 DEF Press, StrayDecision
<1>9. ASSUME NEW s, PostState(s) PROVE HeardInTime'
  BY <1>1, <1>9 DEF PostState
<1>10. ASSUME NEW p, PollStart(p) \/ PollReply(p) PROVE HeardInTime'
  BY <1>1, <1>10 DEF PollStart, PollReply
<1>11. CASE PusherSteps
  BY <1>1, <1>11 DEF PusherSteps, PusherWakes, PusherClears, PusherPuts, PusherReply, PusherRaises
<1>12. CASE Restart \/ UNCHANGED vars
  BY <1>1, <1>12 DEF Restart, vars
<1> QED
  BY <1>2, <1>3, <1>4, <1>5, <1>6, <1>7, <1>8, <1>9, <1>10, <1>11, <1>12 DEF Next, PusherSteps

LEMMA HeardInTimeInvariance == Spec => []HeardInTime
<1>1. Init => HeardInTime
  BY DEF Init, HeardInTime
<1>2. BInv /\ HookWaits /\ HeardInTime /\ [Next]_vars => HeardInTime'
  BY HeardInTimeStep
<1> QED
  BY <1>1, <1>2, Invariance, HookWaitsInvariance, PTL DEF Spec

\* A tool whose prompt was shown in time runs only on the answer to that prompt
\* (cc-ask.sh lets it run on an empty one), for any timeouts, any number of asks
\* and any relay.
THEOREM ShownInTimeIsHeardCorrect == Spec => []ShownInTimeIsHeard
<1>1. BInv /\ HeardInTime => ShownInTimeIsHeard
  <2> SUFFICES ASSUME BInv, HeardInTime, NEW a \in Asks, ToolRuns(a), a \in inTime
               PROVE  heard[a] = reply[a] \/ pc[a] \in Gone
    BY DEF ShownInTimeIsHeard
  <2> QED BY DEF HeardInTime, ToolRuns
<1> QED
  BY <1>1, HeardInTimeInvariance, Invariance, PTL

\* A prompt shown in time has its hook for as long as the thread of handle_ask
\* waits for the Flipper, for any timeouts, any number of asks and any relay.
THEOREM PromptHasListenerCorrect == Spec => []PromptHasListener
<1>1. HeardInTime => PromptHasListener
  BY DEF HeardInTime, PromptHasListener
<1> QED
  BY <1>1, HeardInTimeInvariance, PTL
=============================================================================
