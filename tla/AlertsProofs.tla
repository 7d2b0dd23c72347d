---------------------------- MODULE AlertsProofs ----------------------------
(***************************************************************************)
(* Proofs about Alerts.tla, for any number of posts, asks and faults.      *)
(***************************************************************************)
EXTENDS Alerts, TLAPS

\* Who calls alert() with what: a POST for the status it read, handle_ask for
\* its prompt and its verdict.
OwnKinds ==
  /\ \A p \in Posts : /\ pc[p] # "shown"
                      /\ pc[p] \in {"test", "mark", "put"} => kind[p] \in {"notify", "done", "working"}
  /\ \A a \in Asks : /\ pc[a] \in {"new", "mark", "put", "shown", "done"}
                     /\ pc[a] \in {"mark", "put"} => kind[a] \in Answers \cup {"pending"}

WorkerHas == worker \in {"drain", "run"} => playing \in Kinds

\* ask_serial.
OneAsk == \A a, b \in Asks : pc[a] \notin {"new", "done"} /\ pc[b] \notin {"new", "done"} => a = b

\* The latest alert is the last in the queue, or the one alert_worker has.
LatestIsKept ==
  IF queue = <<>> THEN playing = lastPut ELSE queue[Len(queue)] = lastPut

Rank == [waiting |-> 1, idle |-> 2, working |-> 3]

\* A status that was posted last and not yet announced is still ahead of some
\* thread in do_POST's chain of comparisons.
StillToTell ==
  ~told /\ posted /\ status \in Looks =>
    \E p \in Posts : pc[p] \in Looks /\ Rank[pc[p]] <= Rank[status]

\* Whether red is on once the alerts in s have been played, where red says
\* whether it is now: notify leaves it alone, pending ends with it on, every other
\* alert with it off.
RedAfter(s, red) ==
  IF \E i \in 1 .. Len(s) : s[i] # "notify"
  THEN \E i \in 1 .. Len(s) : s[i] = "pending" /\ \A j \in i + 1 .. Len(s) : s[j] = "notify"
  ELSE red

\* ... once alert_worker has played what it has got.
RedNext ==
  IF worker \in {"drain", "run"} /\ playing # "notify" THEN playing = "pending" ELSE "r" \in lights

\* An ask whose prompt has been queued and whose verdict has not.
Engaged(a) == pc[a] = "shown" \/ (pc[a] \in {"mark", "put"} /\ kind[a] \in Answers)

\* The red light that is due, whoever is in the middle of what: as long as no
\* alert was lost it tells whether an ask is engaged.
RedIsDue ==
  ~lost => (RedAfter(queue, RedNext) <=> (\E a \in Asks : Engaged(a)) /\ since \cap {"done", "working"} = {})

AInv == TypeOK /\ OwnKinds /\ WorkerHas /\ OneAsk /\ LatestIsKept /\ StillToTell /\ RedIsDue

LEMMA LooksAre == Looks = {"waiting", "idle", "working"}
  BY DEF Looks, AlertFor

LEMMA InitAInv == Init => AInv
<1> SUFFICES ASSUME Init PROVE AInv
  OBVIOUS
<1>1. TypeOK
  <2>1. posted \in BOOLEAN /\ told \in BOOLEAN /\ lost \in BOOLEAN
    BY Zenon DEF Init
  <2> QED
    BY <2>1 DEF Init, TypeOK, Statuses
<1>2. LatestIsKept /\ OwnKinds /\ WorkerHas /\ OneAsk
  BY DEF Init, LatestIsKept, OwnKinds, WorkerHas, OneAsk, Threads
<1>3. StillToTell
  BY DEF Init, StillToTell
<1>4. RedIsDue
  <2>1. ~RedAfter(queue, RedNext)
    BY DEF Init, RedAfter, RedNext
  <2>2. \A a \in Asks : ~Engaged(a)
    BY DEF Init, Engaged, Threads
  <2> QED
    BY <2>1, <2>2 DEF RedIsDue
<1> QED
  BY <1>1, <1>2, <1>3, <1>4 DEF AInv

-----------------------------------------------------------------------------
(* Types.                                                                   *)

LEMMA AfterTypes == \A k, n : After(k, n) \subseteq Outputs
  BY DEF After

\* What alert() is called with.
LEMMA KindPassed ==
  ASSUME AInv, NEW t \in Threads, pc[t] \in {"mark", "put"}
  PROVE  kind[t] \in Kinds
  BY DEF AInv, OwnKinds, Threads, Kinds, Answers

LEMMA StepTypes == ASSUME AInv, [Next]_vars PROVE TypeOK'
<1> USE LooksAre DEF AInv, TypeOK, Threads, Goto, SetStatus
<1>1. ASSUME NEW t \in Threads, Alert(t) PROVE TypeOK'
  <2>1. CASE AlertTests(t)
    BY <2>1 DEF AlertTests, queueVars, workerVars
  <2>2. CASE AlertMarks(t)
    BY <2>2, KindPassed DEF AlertMarks, queueVars, workerVars
  <2>3. CASE AlertPuts(t)
    <3>1. kind[t] \in Kinds
      BY <2>3, KindPassed DEF AlertPuts
    <3>2. queue' \in Seq(Kinds) /\ since' \subseteq Kinds
      BY <2>3, <3>1 DEF AlertPuts
    <3> QED
      BY <2>3, <3>1, <3>2 DEF AlertPuts, workerVars
  <2> QED
    BY <1>1, <2>1, <2>2, <2>3 DEF Alert
<1>2. ASSUME NEW p \in Posts, NEW s \in Statuses, PostState(p, s) PROVE TypeOK'
  BY <1>2 DEF PostState, queueVars, workerVars, Statuses
<1>3. ASSUME NEW p \in Posts, PostMatches(p) PROVE TypeOK'
  BY <1>3 DEF PostMatches, queueVars, workerVars, AlertFor, Kinds
<1>4. ASSUME NEW p \in Posts, PostGoesOn(p) PROVE TypeOK'
  BY <1>4 DEF PostGoesOn, queueVars, workerVars, NextLook
<1>5. ASSUME NEW a \in Asks, AskPasses(a) PROVE TypeOK'
  BY <1>5 DEF AskPasses, queueVars, workerVars, Statuses
<1>6. ASSUME NEW a \in Asks, AskOpens(a) PROVE TypeOK'
  BY <1>6 DEF AskOpens, queueVars, workerVars, Statuses, Kinds
<1>7. ASSUME NEW a \in Asks, NEW ans \in Answers, AskCloses(a, ans) PROVE TypeOK'
  BY <1>7 DEF AskCloses, queueVars, workerVars, Statuses, Kinds
<1>8. CASE AlertGets
  <2>1. Head(queue) \in Kinds /\ Tail(queue) \in Seq(Kinds)
    BY <1>8 DEF AlertGets
  <2>2. lost' \in BOOLEAN
    BY <1>8, Zenon DEF AlertGets
  <2> QED
    BY <1>8, <2>1, <2>2 DEF AlertGets, threadVars
<1>9. CASE AlertRuns
  BY <1>9 DEF AlertRuns, threadVars, queueVars
<1>10. CASE AlertPlays
  BY <1>10, AfterTypes DEF AlertPlays, threadVars, queueVars
<1>11. CASE \E n \in 0 .. 4 : AlertFails(n)
  <2>1. lost' \in BOOLEAN /\ lights' \subseteq Outputs
    BY <1>11, AfterTypes DEF AlertFails
  <2> QED
    BY <1>11, <2>1 DEF AlertFails, threadVars, queueVars
<1>12. CASE UNCHANGED vars
  BY <1>12 DEF vars, threadVars, queueVars, workerVars
<1> QED
  BY <1>1, <1>2, <1>3, <1>4, <1>5, <1>6, <1>7, <1>8, <1>9, <1>10, <1>11, <1>12
  DEF Next, AlertWorker

\* Every thread stays in its own part of the code, and asks come one at a time.
LEMMA StepOwn == ASSUME AInv, [Next]_vars PROVE OwnKinds' /\ WorkerHas' /\ OneAsk'
<1> USE LooksAre, AlertsAssumption DEF AInv, TypeOK, Threads, Goto, SetStatus
<1>0. UNCHANGED <<worker, playing>> => WorkerHas'
  BY DEF WorkerHas
<1>1. ASSUME NEW t \in Threads, Alert(t) PROVE OwnKinds' /\ WorkerHas' /\ OneAsk'
  <2>1. UNCHANGED <<kind, worker, playing>> /\ pc[t] \in {"test", "mark", "put"}
    BY <1>1 DEF Alert, AlertTests, AlertMarks, AlertPuts, workerVars
  <2>2. \/ pc[t] = "test" /\ pc'[t] \in {"mark", "done"}
        \/ pc[t] = "mark" /\ pc'[t] = "put"
        \/ pc[t] = "put" /\ pc'[t] = IF kind[t] = "pending" THEN "shown" ELSE "done"
    BY <1>1 DEF Alert, AlertTests, AlertMarks, AlertPuts
  <2>3. \A u \in Threads : u # t => pc'[u] = pc[u]
    BY <1>1 DEF Alert, AlertTests, AlertMarks, AlertPuts
  <2>4. OwnKinds'
    BY <2>1, <2>2, <2>3 DEF OwnKinds, Answers
  <2>5. OneAsk'
    BY <2>1, <2>2, <2>3 DEF OneAsk
  <2> QED
    BY <1>0, <2>1, <2>4, <2>5
<1>2. ASSUME NEW p \in Posts, (\E s \in Statuses : PostState(p, s)) \/ PostMatches(p) \/ PostGoesOn(p)
      PROVE  OwnKinds' /\ WorkerHas' /\ OneAsk'
  <2>1. /\ pc[p] \in {"new"} \cup Looks /\ UNCHANGED <<worker, playing>>
        /\ \A u \in Threads : u # p => pc'[u] = pc[u] /\ kind'[u] = kind[u]
    BY <1>2 DEF PostState, PostMatches, PostGoesOn, workerVars
  <2>2. \/ pc'[p] \in Looks \cup {"done"}
        \/ pc'[p] \in {"test", "mark"} /\ kind'[p] \in {"notify", "done", "working"}
    BY <1>2 DEF PostState, PostMatches, PostGoesOn, NextLook, AlertFor
  <2> QED
    BY <1>0, <2>1, <2>2 DEF OwnKinds, OneAsk
<1>3. ASSUME NEW a \in Asks, AskPasses(a) \/ AskOpens(a) \/ \E ans \in Answers : AskCloses(a, ans)
      PROVE  OwnKinds' /\ WorkerHas' /\ OneAsk'
  <2>1. /\ UNCHANGED <<worker, playing>>
        /\ \A u \in Threads : u # a => pc'[u] = pc[u] /\ kind'[u] = kind[u]
        /\ pc'[a] = "done" \/ (pc'[a] = "mark" /\ kind'[a] \in Answers \cup {"pending"})
        /\ SerialFree \/ pc[a] = "shown"
    BY <1>3 DEF AskPasses, AskOpens, AskCloses, workerVars
  <2> QED
    BY <1>0, <2>1 DEF OwnKinds, OneAsk, SerialFree
<1>4. CASE AlertWorker
  <2>1. UNCHANGED <<pc, kind>>
    BY <1>4 DEF AlertWorker, AlertGets, AlertRuns, AlertPlays, AlertFails, threadVars
  <2>2. WorkerHas'
    BY <1>4 DEF AlertWorker, AlertGets, AlertRuns, AlertPlays, AlertFails, WorkerHas
  <2> QED
    BY <2>1, <2>2 DEF OwnKinds, OneAsk
<1>5. CASE UNCHANGED vars
  BY <1>0, <1>5 DEF vars, threadVars, workerVars, OwnKinds, OneAsk
<1> QED
  BY <1>1, <1>2, <1>3, <1>4, <1>5 DEF Next

-----------------------------------------------------------------------------
(* The latest alert and the latest status.                                  *)

\* A step keeps the latest alert: AlertPuts appends it, AlertGets takes from the
\* other end, and everything else leaves the queue alone.
LEMMA StepLatest == ASSUME AInv, [Next]_vars PROVE LatestIsKept'
<1> USE DEF AInv, TypeOK, LatestIsKept
<1>1. ASSUME NEW t \in Threads, AlertPuts(t) PROVE LatestIsKept'
  <2>1. kind[t] \in Kinds
    BY <1>1, KindPassed DEF AlertPuts
  <2>2. queue' = Append(queue, kind[t]) /\ lastPut' = kind[t]
    BY <1>1 DEF AlertPuts
  <2> QED
    BY <2>1, <2>2
<1>2. CASE AlertGets
  <2>1. queue # <<>> /\ playing' = Head(queue) /\ queue' = Tail(queue) /\ lastPut' = lastPut
    BY <1>2 DEF AlertGets
  <2>2. Len(queue) \in Nat \ {0} /\ Len(queue') = Len(queue) - 1
    BY <2>1
  <2>3. \A i \in 1 .. Len(queue') : queue'[i] = queue[i + 1]
    BY <2>1
  <2>4. CASE Len(queue) = 1
    BY <2>1, <2>2, <2>4
  <2>5. CASE Len(queue) > 1
    <3>1. queue'[Len(queue')] = queue[Len(queue)]
      BY <2>2, <2>3, <2>5
    <3>2. queue' # <<>>
      BY <2>2, <2>5
    <3> QED
      BY <2>1, <3>1, <3>2
  <2> QED
    BY <2>2, <2>4, <2>5
<1>3. CASE UNCHANGED <<queue, lastPut, playing>>
  BY <1>3
<1>4. ASSUME NEW t \in Threads, AlertTests(t) \/ AlertMarks(t) PROVE UNCHANGED <<queue, lastPut, playing>>
  BY <1>4 DEF AlertTests, AlertMarks, queueVars, workerVars
<1>5. ASSUME NEW p \in Posts, (\E s \in Statuses : PostState(p, s)) \/ PostMatches(p) \/ PostGoesOn(p)
      PROVE UNCHANGED <<queue, lastPut, playing>>
  BY <1>5 DEF PostState, PostMatches, PostGoesOn, queueVars, workerVars
<1>6. ASSUME NEW a \in Asks, AskPasses(a) \/ AskOpens(a) \/ \E ans \in Answers : AskCloses(a, ans)
      PROVE UNCHANGED <<queue, lastPut, playing>>
  BY <1>6 DEF AskPasses, AskOpens, AskCloses, queueVars, workerVars
<1>7. ASSUME AlertRuns \/ AlertPlays \/ \E n \in 0 .. 4 : AlertFails(n)
      PROVE UNCHANGED <<queue, lastPut, playing>>
  BY <1>7 DEF AlertRuns, AlertPlays, AlertFails, queueVars
<1>8. CASE UNCHANGED vars
  BY <1>8, <1>3 DEF vars, queueVars, workerVars
<1> QED
  BY <1>1, <1>2, <1>3, <1>4, <1>5, <1>6, <1>7, <1>8 DEF Next, Alert, AlertWorker

\* A thread that moves outside the chain, or within it before the status, leaves
\* somebody to tell the status.
LEMMA StepTell == ASSUME AInv, [Next]_vars PROVE StillToTell'
<1> USE LooksAre DEF AInv, TypeOK, Threads, Goto, SetStatus, Rank
<1>1. ASSUME NEW t \in Threads, pc[t] \notin Looks, NEW x, Goto(t, x),
             UNCHANGED <<status, posted, told>>
      PROVE StillToTell'
  <2> SUFFICES ASSUME ~told, posted, status \in Looks
               PROVE  \E p \in Posts : pc'[p] \in Looks /\ Rank[pc'[p]] <= Rank[status]
    BY <1>1 DEF StillToTell
  <2>1. PICK p \in Posts : pc[p] \in Looks /\ Rank[pc[p]] <= Rank[status]
    BY DEF StillToTell
  <2>2. p # t /\ pc'[p] = pc[p]
    BY <1>1, <2>1
  <2> QED
    BY <2>1, <2>2
<1>2. ASSUME NEW t \in Threads, Alert(t) PROVE StillToTell'
  BY <1>1, <1>2 DEF Alert, AlertTests, AlertMarks, AlertPuts
<1>3. ASSUME NEW p \in Posts, NEW s \in Statuses, PostState(p, s) PROVE StillToTell'
  <2>1. pc'[p] = "waiting"
    BY <1>3 DEF PostState
  <2>2. status' \in Looks => Rank["waiting"] <= Rank[status']
    OBVIOUS
  <2> QED
    BY <2>1, <2>2 DEF StillToTell
<1>4. ASSUME NEW p \in Posts, PostMatches(p) PROVE StillToTell'
  BY <1>4 DEF PostMatches, StillToTell
<1>5. ASSUME NEW p \in Posts, PostGoesOn(p) PROVE StillToTell'
  <2> SUFFICES ASSUME ~told, posted, status \in Looks
               PROVE  \E q \in Posts : pc'[q] \in Looks /\ Rank[pc'[q]] <= Rank[status]
    BY <1>5 DEF PostGoesOn, StillToTell
  <2>1. PICK q \in Posts : pc[q] \in Looks /\ Rank[pc[q]] <= Rank[status]
    BY DEF StillToTell
  <2>2. CASE q # p
    <3>1. pc'[q] = pc[q]
      BY <1>5, <2>2 DEF PostGoesOn
    <3> QED
      BY <2>1, <3>1
  <2>3. CASE q = p
    <3>1. pc[p] # status /\ pc[p] \in Looks /\ pc'[p] = NextLook(pc[p])
      BY <1>5 DEF PostGoesOn
    <3>2. pc'[p] \in Looks /\ Rank[pc'[p]] <= Rank[status]
      BY <2>1, <2>3, <3>1 DEF NextLook
    <3> QED
      BY <3>2
  <2> QED
    BY <2>2, <2>3
<1>6. ASSUME NEW a \in Asks, AskPasses(a) \/ AskOpens(a) \/ \E ans \in Answers : AskCloses(a, ans)
      PROVE StillToTell'
  <2>1. ~posted'
    BY <1>6, AlertsAssumption DEF AskPasses, AskOpens, AskCloses
  <2> QED
    BY <2>1 DEF StillToTell
<1>7. CASE AlertWorker \/ UNCHANGED vars
  <2>1. UNCHANGED <<status, posted, told, pc>>
    BY <1>7 DEF AlertWorker, AlertGets, AlertRuns, AlertPlays, AlertFails, vars, threadVars
  <2> QED
    BY <2>1 DEF StillToTell
<1> QED
  BY <1>2, <1>3, <1>4, <1>5, <1>6, <1>7 DEF Next

-----------------------------------------------------------------------------
(* The red light.                                                           *)

LEMMA RedAppend ==
  ASSUME NEW s \in Seq(Kinds), NEW k \in Kinds, NEW red
  PROVE  RedAfter(Append(s, k), red) <=> IF k = "notify" THEN RedAfter(s, red) ELSE k = "pending"
<1> DEFINE t == Append(s, k)
<1>1. /\ Len(t) = Len(s) + 1 /\ Len(s) \in Nat /\ t[Len(s) + 1] = k
      /\ \A i \in 1 .. Len(s) : t[i] = s[i]
  OBVIOUS
<1>2. CASE k # "notify"
  <2>1. (\E i \in 1 .. Len(t) : t[i] = "pending" /\ \A j \in i + 1 .. Len(t) : t[j] = "notify")
          <=> k = "pending"
    <3>1. ASSUME NEW i \in 1 .. Len(t), \A j \in i + 1 .. Len(t) : t[j] = "notify"
          PROVE  i = Len(t)
      BY <1>1, <1>2, <3>1
    <3>2. \A j \in Len(t) + 1 .. Len(t) : t[j] = "notify"
      BY <1>1
    <3> QED
      BY <1>1, <3>1, <3>2
  <2>2. \E i \in 1 .. Len(t) : t[i] # "notify"
    BY <1>1, <1>2
  <2> QED
    BY <1>2, <2>1, <2>2 DEF RedAfter
<1>3. CASE k = "notify"
  <2>1. (\E i \in 1 .. Len(t) : t[i] # "notify") <=> \E i \in 1 .. Len(s) : s[i] # "notify"
    BY <1>1, <1>3
  <2>2. ASSUME NEW i \in 1 .. Len(s)
        PROVE  (\A j \in i + 1 .. Len(t) : t[j] = "notify") <=> \A j \in i + 1 .. Len(s) : s[j] = "notify"
    BY <1>1, <1>3
  <2>3. (\E i \in 1 .. Len(t) : t[i] = "pending" /\ \A j \in i + 1 .. Len(t) : t[j] = "notify")
          <=> \E i \in 1 .. Len(s) : s[i] = "pending" /\ \A j \in i + 1 .. Len(s) : s[j] = "notify"
    BY <1>1, <1>3, <2>2
  <2> QED
    BY <1>3, <2>1, <2>3 DEF RedAfter
<1> QED
  BY <1>2, <1>3

LEMMA RedHead ==
  ASSUME NEW s \in Seq(Kinds), s # <<>>, NEW red, NEW next,
         next <=> IF Head(s) = "notify" THEN red ELSE Head(s) = "pending"
  PROVE  RedAfter(s, red) <=> RedAfter(Tail(s), next)
<1> DEFINE t == Tail(s)
<1>1. /\ Len(s) \in Nat \ {0} /\ Len(t) = Len(s) - 1 /\ Head(s) = s[1]
      /\ \A i \in 1 .. Len(t) : t[i] = s[i + 1]
  OBVIOUS
<1>2. \A i \in 2 .. Len(s) : i - 1 \in 1 .. Len(t) /\ t[i - 1] = s[i]
  BY <1>1
<1>3. (\E i \in 1 .. Len(s) : s[i] # "notify") <=> s[1] # "notify" \/ \E i \in 1 .. Len(t) : t[i] # "notify"
  <2>1. ASSUME NEW i \in 1 .. Len(s), s[i] # "notify", s[1] = "notify"
        PROVE  \E h \in 1 .. Len(t) : t[h] # "notify"
    <3>1. i - 1 \in 1 .. Len(t) /\ t[i - 1] = s[i]
      BY <1>1, <1>2, <2>1
    <3> QED
      BY <2>1, <3>1
  <2>2. ASSUME NEW h \in 1 .. Len(t), t[h] # "notify" PROVE \E i \in 1 .. Len(s) : s[i] # "notify"
    <3>1. h + 1 \in 1 .. Len(s) /\ s[h + 1] = t[h]
      BY <1>1
    <3> QED
      BY <2>2, <3>1
  <2>3. 1 \in 1 .. Len(s)
    BY <1>1
  <2> QED
    BY <2>1, <2>2, <2>3
<1>4. ASSUME NEW i \in 1 .. Len(t)
      PROVE  (\A j \in i + 1 .. Len(t) : t[j] = "notify")
               <=> \A j \in (i + 1) + 1 .. Len(s) : s[j] = "notify"
  <2>1. ASSUME \A j \in i + 1 .. Len(t) : t[j] = "notify", NEW j \in (i + 1) + 1 .. Len(s)
        PROVE  s[j] = "notify"
    <3>1. j - 1 \in i + 1 .. Len(t) /\ t[j - 1] = s[j]
      BY <1>1, <1>2
    <3> QED
      BY <2>1, <3>1
  <2>2. ASSUME \A j \in (i + 1) + 1 .. Len(s) : s[j] = "notify", NEW j \in i + 1 .. Len(t)
        PROVE  t[j] = "notify"
    <3>1. j + 1 \in (i + 1) + 1 .. Len(s) /\ t[j] = s[j + 1]
      BY <1>1
    <3> QED
      BY <2>2, <3>1
  <2> QED
    BY <2>1, <2>2
<1>5. CASE \E i \in 1 .. Len(t) : t[i] # "notify"
  <2>1. PICK n \in 1 .. Len(t) : t[n] # "notify"
    BY <1>5
  <2>2. s[n + 1] # "notify" /\ n + 1 \in 2 .. Len(s)
    BY <1>1, <2>1
  <2>3. ~(\A j \in 2 .. Len(s) : s[j] = "notify")
    BY <2>2
  <2>4. ASSUME NEW i \in 1 .. Len(s), s[i] = "pending", \A j \in i + 1 .. Len(s) : s[j] = "notify"
        PROVE  \E h \in 1 .. Len(t) : t[h] = "pending" /\ \A j \in h + 1 .. Len(t) : t[j] = "notify"
    <3>1. i # 1
      BY <1>1, <2>3, <2>4
    <3>2. i - 1 \in 1 .. Len(t) /\ t[i - 1] = s[i] /\ i = (i - 1) + 1
      BY <1>1, <1>2, <3>1
    <3> QED
      BY <1>4, <2>4, <3>2
  <2>5. ASSUME NEW h \in 1 .. Len(t), t[h] = "pending", \A j \in h + 1 .. Len(t) : t[j] = "notify"
        PROVE  \E i \in 1 .. Len(s) : s[i] = "pending" /\ \A j \in i + 1 .. Len(s) : s[j] = "notify"
    <3>1. h + 1 \in 1 .. Len(s) /\ s[h + 1] = "pending"
      BY <1>1, <2>5
    <3> QED
      BY <1>4, <2>5, <3>1
  <2> QED
    BY <1>3, <1>5, <2>4, <2>5 DEF RedAfter
<1>6. CASE ~(\E i \in 1 .. Len(t) : t[i] # "notify")
  <2>1. \A j \in 2 .. Len(s) : s[j] = "notify"
    BY <1>2, <1>6
  <2>2. (\E i \in 1 .. Len(s) : s[i] = "pending" /\ \A j \in i + 1 .. Len(s) : s[j] = "notify")
          <=> s[1] = "pending"
    <3>1. \A i \in 1 .. Len(s) : i = 1 \/ s[i] = "notify"
      BY <1>1, <2>1
    <3>2. 1 \in 1 .. Len(s) /\ 1 + 1 = 2
      BY <1>1
    <3> QED
      BY <2>1, <3>1, <3>2
  <2> QED
    BY <1>1, <1>3, <1>6, <2>2 DEF RedAfter
<1> QED
  BY <1>5, <1>6

\* What the patterns do to the red light.
LEMMA PatternRed ==
  ASSUME NEW k \in Kinds
  PROVE  "r" \in After(k, Len(Pattern(k))) <=> IF k = "notify" THEN "r" \in lights ELSE k = "pending"
<1> DEFINE P == Pattern(k)
           Last(v) == \E i \in 1 .. Len(P) : P[i] = v /\ \A j \in i + 1 .. Len(P) : P[j].out # "r"
<1>0. "r" \in After(k, Len(P)) <=>
        \/ "r" \in lights /\ \A j \in 1 .. Len(P) : P[j].out # "r"
        \/ Last(On("r"))
  BY DEF After, Outputs
<1>1. CASE k = "notify"
  <2>1. P = <<On("vibro"), Off("vibro"), On("b")>>
    BY <1>1 DEF Pattern
  <2>2. Len(P) = 3 /\ \A j \in 1 .. 3 : P[j].out # "r"
    BY <2>1 DEF On, Off
  <2> QED
    BY <1>0, <1>1, <2>2 DEF On
<1>2. CASE k = "pending"
  <2>1. P = <<On("vibro"), Off("vibro"), On("vibro"), Off("vibro"), On("r")>>
    BY <1>2 DEF Pattern
  <2>2. Len(P) = 5 /\ P[5] = On("r")
    BY <2>1
  <2>3. \A j \in 5 + 1 .. 5 : P[j].out # "r"
    OBVIOUS
  <2> QED
    BY <1>0, <1>2, <2>2, <2>3
<1>3. CASE k \in {"allow", "deny", "done", "working"}
  <2>1. \E n \in 1 .. Len(P) : P[n] = Off("r") /\ \A i \in n .. Len(P) : P[i] # On("r")
    <3>1. CASE k = "allow"
      <4>1. P = <<Off("r"), On("g"), Off("g")>>
        BY <3>1 DEF Pattern
      <4>2. Len(P) = 3 /\ P[1] = Off("r") /\ P[2] = On("g") /\ P[3] = Off("g")
        BY <4>1
      <4>3. 1 \in 1 .. Len(P) /\ \A i \in 1 .. Len(P) : P[i] # On("r")
        BY <4>2 DEF On, Off
      <4> QED
        BY <4>2, <4>3
    <3>2. CASE k = "deny"
      <4>1. P = <<Off("r"), On("r"), Off("r"), On("r"), Off("r")>>
        BY <3>2 DEF Pattern
      <4>2. Len(P) = 5 /\ P[5] = Off("r")
        BY <4>1
      <4>3. 5 \in 1 .. Len(P) /\ \A i \in 5 .. Len(P) : P[i] # On("r")
        BY <4>2 DEF On, Off
      <4> QED
        BY <4>2, <4>3
    <3>3. CASE k = "done"
      <4>1. P = <<Off("b"), Off("r"), On("g"), Off("g")>>
        BY <3>3 DEF Pattern
      <4>2. Len(P) = 4 /\ P[2] = Off("r") /\ P[3] = On("g") /\ P[4] = Off("g")
        BY <4>1
      <4>3. 2 \in 1 .. Len(P) /\ \A i \in 2 .. Len(P) : P[i] # On("r")
        BY <4>2 DEF On, Off
      <4> QED
        BY <4>2, <4>3
    <3>4. CASE k = "working"
      <4>1. P = <<Off("b"), Off("r"), Off("g")>>
        BY <3>4 DEF Pattern
      <4>2. Len(P) = 3 /\ P[2] = Off("r") /\ P[3] = Off("g")
        BY <4>1
      <4>3. 2 \in 1 .. Len(P) /\ \A i \in 2 .. Len(P) : P[i] # On("r")
        BY <4>2 DEF On, Off
      <4> QED
        BY <4>2, <4>3
    <3> QED
      BY <1>3, <3>1, <3>2, <3>3, <3>4
  <2>2. PICK n \in 1 .. Len(P) : P[n] = Off("r") /\ \A i \in n .. Len(P) : P[i] # On("r")
    BY <2>1
  <2>3. Len(P) \in Nat
    BY <1>3 DEF Pattern
  <2>4. P[n].out = "r"
    BY <2>2 DEF Off
  <2>5. ~Last(On("r"))
    <3>1. SUFFICES ASSUME NEW i \in 1 .. Len(P), P[i] = On("r"), \A j \in i + 1 .. Len(P) : P[j].out # "r"
                   PROVE  FALSE
      OBVIOUS
    <3>2. i < n
      BY <2>2, <2>3, <3>1
    <3> QED
      BY <2>2, <2>3, <2>4, <3>1, <3>2
  <2> QED
    BY <1>0, <1>3, <2>4, <2>5
<1> QED
  BY <1>1, <1>2, <1>3 DEF Kinds, Answers

\* alert() at work, and the others.
LEMMA StepRed == ASSUME AInv, [Next]_vars PROVE RedIsDue'
<1> USE LooksAre, AlertsAssumption DEF AInv, TypeOK, Threads, Goto, SetStatus
<1>0. ASSUME UNCHANGED <<queue, worker, playing, lights, since, lost>>,
             \A a \in Asks : Engaged(a)' <=> Engaged(a)
      PROVE  RedIsDue'
  <2>1. UNCHANGED RedAfter(queue, RedNext)
    BY <1>0 DEF RedAfter, RedNext
  <2> QED
    BY <1>0, <2>1 DEF RedIsDue
<1>1. ASSUME NEW t \in Threads, AlertTests(t) \/ AlertMarks(t) PROVE RedIsDue'
  <2>1. UNCHANGED <<queue, worker, playing, lights, since, lost, kind>>
    BY <1>1 DEF AlertTests, AlertMarks, queueVars, workerVars
  <2>2. ASSUME NEW a \in Asks PROVE Engaged(a)' <=> Engaged(a)
    BY <1>1, <2>1 DEF AlertTests, AlertMarks, Engaged, OwnKinds
  <2> QED
    BY <1>0, <2>1, <2>2
<1>2. ASSUME NEW t \in Threads, AlertPuts(t) PROVE RedIsDue'
  <2>1. /\ kind[t] \in Kinds /\ queue' = Append(queue, kind[t])
        /\ UNCHANGED <<worker, playing, lights, lost, kind>>
        /\ since' = IF kind[t] = "pending" THEN {} ELSE since \cup {kind[t]}
        /\ pc[t] = "put" /\ pc'[t] = IF kind[t] = "pending" THEN "shown" ELSE "done"
        /\ \A u \in Threads : u # t => pc'[u] = pc[u]
    BY <1>2, KindPassed DEF AlertPuts, workerVars
  <2>2. (RedNext' <=> RedNext) /\ UNCHANGED RedNext
    BY <2>1 DEF RedNext
  <2>3. RedAfter(queue, RedNext)' <=> IF kind[t] = "notify" THEN RedAfter(queue, RedNext) ELSE kind[t] = "pending"
    <3>1. RedAfter(Append(queue, kind[t]), RedNext) <=>
            IF kind[t] = "notify" THEN RedAfter(queue, RedNext) ELSE kind[t] = "pending"
      BY <2>1, RedAppend
    <3>2. RedAfter(queue, RedNext)' = RedAfter(Append(queue, kind[t]), RedNext)
      BY <2>1, <2>2 DEF RedAfter
    <3> QED
      BY <3>1, <3>2
  <2>4. \A a \in Asks : a # t => (Engaged(a)' <=> Engaged(a))
    BY <2>1 DEF Engaged
  <2>5. CASE t \in Posts
    <3>1. kind[t] \in {"notify", "done", "working"} /\ t \notin Asks
      BY <2>1, <2>5 DEF OwnKinds
    <3> QED
      BY <2>1, <2>3, <2>4, <3>1 DEF RedIsDue
  <2>6. CASE t \in Asks /\ kind[t] = "pending"
    <3>1. Engaged(t)' /\ since' = {} /\ RedAfter(queue, RedNext)'
      BY <2>1, <2>3, <2>6 DEF Engaged
    <3> QED
      BY <2>6, <3>1 DEF RedIsDue
  <2>7. CASE t \in Asks /\ kind[t] # "pending"
    <3>1. ~Engaged(t)' /\ ~RedAfter(queue, RedNext)'
      BY <2>1, <2>3, <2>7 DEF Engaged, OwnKinds, Answers
    <3>2. \A a \in Asks : a # t => ~Engaged(a)
      BY <2>1, <2>7 DEF OneAsk, Engaged
    <3> QED
      BY <2>4, <3>1, <3>2 DEF RedIsDue
  <2> QED
    BY <2>5, <2>6, <2>7
<1>3. ASSUME NEW p \in Posts, (\E s \in Statuses : PostState(p, s)) \/ PostMatches(p) \/ PostGoesOn(p)
      PROVE  RedIsDue'
  <2>1. /\ UNCHANGED <<queue, worker, playing, lights, since, lost>>
        /\ \A u \in Threads : u # p => pc'[u] = pc[u] /\ kind'[u] = kind[u]
    BY <1>3 DEF PostState, PostMatches, PostGoesOn, queueVars, workerVars
  <2>2. \A a \in Asks : a # p /\ (Engaged(a)' <=> Engaged(a))
    BY <2>1 DEF Engaged
  <2> QED
    BY <1>0, <2>1, <2>2
<1>4. ASSUME NEW a \in Asks, AskPasses(a) \/ AskOpens(a) \/ \E ans \in Answers : AskCloses(a, ans)
      PROVE  RedIsDue'
  <2>1. /\ UNCHANGED <<queue, worker, playing, lights, since, lost>>
        /\ \A u \in Threads : u # a => pc'[u] = pc[u] /\ kind'[u] = kind[u]
    BY <1>4 DEF AskPasses, AskOpens, AskCloses, queueVars, workerVars
  <2>2. Engaged(a)' <=> Engaged(a)
    BY <1>4 DEF AskPasses, AskOpens, AskCloses, Engaged, Answers
  <2>3. \A b \in Asks : Engaged(b)' <=> Engaged(b)
    BY <2>1, <2>2 DEF Engaged
  <2> QED
    BY <1>0, <2>1, <2>3
<1>5. CASE AlertGets
  <2>1. /\ queue # <<>> /\ queue' = Tail(queue) /\ playing' = Head(queue) /\ worker' = "drain"
        /\ UNCHANGED <<lights, since, pc, kind>>
        /\ ~lost' => ~lost /\ worker = "idle"
    BY <1>5 DEF AlertGets, threadVars
  <2>2. ASSUME worker = "idle"
        PROVE  RedNext' <=> IF Head(queue) = "notify" THEN RedNext ELSE Head(queue) = "pending"
    BY <2>1, <2>2 DEF RedNext
  <2>3. ASSUME worker = "idle" PROVE RedAfter(queue, RedNext) <=> RedAfter(queue, RedNext)'
    <3>1. RedAfter(queue, RedNext) <=> RedAfter(Tail(queue), RedNext')
      BY <2>1, <2>2, <2>3, RedHead
    <3>2. RedAfter(queue, RedNext)' = RedAfter(Tail(queue), RedNext')
      BY <2>1 DEF RedAfter
    <3> QED
      BY <3>1, <3>2
  <2>4. \A a \in Asks : Engaged(a)' <=> Engaged(a)
    BY <2>1 DEF Engaged
  <2> QED
    BY <2>1, <2>3, <2>4 DEF RedIsDue
<1>6. CASE AlertRuns \/ AlertPlays
  <2>1. /\ UNCHANGED <<queue, since, pc, kind, lost, playing>>
        /\ worker \in {"drain", "run"}
    BY <1>6 DEF AlertRuns, AlertPlays, threadVars, queueVars
  <2>2. RedNext' <=> RedNext
    <3>1. CASE AlertRuns
      BY <3>1 DEF AlertRuns, RedNext
    <3>2. CASE AlertPlays
      <4>1. "r" \in lights' <=> IF playing = "notify" THEN "r" \in lights ELSE playing = "pending"
        BY <2>1, <3>2, PatternRed DEF AlertPlays, WorkerHas
      <4> QED
        BY <2>1, <3>2, <4>1 DEF AlertPlays, RedNext
    <3> QED
      BY <1>6, <3>1, <3>2
  <2>3. RedAfter(queue, RedNext)' <=> RedAfter(queue, RedNext)
    BY <2>1, <2>2 DEF RedAfter
  <2>4. \A a \in Asks : Engaged(a)' <=> Engaged(a)
    BY <2>1 DEF Engaged
  <2> QED
    BY <2>1, <2>3, <2>4 DEF RedIsDue
<1>7. CASE \E n \in 0 .. 4 : AlertFails(n)
  BY <1>7 DEF AlertFails, RedIsDue
<1>8. CASE UNCHANGED vars
  <2>1. \A a \in Asks : Engaged(a)' <=> Engaged(a)
    BY <1>8 DEF vars, threadVars, Engaged
  <2> QED
    BY <1>0, <1>8, <2>1 DEF vars, queueVars, workerVars
<1> QED
  BY <1>1, <1>2, <1>3, <1>4, <1>5, <1>6, <1>7, <1>8 DEF Next, Alert, AlertWorker

-----------------------------------------------------------------------------
LEMMA Invariant == Spec => []AInv
<1>1. AInv /\ [Next]_vars => AInv'
  BY StepTypes, StepOwn, StepLatest, StepTell, StepRed DEF AInv
<1> QED
  BY InitAInv, <1>1, PTL DEF Spec

\* The variables keep their types: alert() is only called with alerts that have
\* a pattern.
THEOREM AlertsTypeCorrect == Spec => []TypeOK
  BY Invariant, PTL DEF AInv

\* However the threads interleave with alert_worker, it ends with the alert
\* that was queued last.
THEOREM LatestIsPlayedCorrect == Spec => []LatestIsPlayed
<1>1. AInv => LatestIsPlayed
  BY DEF AInv, LatestIsKept, LatestIsPlayed, Quiet
<1> QED
  BY <1>1, Invariant, PTL

\* The status that was posted last is announced, although do_POST reads it
\* piece by piece and without cond.
THEOREM LastStatusIsToldCorrect == Spec => []LastStatusIsTold
<1>1. AInv => LastStatusIsTold
  BY LooksAre DEF AInv, StillToTell, LastStatusIsTold, Settled, Threads, TypeOK
<1> QED
  BY <1>1, Invariant, PTL

\* As long as no alert is lost, the red light tells of a pending ask, whatever the
\* threads and alert_worker interleave: it is never on without one, and on with one
\* that other sessions have not announced anything over.
THEOREM RedTellsCorrect == Spec => []RedTells
<1>1. ASSUME AInv, Settled, Quiet, ~lost
      PROVE  "r" \in lights <=> Shown /\ since \cap {"done", "working"} = {}
  <2>1. RedAfter(queue, RedNext) <=> "r" \in lights
    BY <1>1 DEF Quiet, RedAfter, RedNext
  <2>2. Shown <=> \E a \in Asks : Engaged(a)
    BY <1>1 DEF Settled, Shown, Engaged, Threads
  <2> QED
    BY <1>1, <2>1, <2>2 DEF AInv, RedIsDue
<1>2. AInv => RedTells
  BY <1>1 DEF RedTells
<1> QED
  BY <1>2, Invariant, PTL

=============================================================================
