CONSTANTS
  Asks = {a1, a2}
  Pollers = {p1}
  NoAsk = NoAsk
  AskTimeout = 2
  HookTimeout = 5
  Stale = 2
  MaxWait = 1
  WaitSlice = 1
  CallLimit = 1
  Strict = FALSE
  CloudUrl = FALSE
  MaxVersion = 3
  MaxCrashes = 1
SPECIFICATION FairSpec
INVARIANTS TypeOK OneAskAtATime HeldPollIsOnline AnsweredInTime
PROPERTIES AnswerStands ReplyIsThePress ShownChangesBump PressEndsTheAsk EveryAskAnswered ImplementsGate
