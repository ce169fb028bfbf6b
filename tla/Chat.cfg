\* Four requests of any kind, two of them at a time.  A reply of 3 is past the cap
\* and is cut to 2 with a mark of 1: the budget holds two turns of which one has a
\* long reply, and not two with long ones.
SPECIFICATION Spec
CONSTANTS
  MaxCalls = 4
  MaxOpen = 2
  Ops = {"chat", "create", "summarize", "update", "delete"}
  Gap = 0
  Asked = {1}
  Sizes = {1, 3}
  MaxTurns = 2
  Budget = 6
  Cap = 2
  Mark = 1
INVARIANTS ConversationsHold AlternatesUndisturbed
PROPERTIES HistoryIsRecentTalk
CHECK_DEADLOCK FALSE
