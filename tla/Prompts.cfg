SPECIFICATION FairSpec
CONSTANTS
  Callers = {c1, c2}
  MaxRequests = 3
  Actions = {go, other}
  go = go
  other = other
  c1 = c1
  c2 = c2
  Delayed = go
  Dismissed = Dismissed
  Unset = Unset
  NoCaller = NoCaller
INVARIANTS QueueIsServed AnswerIsThePick
PROPERTIES NoFocusForDestroyed EndedPromptsAnswered
CHECK_DEADLOCK FALSE
