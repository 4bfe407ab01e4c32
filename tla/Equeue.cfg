SPECIFICATION Spec
CONSTANTS
  w1 = w1  w2 = w2  h1 = h1
  Waiter = {w1, w2}
  Poller = {w1}
  UserEvent = UserEvent  TimerEvent = TimerEvent  HrTimerEvent = HrTimerEvent
  Event = {UserEvent, TimerEvent, HrTimerEvent}
  Filter <- MCFilter
  Adds <- MCAdds
  SmallTimer = {h1}
  NoEvent = NoEvent
  Nums = {1, 3}
  MaxEvents = 2
  MaxCalls = 1
INVARIANTS
  NoStrandedWaiter
  TimerKept
