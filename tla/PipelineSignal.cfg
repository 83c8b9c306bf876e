CONSTANTS
  Event = Event
  NoEvent = NoEvent
  Capacity = 2
  MaxEvents = 4
SPECIFICATION HelpfulSpec
PROPERTY SignalLeadsToExit
