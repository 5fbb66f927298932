SPECIFICATION Spec
CONSTANTS
  i1 = i1
  i2 = i2
  Manual = Manual
  Issues = {i1, i2}
  Mapped = {i1}
  Publishable = {i1}
  MaxSends <- TwiceOnce
  MaxManual = 1
  MaxToggles = 2
  MaxStops = 1
INVARIANTS
  TypeOK
  OneJobPerTicket
  ConsentAtIntake
  AnsweredTicketHasJob
PROPERTIES
  ImplementsTicketWorkflow
  AnsweredTicketsSettle
CHECK_DEADLOCK FALSE
