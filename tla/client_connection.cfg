\* A page with a stream and a request; the server stops twice and a socket breaks.
SPECIFICATION FairSpec
CONSTANTS
  Main = Main
  s1 = s1
  r1 = r1
  Streams = {s1}
  Requests = {r1}
  MaxTries = 2
  MaxStops = 2
  MaxBreaks = 1
INVARIANTS
  HandlerFedOnce
  DisposedIsSilent
PROPERTIES
  PageReturns
  LostStreamsEnd
CHECK_DEADLOCK FALSE
