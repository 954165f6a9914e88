SPECIFICATION FairSpec
CONSTANTS
  imported = imported
  captured = captured
  Session = {imported, captured}
  Exact = {imported}
  Times <- FrameTimes
  Stride = {1}
  None = None
  Live = Live
  Scenario = Scenario
PROPERTIES ShowsWhatWasAsked PlaybackEnds WaitingEnds
