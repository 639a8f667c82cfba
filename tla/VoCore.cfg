SPECIFICATION Spec
CONSTANTS
  None = None
  Uses = {{"done", "seek"}, {"redraw", "pause"}, {"wish"}}
  Delays = {0, 1, 2}
  MaxVsyncs = 2
INVARIANTS
  TypeOK
  ThreadsAgree
  PictureIsCurrent
CHECK_DEADLOCK FALSE
