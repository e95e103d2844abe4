\* A page and a widget follow a generation, and a page and a widget a simulation;
\* three mishaps each: lost answers, drops, reloads, restarts.
SPECIFICATION MCSpec
CONSTANTS
  p = p  w = w
  Viewers = {p, w}
  Pages = {p}
  MaxReconnect = 1
  MaxProgress = 1
  MaxMishaps = 3
  SimPages = {p}
  Widgets = {w}
  MaxRetries = 1
  SimProgress = 2
INVARIANTS StudioTypeOK DoneIsStored FailureIsFinal StreamEndsWithVerdict ShownIsTrue
PROPERTIES ViewersSettle PagesSettle
CHECK_DEADLOCK FALSE
