SPECIFICATION PlaybackSpec
CONSTANTS
  Media = {"video", "audio"}
  Source <- AnySource
  Capacity = 1
  MaxCalls = 2
INVARIANTS PlaybackTypeOK BufferingAnnounced PausedForAReason NothingAfterCompletion
PROPERTIES BufferingEnds EndAnnounced StopTerminates
