SPECIFICATION MCSpec
CONSTANTS
  Main = main
  Task = {t1}
  StepModes = {"Over"}
  EntryStops = {TRUE, FALSE}
  Throwing = {}
  Filters = {}
  MaxRequests = 1
  Uri = {a}
  Content = {x1, x2}
  NoText = NoText
  Error = Error
  Faulty = {x2}
  Workspace = {}
  OnSave = FALSE
  MaxCache = 1
  MaxMessages = 4
  Caller = {h1, h2}
  HasToken = {h2}
  Value = {v1}
  Nil = Nil
  Capacity = 1
  max_channel_queue_size = 2
CHECK_DEADLOCK FALSE
PROPERTIES SessionTerminates SessionDisconnects SessionPauses AnalysisCatchesUp CallsReturn
