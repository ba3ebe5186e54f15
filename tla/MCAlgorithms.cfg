SPECIFICATION AlgorithmsSpec
CONSTANTS
  Tasks <- AllTasks
  ChunkMax = 6
  Overlap = 3
  TopK = 3
  PromptMax = 2
  RrfK = 2
  LexLimit = 2
  BatchSize = 3
INVARIANTS
  ChunkingSound
  RetrievalSound
  QuizSound
  ProgramSound
  MetricsSound
CHECK_DEADLOCK FALSE
