CONSTANTS
  Units <- OpenEnded
  Chapters <- MCChapters
SPECIFICATION Spec
PROPERTY CallerLoopEnds
