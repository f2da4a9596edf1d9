SPECIFICATION Spec
CONSTANTS
  Scripts <- CutScripts
  Words <- MCWords
  Formats <- AllFormats
  CharsPerDelta = 3
INVARIANT TextIntact
