CONSTANTS
  NUM_TERMS <- MCNumTerms
  BootLines <- MCBootLines
SPECIFICATION Spec
INVARIANT
  MaskMatchesHandler
  InServiceOnReturn
PROPERTY
  EveryIrqServed
