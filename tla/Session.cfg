\* One shell with three commands and the detach at the end of each attach.
SPECIFICATION FairSpec
CONSTANTS
  c1 = c1
  c2 = c2
  Clients <- OneClient
  Typed <- Kinds
  MaxSent <- Three
  MaxDown = 2
INVARIANTS
  SessionInv
  Synchronised
  DropsNeedHaste
PROPERTIES
  PromptReturns
  ServesInOrder
