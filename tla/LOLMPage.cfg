\* The blue captain's page, linked at any moment of a draft of two bans and one pick,
\* and the page of the result after it.
CONSTANTS
  BanCount = 1
  PickCount = 1
  Hero = {0, 1, 2}
  Tagged = {1}
  myTeam = 0
  Watched = {1}
  MaxTexts = 2
  MaxLoads = 1
SPECIFICATION OutSpec
\* The page is left, or its connection lost, and the draft is over.
CHECK_DEADLOCK FALSE
INVARIANTS
  IconsTrue
  OfferIsLegal
  PictureTrue
  SyncNewest
PROPERTIES
  CatchesUp
  ResultShown
