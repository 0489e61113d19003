CONSTANTS
  Word <- AllWords
  Sources <- AllSources
  Texts <- AllTexts
SPECIFICATION FairSpec
INVARIANTS
  TypeOK
  BlocksNest
  BlocksFollowIndentation
  FaultsFound
  TextReturned
  RoundTrip
  HiddenApart
PROPERTY ReadingEnds
