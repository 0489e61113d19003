CONSTANTS
  Word <- DocumentedWords
  Sources <- DocumentedSources
  Texts <- DocumentedTexts
SPECIFICATION Spec
INVARIANT ReadAsDocumented
