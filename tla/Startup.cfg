SPECIFICATION Spec
CONSTANTS
  Given <- MCGiven
  Specs <- MCSpecs
  Names <- MCNames
  Terms256 <- MCTerms256
  Terms16 <- MCTerms16
  TruecolorPrograms <- MCPrograms
  TruecolorNames <- MCTruecolorNames
  Utf8Locales <- MCUtf8
  LatinLocales <- MCLatin
  Channel <- MCChannel
  MaxEntries = 3
  Tags <- MCTags
INVARIANTS
  ScriptsThenFlags
  ReleasedOnce
  OutputAsConfigured
