CONSTANTS
  ModuleTitles = {m1, m2, m3}
  CxiModules = {m1, m2}
  AppTitles = {a1}
  Launchers = {l1, l2}
  Handles = {h1, h2}
  NoTitle = NoTitle
  Overlap = TRUE
SPECIFICATION LoaderSpec
INVARIANT LoadsWhatItWasOpenedFrom
CHECK_DEADLOCK FALSE
