\* Two sites, one mishap of any kind, a save of a value with brackets among them, any
\* number of starts, edits and saves.
SPECIFICATION SettingsSpec
CONSTANTS
  sites <- MCSites
  Typed <- MCTyped
  TypedSecrets <- MCSecrets
  Visited <- MCVisited
  Folders = {"[directory]"}
  Old <- MCOld
  MaxMishaps = 1
INVARIANTS
  SavedIsLoaded
  OnlyEntered
PROPERTIES
  LoadCompletes
