\* Three commands in all, two of them at a time, and what one opens.
SPECIFICATION FairSpec
CONSTANTS
  c1 = c1
  c2 = c2
  NONE = NONE
  Commands = {c1, c2}
  Resolvers = {"openurl"}
  Gateways = {"proxy"}
  Malformed = {"garbled"}
  Secure = {"zotero.org", "localhost", "mine"}
  Texts <- MCTexts
  Words <- MCWords
  InitAnswers <- MCInitAnswers
  SetupAnswers <- MCSetupAnswers
  Files <- MCFiles
  Environments <- MCEnvironments
  Links <- MCLinks
  MaxCommands = 3
  MaxHops = 4
INVARIANTS
  SettingsKept
  RunsByPrecedence
  ProfileBuilds
  OpensTrusted
PROPERTIES
  AccessEnds
CHECK_DEADLOCK FALSE
