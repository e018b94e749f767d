\* The entities of an overheard display.
SPECIFICATION Spec
CONSTANTS
  None = None
  Installations <- MCFollowInstallations
PROPERTIES
  EntitiesFollowInverter
