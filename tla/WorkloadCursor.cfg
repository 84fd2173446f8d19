CONSTANTS
  Compositions <- MCCompositions
SPECIFICATION CursorSpec
PROPERTIES
  IsAccessStream
