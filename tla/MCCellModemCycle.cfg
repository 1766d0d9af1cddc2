SPECIFICATION Spec
CONSTANTS
  Tower = {a, b}
  NoTower = none
  Boot = 2
  Searches = {3, 4}
  Retry = 5
  Send = 1
  MaxMoves = 4
  MaxSends = 1
PROPERTIES
  OnlyKicksDetach
