SPECIFICATION PageSpec

CONSTANTS
  Shell = Shell
  Boundaries = {b1, b2}
  Statuses = {200}
  MaxClicks = 2

INVARIANTS
  NoErrorIsLost
  ClicksSwitch

PROPERTIES
  RendersEnd
  ChoiceIsKept
  ConfirmationsEnd
