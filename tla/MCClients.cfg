\* ACP, full-screen and line client, one-shot output, web pages.
SPECIFICATION Spec
CONSTANTS
  Off = Off
  a1 = a1
  a2 = a2
SYMMETRY Symmetry
CHECK_DEADLOCK FALSE
INVARIANTS
  AcpSound
  ScreensSound
PROPERTIES
  CancelIsFinal
