CONSTANTS
  c1 = c1
  c2 = c2
  c3 = c3
  Client <- MCClient
SPECIFICATION Spec
PROPERTY FiresOnlyWhenIdle
