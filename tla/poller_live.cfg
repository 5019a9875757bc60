CONSTANTS
  a = a  b = b
  None = None
  Clients = {a}
  Secret = {a}
  UseCache = TRUE
  Reloaders = {a}
  Getters = {a}
  MaxVersion = 2
SPECIFICATION FairSpec
PROPERTIES GettersReturn ReloadReturns CloseReturns
