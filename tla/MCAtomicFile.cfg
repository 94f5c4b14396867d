SPECIFICATION FileSpec
CONSTANTS
  Contents = {d1, d2, d3}
  Missing = Missing
  Torn = Torn
PROPERTIES ImplementsRegister SoundPrimaryIsKept
