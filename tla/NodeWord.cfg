CONSTANTS
  Addr = {2, 6}
  WordMod = 8
SPECIFICATION Spec
PROPERTIES WordsFaithful
