CONSTANTS
  a = a
  b = b
  c1 = c1
  c2 = c2
  r1 = r1
  r2 = r2
  plain = plain
  gpu = gpu
  few = few
  many = many
  cli = cli
  Variants = {a, b}
  Latest = 2
  NoSide = NoSide
  Garbled = Garbled
  NoVariant = NoVariant
  Found <- MCFound
  MaxEvents = 3
  Callers = {c1, c2}
  Removers = {r1, r2}
  Choices <- MCChoices
  Default <- MCDefault
  CliKnobs = cli
  Unset = Unset
  NoFactory = NoFactory
SPECIFICATION FairSpec
INVARIANTS
  InstalledIsTold
  InstalledIsServed
PROPERTIES
  InstalledIsKept
CHECK_DEADLOCK FALSE
