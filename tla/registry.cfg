CONSTANTS
  k0 = k0
  k1 = k1
  m1 = m1
  m2 = m2
  m3 = m3
  ck = ck
  ca = ca
  u1 = u1
  core = core
  own = own
  None = None
  Mods <- MCMods
  Core = {k0}
  Files = {m3}
  Classes = {ck, ca}
  ClassOf <- MCClassOf
  NameOf <- MCNameOf
  Names = {core, own}
  Commands <- MCCommands
  Watchers <- MCWatchers
  RawHandlers <- MCRawHandlers
  Looping = {k0, m1, m2}
  Unloads = {u1}
  MaxLoads = 4
SPECIFICATION FairSpec
INVARIANTS
  TypeOK
  OneOfEach
  LoopsLeft
  CoreKept
  StuffRemoved
PROPERTIES
  Settles
