SPECIFICATION DriversSpec
CONSTANTS
  vin = vin
  vout = vout
  temp = temp
  pini = pini
  dout = dout
  bare = bare
  act = act
  mach = mach
  c1 = c1
  c2 = c2
  d1 = d1
  PVs = {vin, vout, temp, pini, dout, bare, act}
  Temperature = temp
  TemperaturePINI = pini
  Square = act
  Devices = {d1}
  Systems = {c1, c2}
  Kind <- KindOf
  Type <- TypeOf
  Initialized = {dout, act}
  Asked <- AskedOf
  Scans <- ScansOf
  MaxStores = 2
  Unset = Unset
  Nobody = Nobody
INVARIANT ReadsAreCurrent
