SPECIFICATION SubmitSpec
CONSTANTS
  btc = btc
  eth = eth
  s1 = s1
  l1 = l1
  s2 = s2
  NoOB = NoOB
  Assets = {btc, eth}
  OBs = {s1, l1, s2}
  AssetOf <- MCAssetOf
  Zone <- MCZone
  Modes = {"FIRST_TOUCH_WINDOW", "C_PROBE_PULLBACK"}
  Window = 2
  Hold = 2
  MaxHours = 5
  Traded = {s1, l1}
  MaxTasks = 2
INVARIANTS
  TypeOK
  SlotMirrorsTrade
  GatesAgree
  EntriesInsideWindow
  NoReentryWithinACandle
  WindowsClose
  OffersAreSound
  RestingEntriesAreWanted
PROPERTY NoExitOnFillCandle
CHECK_DEADLOCK FALSE
