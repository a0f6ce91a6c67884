SPECIFICATION Spec
CONSTANTS
  btc = btc
  eth = eth
  s1 = s1
  l1 = l1
  s2 = s2
  NoOB = NoOB
  Assets = {btc, eth}
  OBs = {s1, l1, s2}
  AssetOf <- MCAssetOf
  Zone <- MCZone
  Modes = {"FIRST_TOUCH_WINDOW", "C_PROBE_PULLBACK"}
  Window = 2
  Hold = 2
  MaxHours = 5
INVARIANT AdmissionsNeverDisagree
CHECK_DEADLOCK FALSE
