CONSTANTS
  Selected = {"vcpi", "vds", "device", "vdma"}
  MaxHeld = 1
  VerifyMasks = TRUE
  Clients = {"a", "b"}
  PoolPages = {"p", "q", "r"}
  MaxMem4K = 2
  MaxNest = 2
  Frames = {"f", "g"}
  Host = "jemm"
  Features <- Cpus
  Counts = {0, 4, 5, 15, 16, 24, 32}
  Values = {0, 1, 2, 255}
SPECIFICATION Spec
INVARIANTS TypesOK SwitchWhole RegionsHonest TransferRight SwitchesAgree
