CONSTANTS
  t1 = t1
  t2 = t2
  t3 = t3
  Txns = {t1, t2, t3}
  EventTypes = {"ALARM", "OTHER"}
  NoTxn = NoTxn
  Genesis <- MCGenesis
  PayloadHash <- MCPayloadHash
  ChainHash <- MCChainHash
  MaxRows = 3
SPECIFICATION Spec
SYMMETRY TxnSymmetry
INVARIANTS TypeOK ChainIntact CheckpointsHold
PROPERTIES ImplementsLog
