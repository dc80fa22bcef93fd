SPECIFICATION Spec
CONSTANTS
  Txs <- MCTxs
  Coinbases <- MCCoinbases
  Genesis <- MCGenesis
  Subsidy = 1
  MaxHeight = 2
  MaxTx = 2
  Jubilee = 2
  Limit = 2
INVARIANTS OnSat FirstMovesTold OneBlessed
CHECK_DEADLOCK FALSE
