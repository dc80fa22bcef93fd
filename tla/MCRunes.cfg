SPECIFICATION Spec
CONSTANTS
  U32 = 4
  U64 = 8
  U128 = 32
  Txs <- MCTxs
  MaxHeight = 2
  MaxTx = 1
  MaxOutputs = 2
  MaxInputs = 2
  FirstRuneHeight = 0
  Interval = 1
  Letters = 1
  Reserved = 14
INVARIANTS TypeOK Conserved NoPanic NamesUnique EventsBalance RoundTrip
PROPERTY CenotaphBurns
CHECK_DEADLOCK FALSE
