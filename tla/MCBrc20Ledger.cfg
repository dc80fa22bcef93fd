CONSTANTS
  Ticks = {ordi}
  LongTicks = {}
  Wallets = {alice, refund}
  Prog = prog
  Burn = burn
  Swap = swap
  Refund = refund
  Fee = fee
  Inscriptions = {i1, i2}
  Unborn = unborn
  MaxAmount = 2
  Width = 4
  ProgEnabled = TRUE
  PhaseOne = 0
  AllTickers = 1
  RefundHeight = 1
  MaxHeight = 1
SYMMETRY InscriptionSymmetry
CONSTRAINT FullSupply
SPECIFICATION Spec
INVARIANTS TypeOK SupplyConserved EscrowBacked ProgSolvent SpendableIffUnspent
PROPERTIES ChangesAreRecorded SwapEmptied
CHECK_DEADLOCK FALSE
