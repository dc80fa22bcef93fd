---------------------------- MODULE Brc20Ledger ----------------------------
(***************************************************************************)
(* The ledger of the BRC-20 indexer (modules/brc20_index): tickers,        *)
(* balances and one-shot inscriptions, as changed by generate_and_process_ *)
(* events through EventGenerator and EventProcessor while it replays the   *)
(* transfers of one block after the other.                                 *)
(*                                                                         *)
(* Every action is one transfer record of OPI-ord handled to the end:      *)
(* generator, event record, processor.  Records the indexer skips without  *)
(* touching its state are not actions.  Names, decimals and JSON are       *)
(* abstracted; amounts are u128 numbers that wrap, as in the documented    *)
(* release build.                                                          *)
(***************************************************************************)
EXTENDS Integers, FiniteSets, Functions

CONSTANTS
  Ticks,          \* tickers, lower-cased
  LongTicks,      \* those with six-byte names
  Wallets,        \* spendable pkscripts
  Prog,           \* BRC20_PROG_OP_RETURN_PKSCRIPT
  Burn,           \* the exact script "6a"
  Swap,           \* brc20_swap_module_pkscript, also an OP_RETURN script
  Refund,         \* the script of brc20_swap_refund_address
  Fee,            \* stands for sent_as_fee: no new pkscript
  Inscriptions,   \* transfer and withdraw inscriptions
  Unborn,         \* an inscription not revealed yet
  MaxAmount,      \* MAX_AMOUNT, the largest supply
  Width,          \* 2^128
  ProgEnabled,    \* config.brc20_prog_enabled
  PhaseOne,       \* first_brc20_prog_phase_one_height
  AllTickers,     \* first_brc20_prog_all_tickers_height
  RefundHeight,   \* brc20_swap_refund_activation_height
  MaxHeight       \* bound on the number of blocks

OpReturns == {Prog, Burn, Swap}
Scripts == Wallets \cup OpReturns
Dests == Scripts \cup {Fee}
Amounts == 1 .. MaxAmount

ASSUME LedgerAssumption ==
  /\ LongTicks \subseteq Ticks
  /\ IsFiniteSet(Wallets) /\ IsFiniteSet(Inscriptions)
  /\ Refund \in Wallets
  /\ Prog # Burn /\ Prog # Swap /\ Burn # Swap
  /\ {Prog, Burn, Swap, Fee} \cap Wallets = {} /\ Fee \notin {Prog, Burn, Swap}
  /\ MaxAmount \in Nat \ {0} /\ Width \in Nat /\ MaxAmount < Width
  /\ ProgEnabled \in BOOLEAN
  /\ PhaseOne \in Nat /\ AllTickers \in Nat /\ RefundHeight \in Nat /\ MaxHeight \in Nat

VARIABLES
  tickers,      \* brc20_tickers
  overall,      \* overall_balance by ticker and pkscript
  available,    \* available_balance by ticker and pkscript
  chain,        \* what OPI-ord knows of an inscription: content, owner, place
  inscribed,    \* inscriptions with an inscribe event, recorded or stored
  moved,        \* inscriptions with a transfer event, recorded or stored
  dbInscribed,  \* those of inscribed already in table brc20_events
  dbMoved,      \* those of moved already in table brc20_events
  cached,       \* transfer events held by cached_events
  validity,     \* transfer_validity_cache
  evm,          \* what the BRC20 controller of brc20_prog holds, by ticker
  height,       \* the block being replayed
  halted        \* the run loop returned an error: the process exits

balanceVars == <<tickers, overall, available>>
eventVars == <<inscribed, moved, dbInscribed, dbMoved, cached, validity>>
vars == <<balanceVars, chain, eventVars, evm, height, halted>>

NoTicker == [deployed |-> FALSE, max |-> 0, remaining |-> 0, burned |-> 0,
             limit |-> 0, selfMint |-> FALSE]
Ticker == [deployed : BOOLEAN, max : 0 .. MaxAmount, remaining : 0 .. MaxAmount,
           burned : 0 .. Width - 1, limit : 0 .. MaxAmount, selfMint : BOOLEAN]
Revealed == [op : {"transfer", "withdraw"}, tick : Ticks, amt : Amounts,
             source : Scripts, at : Dests]

ASSUME UnbornAssumption == Unborn \notin Revealed

-----------------------------------------------------------------------------
(* u128 arithmetic of a release build.                                     *)
Minus(x, y) == IF y <= x THEN x - y ELSE Width + x - y
Plus(x, y) == IF x + y < Width THEN x + y ELSE x + y - Width

(* get_balance, change, update_balance for one pkscript of a ticker.       *)
Debit(bal, t, p, n) == [bal EXCEPT ![t][p] = Minus(@, n)]
Credit(bal, t, p, n) == [bal EXCEPT ![t][p] = Plus(@, n)]

(* brc20_prog serves ticker t: phase two has come, or phase one for        *)
(* six-byte tickers.                                                       *)
ProgLive(t) ==
  /\ ProgEnabled
  /\ height >= PhaseOne
  /\ height >= AllTickers \/ t \in LongTicks

(* Mutant: the stored transfer event is not counted.                       *)
LookupStoredInscribe(i) ==
  CASE validity[i] # "Unknown" -> validity[i]
    [] validity[i] = "Unknown" /\ i \notin dbInscribed -> "Invalid"
    [] OTHER -> "Valid"

(* get_transfer_validity: the cache, else the counts of stored events.     *)
Lookup(i) ==
  CASE validity[i] # "Unknown" -> validity[i]
    [] validity[i] = "Unknown" /\ i \notin dbInscribed -> "Invalid"
    [] validity[i] = "Unknown" /\ i \in dbInscribed /\ i \in dbMoved -> "Used"
    [] OTHER -> "Valid"

(* Mutant: cached_events is not consulted.                                 *)
AcceptsByValidity(i) == Lookup(i) = "Valid"

(* The generator accepts the spending of i: still valid and its transfer   *)
(* event is not in cached_events.                                          *)
Accepts(i) == Lookup(i) = "Valid" /\ i \notin cached

SetValidity(i, v) == validity' = [validity EXCEPT ![i] = v]

(* add_event for the transfer of i, which also caches it.                  *)
RecordMove(i) ==
  /\ moved' = moved \cup {i}
  /\ cached' = cached \cup {i}
  /\ UNCHANGED <<inscribed, dbInscribed, dbMoved>>

(* The error reaches the run loop and ends the process: what the block had *)
(* changed in memory is not flushed.                                       *)
Halt == halted' = TRUE /\ UNCHANGED <<balanceVars, chain, eventVars, evm, height>>

-----------------------------------------------------------------------------
Init ==
  /\ tickers = [t \in Ticks |-> NoTicker]
  /\ overall = [t \in Ticks |-> [p \in Scripts |-> 0]]
  /\ available = [t \in Ticks |-> [p \in Scripts |-> 0]]
  /\ chain = [i \in Inscriptions |-> Unborn]
  /\ inscribed = {} /\ moved = {} /\ dbInscribed = {} /\ dbMoved = {} /\ cached = {}
  /\ validity = [i \in Inscriptions |-> "Unknown"]
  /\ evm = [t \in Ticks |-> 0]
  /\ height = 0
  /\ halted = FALSE

(* A deploy inscription for a ticker nobody has deployed.  Six-byte names  *)
(* wait for phase one; a limit may exceed the supply.                      *)
Deploy(t, max, limit, selfMint) ==
  /\ ~halted
  /\ ~tickers[t].deployed
  /\ t \in LongTicks => height >= PhaseOne
  /\ tickers' = [tickers EXCEPT ![t] =
       [deployed |-> TRUE, max |-> max, remaining |-> max, burned |-> 0,
        limit |-> limit, selfMint |-> selfMint]]
  /\ UNCHANGED <<overall, available, chain, eventVars, evm, height, halted>>

(* Mutant: the last mint is not clipped.                                   *)
MintUnclipped(t, p, amt, child) ==
  /\ ~halted
  /\ tickers[t].deployed
  /\ tickers[t].selfMint => child
  /\ tickers[t].remaining # 0
  /\ amt <= tickers[t].limit
  /\ tickers' = [tickers EXCEPT ![t].remaining = @ - amt]
  /\ overall' = Credit(overall, t, p, amt)
  /\ available' = Credit(available, t, p, amt)
  /\ UNCHANGED <<chain, eventVars, evm, height, halted>>

(* A mint inscription revealed to pkscript p; child says that its parent   *)
(* is the deploy inscription.  The last mint is clipped to the remainder.  *)
Mint(t, p, amt, child) ==
  LET minted == IF amt > tickers[t].remaining THEN tickers[t].remaining ELSE amt IN
  /\ ~halted
  /\ tickers[t].deployed
  /\ tickers[t].selfMint => child
  /\ tickers[t].remaining # 0
  /\ amt <= tickers[t].limit
  /\ tickers' = [tickers EXCEPT ![t].remaining = @ - minted]
  /\ overall' = Credit(overall, t, p, minted)
  /\ available' = Credit(available, t, p, minted)
  /\ UNCHANGED <<chain, eventVars, evm, height, halted>>

-----------------------------------------------------------------------------
(* The reveal of inscription i to pkscript p, where it stays unless the    *)
(* reveal lost it to a miner as fee.                                       *)
Reveal(i, op, t, amt, p, place) ==
  /\ ~halted
  /\ chain[i] = Unborn
  /\ chain' = [chain EXCEPT ![i] = [op |-> op, tick |-> t, amt |-> amt,
                                    source |-> p, at |-> place]]
  /\ UNCHANGED <<tickers, overall, evm, height, halted>>

(* add_event for the inscription of i, and set_transfer_validity.          *)
RecordInscribe(i) ==
  /\ inscribed' = inscribed \cup {i}
  /\ SetValidity(i, "Valid")
  /\ UNCHANGED <<moved, dbInscribed, dbMoved, cached>>

(* brc20_transfer_inscribe: escrow amt out of the available balance.       *)
InscribeTransfer(i, t, amt, p) ==
  /\ tickers[t].deployed
  /\ available[t][p] >= amt
  /\ Reveal(i, "transfer", t, amt, p, p)
  /\ RecordInscribe(i)
  /\ available' = Debit(available, t, p, amt)

(* brc20_prog_withdraw_inscribe: no balance is looked at.                  *)
InscribeWithdraw(i, t, amt, p) ==
  /\ tickers[t].deployed
  /\ ProgEnabled
  /\ Reveal(i, "withdraw", t, amt, p, p)
  /\ RecordInscribe(i)
  /\ UNCHANGED available

(* A reveal that yields no event: as fee, of an undeployed ticker, for     *)
(* more than the available balance, or a withdraw without brc20_prog.      *)
RevealIgnored(i, op, t, amt, p, place) ==
  /\ \/ place = Fee
     \/ ~tickers[t].deployed
     \/ op = "transfer" /\ available[t][p] < amt
     \/ op = "withdraw" /\ ~ProgEnabled
  /\ Reveal(i, op, t, amt, p, place)
  /\ UNCHANGED <<available, eventVars>>

-----------------------------------------------------------------------------
(* Inscription i is spent to dest; outputs with OP_RETURN scripts cannot   *)
(* be spent.  The indexer looks at it once its ticker is deployed.         *)
Spend(i, op, dest) ==
  /\ ~halted
  /\ chain[i] # Unborn
  /\ chain[i].op = op
  /\ chain[i].at \in Wallets \cup {Fee}
  /\ tickers[chain[i].tick].deployed
  /\ chain' = [chain EXCEPT ![i].at = dest]
  /\ UNCHANGED <<height, halted>>

(* The generator declines: no inscribe event, not valid any more, or a     *)
(* transfer event already cached.  Only the validity lookup is remembered. *)
TransferDeclined(i, dest) ==
  /\ Spend(i, "transfer", dest)
  /\ ~(i \in inscribed /\ Accepts(i))
  /\ IF i \in inscribed THEN SetValidity(i, Lookup(i)) ELSE UNCHANGED validity
  /\ UNCHANGED <<balanceVars, inscribed, moved, dbInscribed, dbMoved, cached, evm>>

AcceptedTransfer(i, dest) ==
  /\ i \in inscribed
  /\ Accepts(i)
  /\ Spend(i, "transfer", dest)
  /\ RecordMove(i)

(* Mutant: the escrow is not returned.                                     *)
TransferToFeeKept(i) ==
  /\ AcceptedTransfer(i, Fee)
  /\ SetValidity(i, "Used")
  /\ UNCHANGED <<balanceVars, evm>>

(* Spent as fee: the escrow returns to the source.                         *)
TransferToFee(i) ==
  LET c == chain[i] IN
  /\ AcceptedTransfer(i, Fee)
  /\ available' = Credit(available, c.tick, c.source, c.amt)
  /\ SetValidity(i, "Used")
  /\ UNCHANGED <<tickers, overall, evm>>

(* Mutant: the burned supply is not updated.                               *)
BurnUncounted(c) ==
  /\ overall' = Debit(overall, c.tick, c.source, c.amt)
  /\ UNCHANGED <<tickers, available, evm>>

(* The overall balance shrinks and burned_supply grows.                    *)
BurnFrom(c) ==
  /\ overall' = Debit(overall, c.tick, c.source, c.amt)
  /\ tickers' = [tickers EXCEPT ![c.tick].burned = Plus(@, c.amt)]
  /\ UNCHANGED <<available, evm>>

(* Spent to "6a".                                                          *)
TransferToBurn(i) ==
  /\ AcceptedTransfer(i, Burn)
  /\ BurnFrom(chain[i])
  /\ SetValidity(i, "Used")

(* Spent to brc20_prog before it serves the ticker: burned, and the early  *)
(* return leaves the validity as looked up.                                *)
TransferToProgTooEarly(i) ==
  /\ AcceptedTransfer(i, Prog)
  /\ ~ProgLive(chain[i].tick)
  /\ BurnFrom(chain[i])
  /\ SetValidity(i, Lookup(i))

(* Mutant: the balances change only after a successful call.               *)
TransferToProgCallFirst(i, answered, executed) ==
  LET c == chain[i] IN
  /\ AcceptedTransfer(i, Prog)
  /\ ProgLive(c.tick)
  /\ answered => executed
  /\ overall' = IF answered
       THEN Credit(Debit(overall, c.tick, c.source, c.amt), c.tick, Prog, c.amt) ELSE overall
  /\ available' = IF answered THEN Credit(available, c.tick, Prog, c.amt) ELSE available
  /\ evm' = IF executed THEN [evm EXCEPT ![c.tick] = @ + c.amt] ELSE evm
  /\ SetValidity(i, IF answered THEN "Used" ELSE Lookup(i))
  /\ UNCHANGED tickers

(* Spent to brc20_prog: the module's balance grows and brc20_deposit       *)
(* credits the source in the EVM.  When the call fails the balances stay   *)
(* changed, the validity stays as looked up, and the EVM may or may not    *)
(* have executed the deposit.                                              *)
TransferToProg(i, answered, executed) ==
  LET c == chain[i] IN
  /\ AcceptedTransfer(i, Prog)
  /\ ProgLive(c.tick)
  /\ answered => executed
  /\ overall' = Credit(Debit(overall, c.tick, c.source, c.amt), c.tick, Prog, c.amt)
  /\ available' = Credit(available, c.tick, Prog, c.amt)
  /\ evm' = IF executed THEN [evm EXCEPT ![c.tick] = @ + c.amt] ELSE evm
  /\ SetValidity(i, IF answered THEN "Used" ELSE Lookup(i))
  /\ UNCHANGED tickers

(* Spent to any other script, the swap module's OP_RETURN included.        *)
TransferToScript(i, dest) ==
  LET c == chain[i] IN
  /\ dest \in Scripts \ {Prog, Burn}
  /\ AcceptedTransfer(i, dest)
  /\ overall' = Credit(Debit(overall, c.tick, c.source, c.amt), c.tick, dest, c.amt)
  /\ available' = Credit(available, c.tick, dest, c.amt)
  /\ SetValidity(i, "Used")
  /\ UNCHANGED <<tickers, evm>>

-----------------------------------------------------------------------------
AcceptedWithdraw(i, dest) ==
  /\ ProgEnabled
  /\ Accepts(i)
  /\ Spend(i, "withdraw", dest)
  /\ RecordMove(i)

(* Withdrawn to an OP_RETURN script: void, and brc20_prog is not asked.    *)
WithdrawToOpReturn(i, dest) ==
  /\ dest \in OpReturns
  /\ AcceptedWithdraw(i, dest)
  /\ SetValidity(i, "Invalid")
  /\ UNCHANGED <<balanceVars, evm>>

(* brc20_prog refuses, the source owns too little in the EVM: used up.     *)
WithdrawRefused(i, dest) ==
  /\ dest \in Wallets \cup {Fee}
  /\ AcceptedWithdraw(i, dest)
  /\ SetValidity(i, "Used")
  /\ UNCHANGED <<balanceVars, evm>>

(* Mutant: brc20_prog only checks the balance and does not burn it.        *)
WithdrawPaidUnburned(i, dest) ==
  LET c == chain[i] IN
  /\ dest \in Wallets
  /\ AcceptedWithdraw(i, dest)
  /\ evm[c.tick] >= c.amt
  /\ overall' = Credit(Debit(overall, c.tick, Prog, c.amt), c.tick, dest, c.amt)
  /\ available' = Credit(Debit(available, c.tick, Prog, c.amt), c.tick, dest, c.amt)
  /\ SetValidity(i, "Used")
  /\ UNCHANGED <<tickers, evm>>

(* brc20_prog burns the amount and the module's balance moves to dest.     *)
WithdrawPaid(i, dest) ==
  LET c == chain[i] IN
  /\ dest \in Wallets
  /\ AcceptedWithdraw(i, dest)
  /\ evm[c.tick] >= c.amt
  /\ evm' = [evm EXCEPT ![c.tick] = @ - c.amt]
  /\ overall' = Credit(Debit(overall, c.tick, Prog, c.amt), c.tick, dest, c.amt)
  /\ available' = Credit(Debit(available, c.tick, Prog, c.amt), c.tick, dest, c.amt)
  /\ SetValidity(i, "Used")
  /\ UNCHANGED tickers

(* The errors of a withdraw end the process: the generator's refusal, a    *)
(* call brc20_prog does not answer (expect), or a paid withdraw spent as   *)
(* fee, which has no target.                                               *)
WithdrawFails(i, dest) ==
  /\ ~halted
  /\ chain[i] # Unborn
  /\ chain[i].op = "withdraw"
  /\ chain[i].at \in Wallets \cup {Fee}
  /\ tickers[chain[i].tick].deployed
  /\ ProgEnabled
  /\ ~Accepts(i) \/ dest \notin OpReturns
  /\ Halt

-----------------------------------------------------------------------------
(* Mutant: the refund inscribes nothing, so nothing leaves the available   *)
(* balance of the module.                                                  *)
RefundUninscribed ==
  /\ overall' = [t \in Ticks |->
       [overall[t] EXCEPT ![Swap] = 0, ![Refund] = Plus(@, overall[t][Swap])]]
  /\ available' = [t \in Ticks |->
       [available[t] EXCEPT ![Refund] = Plus(@, overall[t][Swap])]]

(* Brc20SwapRefund at the activation height: for every ticker the whole    *)
(* overall balance of the swap module is escrowed and spent to Refund.     *)
RefundAll ==
  /\ \A t \in Ticks : available[t][Swap] >= overall[t][Swap]
  /\ overall' = [t \in Ticks |->
       [overall[t] EXCEPT ![Swap] = 0, ![Refund] = Plus(@, overall[t][Swap])]]
  /\ available' = [t \in Ticks |->
       [available[t] EXCEPT ![Swap] = Minus(@, overall[t][Swap]),
                            ![Refund] = Plus(@, overall[t][Swap])]]

(* The block ends: its events are flushed.  Before the next one the caches *)
(* may be cleared, every 1000 blocks or because the process restarted.     *)
NextBlock(clear) ==
  /\ ~halted
  /\ height < MaxHeight
  /\ height' = height + 1
  /\ dbInscribed' = inscribed
  /\ dbMoved' = moved
  /\ cached' = IF clear THEN {} ELSE cached
  /\ validity' = IF clear THEN [i \in Inscriptions |-> "Unknown"] ELSE validity
  /\ IF height + 1 = RefundHeight THEN RefundAll ELSE UNCHANGED <<overall, available>>
  /\ UNCHANGED <<tickers, chain, inscribed, moved, evm, halted>>

(* A refund the swap module cannot escrow stops the indexer.               *)
RefundFails ==
  /\ ~halted
  /\ height < MaxHeight
  /\ height + 1 = RefundHeight
  /\ \E t \in Ticks : available[t][Swap] < overall[t][Swap]
  /\ Halt

-----------------------------------------------------------------------------
Next ==
  \/ \E t \in Ticks, max \in Amounts, limit \in Amounts, selfMint \in BOOLEAN :
       Deploy(t, max, limit, selfMint)
  \/ \E t \in Ticks, p \in Scripts, amt \in Amounts, child \in BOOLEAN : Mint(t, p, amt, child)
  \/ \E i \in Inscriptions, t \in Ticks, amt \in Amounts, p \in Scripts :
       \/ InscribeTransfer(i, t, amt, p)
       \/ InscribeWithdraw(i, t, amt, p)
       \/ \E op \in {"transfer", "withdraw"}, place \in {p, Fee} :
            RevealIgnored(i, op, t, amt, p, place)
  \/ \E i \in Inscriptions :
       \/ TransferToFee(i)
       \/ TransferToBurn(i)
       \/ TransferToProgTooEarly(i)
       \/ \E answered, executed \in BOOLEAN : TransferToProg(i, answered, executed)
       \/ \E dest \in Dests :
            \/ TransferDeclined(i, dest)
            \/ TransferToScript(i, dest)
            \/ WithdrawToOpReturn(i, dest)
            \/ WithdrawRefused(i, dest)
            \/ WithdrawPaid(i, dest)
            \/ WithdrawFails(i, dest)
  \/ \E clear \in BOOLEAN : NextBlock(clear)
  \/ RefundFails

Spec == Init /\ [][Next]_vars

-----------------------------------------------------------------------------
(* Every variable has the shape of the table or cache it stands for.       *)
TypeOK ==
  /\ tickers \in [Ticks -> Ticker]
  /\ overall \in [Ticks -> [Scripts -> 0 .. Width - 1]]
  /\ available \in [Ticks -> [Scripts -> 0 .. Width - 1]]
  /\ chain \in [Inscriptions -> Revealed \cup {Unborn}]
  /\ inscribed \subseteq Inscriptions /\ moved \subseteq Inscriptions
  /\ dbInscribed \subseteq Inscriptions /\ dbMoved \subseteq Inscriptions
  /\ cached \subseteq Inscriptions
  /\ validity \in [Inscriptions -> {"Unknown", "Valid", "Used", "Invalid"}]
  /\ evm \in [Ticks -> Nat]
  /\ height \in Nat
  /\ halted \in BOOLEAN

(* The amount of ticker t that live transfer inscriptions hold for p.      *)
Escrows(t, p) ==
  [i \in Inscriptions |->
     IF /\ i \in inscribed \ moved
        /\ chain[i].op = "transfer" /\ chain[i].tick = t /\ chain[i].source = p
     THEN chain[i].amt ELSE 0]

(* No token appears or disappears: what all pkscripts own, what can still  *)
(* be minted and what was burned add up to the deployed supply, across     *)
(* mints, fee returns, burns, deposits, withdraws and the swap refund.     *)
SupplyConserved ==
  \A t \in Ticks :
    SumFunctionOnSet(overall[t], Scripts) + tickers[t].remaining + tickers[t].burned
      = tickers[t].max

(* The part of a balance that is not available is exactly what the         *)
(* unspent transfer inscriptions of its owner hold: no inscription is      *)
(* charged twice or released twice, whatever the caches forget.  The       *)
(* brc20_prog script is left out: its withdraws do not look at available.  *)
EscrowBacked ==
  \A t \in Ticks, p \in Scripts \ {Prog} :
    overall[t][p] = available[t][p] + SumFunctionOnSet(Escrows(t, p), Inscriptions)

(* The EVM never holds more of a ticker than the ledger keeps under the    *)
(* brc20_prog script, also when a deposit call failed half way.            *)
ProgSolvent == \A t \in Ticks : evm[t] <= overall[t][Prog]

(* The validity cache, the event cache and the stored events agree on what *)
(* may be spent: exactly the inscriptions with an inscribe event and no    *)
(* transfer event, before and after a cache clear or a restart.            *)
SpendableIffUnspent ==
  \A i \in Inscriptions : Accepts(i) <=> i \in inscribed \ moved

(* Within a block a pkscript gains or loses only through a mint or through *)
(* an inscription whose event is recorded in the same step for the first   *)
(* time: a repeated spend changes nothing.                                 *)
ChangesAreRecorded ==
  [][ (overall' # overall \/ available' # available) /\ height' = height
      => \/ tickers' # tickers
         \/ inscribed' # inscribed
         \/ moved' # moved ]_vars

(* At the activation height the swap module is emptied in every ticker.    *)
SwapEmptied ==
  [][ height' = RefundHeight /\ height' # height
      => \A t \in Ticks : overall'[t][Swap] = 0 /\ available'[t][Swap] = 0 ]_vars
=============================================================================
