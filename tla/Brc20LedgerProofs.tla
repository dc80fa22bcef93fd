------------------------- MODULE Brc20LedgerProofs -------------------------
(***************************************************************************)
(* Proofs about the BRC-20 ledger, for any number of tickers, pkscripts,   *)
(* inscriptions and blocks and for any supply below the width of u128.     *)
(***************************************************************************)
EXTENDS Brc20Ledger, TableTheorems, TLAPS

Balances == [Ticks -> [Scripts -> 0 .. Width - 1]]

(* The pkscripts of the ledger are finitely many and told apart.           *)
LEMMA ScriptFacts ==
  /\ IsFiniteSet(Scripts)
  /\ Prog \in Scripts /\ Burn \in Scripts /\ Swap \in Scripts /\ Refund \in Scripts
  /\ Prog # Burn /\ Prog # Swap /\ Prog # Refund /\ Swap # Refund
  /\ Fee \notin Scripts /\ Wallets \subseteq Scripts /\ Prog \notin Wallets
<1>1. IsFiniteSet(OpReturns)
  <2>1. IsFiniteSet({} \cup {Prog}) /\ IsFiniteSet({})
    BY FS_EmptySet, FS_AddElement
  <2>2. IsFiniteSet({Prog} \cup {Burn})
    BY <2>1, FS_AddElement
  <2>3. IsFiniteSet(({Prog} \cup {Burn}) \cup {Swap})
    BY <2>2, FS_AddElement
  <2>4. OpReturns = ({Prog} \cup {Burn}) \cup {Swap}
    BY DEF OpReturns
  <2> QED BY <2>3, <2>4
<1>2. IsFiniteSet(Wallets)
  BY LedgerAssumption
<1>3. IsFiniteSet(Scripts)
  BY <1>1, <1>2, FS_Union DEF Scripts
<1> QED BY <1>3, LedgerAssumption DEF Scripts, OpReturns

(* update_balance keeps both kinds of balances within u128.                *)
LEMMA BalanceTypes ==
  ASSUME NEW bal \in Balances, NEW t \in Ticks, NEW p \in Scripts, NEW n \in 0 .. MaxAmount
  PROVE  Debit(bal, t, p, n) \in Balances /\ Credit(bal, t, p, n) \in Balances
<1>1. \A x \in 0 .. Width - 1 : Minus(x, n) \in 0 .. Width - 1 /\ Plus(x, n) \in 0 .. Width - 1
  BY LedgerAssumption DEF Minus, Plus
<1>2. bal[t] \in [Scripts -> 0 .. Width - 1] /\ n \in 0 .. Width - 1
  BY LedgerAssumption DEF Balances
<1>3. /\ [bal[t] EXCEPT ![p] = Minus(@, n)] \in [Scripts -> 0 .. Width - 1]
      /\ [bal[t] EXCEPT ![p] = Plus(@, n)] \in [Scripts -> 0 .. Width - 1]
  BY <1>1, <1>2
<1> QED BY <1>3 DEF Debit, Credit, Balances

(* Every step keeps the shape of the tables and caches.                    *)
LEMMA TypeStep ==
  ASSUME TypeOK, [Next]_vars
  PROVE  TypeOK'
<1> USE DEF Dests
<1> DEFINE T1 == tickers' \in [Ticks -> Ticker]
           T2 == overall' \in Balances
           T3 == available' \in Balances
           T4 == chain' \in [Inscriptions -> Revealed \cup {Unborn}]
           T5 == /\ inscribed' \subseteq Inscriptions /\ moved' \subseteq Inscriptions
                 /\ dbInscribed' \subseteq Inscriptions /\ dbMoved' \subseteq Inscriptions
                 /\ cached' \subseteq Inscriptions
                 /\ validity' \in [Inscriptions -> {"Unknown", "Valid", "Used", "Invalid"}]
           T6 == evm' \in [Ticks -> Nat] /\ height' \in Nat /\ halted' \in BOOLEAN
<1>0. SUFFICES T1 /\ T2 /\ T3 /\ T4 /\ T5 /\ T6
  BY DEF TypeOK, Balances
<1>a. /\ tickers \in [Ticks -> Ticker] /\ overall \in Balances /\ available \in Balances
      /\ chain \in [Inscriptions -> Revealed \cup {Unborn}]
      /\ inscribed \subseteq Inscriptions /\ moved \subseteq Inscriptions
      /\ dbInscribed \subseteq Inscriptions /\ dbMoved \subseteq Inscriptions
      /\ cached \subseteq Inscriptions
      /\ validity \in [Inscriptions -> {"Unknown", "Valid", "Used", "Invalid"}]
      /\ evm \in [Ticks -> Nat] /\ height \in Nat /\ halted \in BOOLEAN
  BY DEF TypeOK, Balances
<1>b. \A i \in Inscriptions : Lookup(i) \in {"Unknown", "Valid", "Used", "Invalid"}
  BY <1>a DEF Lookup
<1>c. \A t \in Ticks : /\ tickers[t].remaining \in 0 .. MaxAmount
                       /\ tickers[t].burned \in 0 .. Width - 1
  BY <1>a DEF Ticker
<1>1. ASSUME NEW t \in Ticks, NEW max \in Amounts, NEW limit \in Amounts,
             NEW selfMint \in BOOLEAN, Deploy(t, max, limit, selfMint)
      PROVE  T1 /\ T2 /\ T3 /\ T4 /\ T5 /\ T6
  BY <1>a, <1>1, LedgerAssumption DEF Deploy, eventVars, Ticker, Amounts
<1>2. ASSUME NEW t \in Ticks, NEW p \in Scripts, NEW amt \in Amounts, NEW child \in BOOLEAN,
             Mint(t, p, amt, child)
      PROVE  T1 /\ T2 /\ T3 /\ T4 /\ T5 /\ T6
  <2> DEFINE minted == IF amt > tickers[t].remaining THEN tickers[t].remaining ELSE amt
  <2>1. minted \in 0 .. MaxAmount /\ tickers[t].remaining - minted \in 0 .. MaxAmount
    BY <1>c, LedgerAssumption DEF Amounts
  <2>2. /\ tickers' = [tickers EXCEPT ![t].remaining = @ - minted]
        /\ overall' = Credit(overall, t, p, minted)
        /\ available' = Credit(available, t, p, minted)
        /\ UNCHANGED <<chain, eventVars, evm, height, halted>>
    BY <1>2 DEF Mint
  <2> HIDE DEF minted
  <2>3. T1
    <3>1. [tickers[t] EXCEPT !.remaining = @ - minted] \in Ticker
      BY <1>a, <2>1 DEF Ticker
    <3> QED BY <1>a, <2>2, <3>1
  <2>4. T2 /\ T3
    BY <1>a, <2>1, <2>2, BalanceTypes
  <2> QED BY <1>a, <2>2, <2>3, <2>4 DEF eventVars
<1>3. ASSUME NEW i \in Inscriptions, NEW t \in Ticks, NEW amt \in Amounts, NEW p \in Scripts,
             NEW op \in {"transfer", "withdraw"}, NEW place \in {p, Fee},
             Reveal(i, op, t, amt, p, place)
      PROVE  T1 /\ T2 /\ T4 /\ T6
  <2>1. [op |-> op, tick |-> t, amt |-> amt, source |-> p,
         at |-> place] \in Revealed
    BY DEF Revealed
  <2> QED BY <1>a, <1>3, <2>1 DEF Reveal
<1>4. ASSUME NEW i \in Inscriptions, NEW t \in Ticks, NEW amt \in Amounts, NEW p \in Scripts,
             InscribeTransfer(i, t, amt, p)
      PROVE  T1 /\ T2 /\ T3 /\ T4 /\ T5 /\ T6
  <2>1. amt \in 0 .. MaxAmount
    BY DEF Amounts
  <2>2. T3
    BY <1>a, <1>4, <2>1, BalanceTypes DEF InscribeTransfer
  <2>3. T1 /\ T2 /\ T4 /\ T6
    BY <1>3, <1>4 DEF InscribeTransfer
  <2>4. T5
    BY <1>a, <1>4 DEF InscribeTransfer, RecordInscribe, SetValidity
  <2> QED BY <2>2, <2>3, <2>4
<1>5. ASSUME NEW i \in Inscriptions, NEW t \in Ticks, NEW amt \in Amounts, NEW p \in Scripts,
             InscribeWithdraw(i, t, amt, p)
      PROVE  T1 /\ T2 /\ T3 /\ T4 /\ T5 /\ T6
  <2>3. T1 /\ T2 /\ T4 /\ T6
    BY <1>3, <1>5 DEF InscribeWithdraw
  <2> QED BY <1>a, <1>5, <2>3 DEF InscribeWithdraw, RecordInscribe, SetValidity
<1>6. ASSUME NEW i \in Inscriptions, NEW t \in Ticks, NEW amt \in Amounts, NEW p \in Scripts,
             NEW op \in {"transfer", "withdraw"}, NEW place \in {p, Fee},
             RevealIgnored(i, op, t, amt, p, place)
      PROVE  T1 /\ T2 /\ T3 /\ T4 /\ T5 /\ T6
  <2>3. T1 /\ T2 /\ T4 /\ T6
    BY <1>3, <1>6 DEF RevealIgnored
  <2> QED BY <1>a, <1>6, <2>3 DEF RevealIgnored, eventVars
<1>7. ASSUME NEW i \in Inscriptions, NEW op \in {"transfer", "withdraw"}, NEW dest \in Dests,
             Spend(i, op, dest)
      PROVE  /\ T4 /\ height' \in Nat /\ halted' \in BOOLEAN
             /\ chain[i] \in Revealed
             /\ chain[i].tick \in Ticks /\ chain[i].source \in Scripts
             /\ chain[i].amt \in 0 .. MaxAmount
  <2>1. chain[i] \in Revealed
    BY <1>a, <1>7 DEF Spend
  <2>2. [chain[i] EXCEPT !.at = dest] \in Revealed
    BY <2>1 DEF Revealed
  <2>3. T4
    BY <1>a, <1>7, <2>2 DEF Spend
  <2>4. chain[i].tick \in Ticks /\ chain[i].source \in Scripts /\ chain[i].amt \in 0 .. MaxAmount
    BY <2>1 DEF Revealed, Amounts
  <2> QED BY <1>a, <1>7, <2>1, <2>3, <2>4 DEF Spend
<1>8. ASSUME NEW i \in Inscriptions, NEW v \in {"Unknown", "Valid", "Used", "Invalid"},
             RecordMove(i), SetValidity(i, v)
      PROVE  T5
  BY <1>a, <1>8 DEF RecordMove, SetValidity
<1>9. ASSUME NEW c \in Revealed, BurnFrom(c) PROVE T1 /\ T2 /\ T3 /\ evm' \in [Ticks -> Nat]
  <2>1. c.tick \in Ticks /\ c.source \in Scripts /\ c.amt \in 0 .. MaxAmount
    BY DEF Revealed, Amounts
  <2>2. T2 /\ T3 /\ evm' \in [Ticks -> Nat]
    BY <1>a, <1>9, <2>1, BalanceTypes DEF BurnFrom
  <2>3. Plus(tickers[c.tick].burned, c.amt) \in 0 .. Width - 1
    BY <1>c, <2>1, LedgerAssumption DEF Plus
  <2>4. T1
    <3>1. [tickers[c.tick] EXCEPT !.burned = Plus(@, c.amt)] \in Ticker
      BY <1>a, <2>1, <2>3 DEF Ticker
    <3> QED BY <1>a, <1>9, <3>1 DEF BurnFrom
  <2> QED BY <2>2, <2>4
<1>10. ASSUME NEW i \in Inscriptions, TransferToFee(i)
       PROVE  T1 /\ T2 /\ T3 /\ T4 /\ T5 /\ T6
  <2>1. Spend(i, "transfer", Fee) /\ RecordMove(i) /\ SetValidity(i, "Used")
    BY <1>10 DEF TransferToFee, AcceptedTransfer
  <2>2. T3
    BY <1>a, <1>7, <1>10, <2>1, BalanceTypes DEF TransferToFee
  <2> QED BY <1>a, <1>7, <1>8, <1>10, <2>1, <2>2 DEF TransferToFee
<1>11. ASSUME NEW i \in Inscriptions, TransferToBurn(i)
       PROVE  T1 /\ T2 /\ T3 /\ T4 /\ T5 /\ T6
  <2>1. Spend(i, "transfer", Burn) /\ RecordMove(i) /\ SetValidity(i, "Used") /\ BurnFrom(chain[i])
    BY <1>11 DEF TransferToBurn, AcceptedTransfer
  <2> QED BY <1>7, <1>8, <1>9, <2>1, ScriptFacts
<1>12. ASSUME NEW i \in Inscriptions, TransferToProgTooEarly(i)
       PROVE  T1 /\ T2 /\ T3 /\ T4 /\ T5 /\ T6
  <2>1. /\ Spend(i, "transfer", Prog) /\ RecordMove(i) /\ SetValidity(i, Lookup(i))
        /\ BurnFrom(chain[i])
    BY <1>12 DEF TransferToProgTooEarly, AcceptedTransfer
  <2> QED BY <1>b, <1>7, <1>8, <1>9, <2>1, ScriptFacts
<1>13. ASSUME NEW i \in Inscriptions, NEW answered \in BOOLEAN, NEW executed \in BOOLEAN,
              TransferToProg(i, answered, executed)
       PROVE  T1 /\ T2 /\ T3 /\ T4 /\ T5 /\ T6
  <2> DEFINE c == chain[i]
             v == IF answered THEN "Used" ELSE Lookup(i)
  <2>1. /\ Spend(i, "transfer", Prog) /\ RecordMove(i) /\ SetValidity(i, v)
        /\ overall' = Credit(Debit(overall, c.tick, c.source, c.amt), c.tick, Prog, c.amt)
        /\ available' = Credit(available, c.tick, Prog, c.amt)
        /\ evm' = IF executed THEN [evm EXCEPT ![c.tick] = @ + c.amt] ELSE evm
        /\ UNCHANGED tickers
    BY <1>13 DEF TransferToProg, AcceptedTransfer
  <2>2. v \in {"Unknown", "Valid", "Used", "Invalid"}
    BY <1>b
  <2> HIDE DEF c, v
  <2>3. c.tick \in Ticks /\ c.source \in Scripts /\ c.amt \in 0 .. MaxAmount
    BY <1>7, <2>1, ScriptFacts DEF c
  <2>4. Debit(overall, c.tick, c.source, c.amt) \in Balances
    BY <1>a, <2>3, BalanceTypes
  <2>5. T2 /\ T3
    BY <1>a, <2>1, <2>3, <2>4, BalanceTypes, ScriptFacts
  <2>6. evm' \in [Ticks -> Nat]
    BY <1>a, <2>1, <2>3
  <2> QED BY <1>a, <1>7, <1>8, <2>1, <2>2, <2>5, <2>6, ScriptFacts
<1>14. ASSUME NEW i \in Inscriptions, NEW dest \in Dests, TransferToScript(i, dest)
       PROVE  T1 /\ T2 /\ T3 /\ T4 /\ T5 /\ T6
  <2> DEFINE c == chain[i]
  <2>1. /\ dest \in Scripts
        /\ Spend(i, "transfer", dest) /\ RecordMove(i) /\ SetValidity(i, "Used")
        /\ overall' = Credit(Debit(overall, c.tick, c.source, c.amt), c.tick, dest, c.amt)
        /\ available' = Credit(available, c.tick, dest, c.amt)
        /\ UNCHANGED <<tickers, evm>>
    BY <1>14 DEF TransferToScript, AcceptedTransfer
  <2>3. c.tick \in Ticks /\ c.source \in Scripts /\ c.amt \in 0 .. MaxAmount
    BY <1>7, <2>1
  <2> HIDE DEF c
  <2>4. Debit(overall, c.tick, c.source, c.amt) \in Balances
    BY <1>a, <2>3, BalanceTypes
  <2>5. T2 /\ T3
    BY <1>a, <2>1, <2>3, <2>4, BalanceTypes
  <2> QED BY <1>a, <1>7, <1>8, <2>1, <2>5
<1>15. ASSUME NEW i \in Inscriptions, NEW dest \in Dests, TransferDeclined(i, dest)
       PROVE  T1 /\ T2 /\ T3 /\ T4 /\ T5 /\ T6
  BY <1>a, <1>b, <1>7, <1>15 DEF TransferDeclined, SetValidity, balanceVars
<1>16. ASSUME NEW i \in Inscriptions, NEW dest \in Dests,
              WithdrawToOpReturn(i, dest) \/ WithdrawRefused(i, dest)
       PROVE  T1 /\ T2 /\ T3 /\ T4 /\ T5 /\ T6
  BY <1>a, <1>7, <1>8, <1>16
     DEF WithdrawToOpReturn, WithdrawRefused, AcceptedWithdraw, balanceVars
<1>17. ASSUME NEW i \in Inscriptions, NEW dest \in Dests, WithdrawPaid(i, dest)
       PROVE  T1 /\ T2 /\ T3 /\ T4 /\ T5 /\ T6
  <2> DEFINE c == chain[i]
  <2>1. /\ dest \in Wallets
        /\ Spend(i, "withdraw", dest) /\ RecordMove(i) /\ SetValidity(i, "Used")
        /\ evm[c.tick] >= c.amt
        /\ evm' = [evm EXCEPT ![c.tick] = @ - c.amt]
        /\ overall' = Credit(Debit(overall, c.tick, Prog, c.amt), c.tick, dest, c.amt)
        /\ available' = Credit(Debit(available, c.tick, Prog, c.amt), c.tick, dest, c.amt)
        /\ UNCHANGED tickers
    BY <1>17 DEF WithdrawPaid, AcceptedWithdraw
  <2>3. c.tick \in Ticks /\ c.amt \in 0 .. MaxAmount /\ dest \in Scripts
    BY <1>7, <2>1, ScriptFacts
  <2> HIDE DEF c
  <2>4. Debit(overall, c.tick, Prog, c.amt) \in Balances /\ Debit(available, c.tick, Prog, c.amt) \in Balances
    BY <1>a, <2>3, BalanceTypes, ScriptFacts
  <2>5. T2 /\ T3
    BY <2>1, <2>3, <2>4, BalanceTypes
  <2>6. evm' \in [Ticks -> Nat]
    BY <1>a, <2>1, <2>3
  <2> QED BY <1>a, <1>7, <1>8, <2>1, <2>5, <2>6
<1>18. ASSUME Halt PROVE T1 /\ T2 /\ T3 /\ T4 /\ T5 /\ T6
  BY <1>a, <1>18 DEF Halt, balanceVars, eventVars
<1>19. ASSUME NEW clear \in BOOLEAN, NextBlock(clear)
       PROVE  T1 /\ T2 /\ T3 /\ T4 /\ T5 /\ T6
  <2>1. T1 /\ T4 /\ T5 /\ T6
    BY <1>a, <1>19 DEF NextBlock
  <2>2. CASE height + 1 = RefundHeight
    <3>1. \A x, y \in 0 .. Width - 1 : Minus(x, y) \in 0 .. Width - 1 /\ Plus(x, y) \in 0 .. Width - 1
      BY LedgerAssumption DEF Minus, Plus
    <3>2. RefundAll
      BY <1>19, <2>2 DEF NextBlock
    <3>3. \A t \in Ticks : /\ overall[t] \in [Scripts -> 0 .. Width - 1]
                           /\ available[t] \in [Scripts -> 0 .. Width - 1]
      BY <1>a DEF Balances
    <3>4. ASSUME NEW t \in Ticks
          PROVE  /\ [overall[t] EXCEPT ![Swap] = 0, ![Refund] = Plus(@, overall[t][Swap])]
                      \in [Scripts -> 0 .. Width - 1]
                 /\ [available[t] EXCEPT ![Swap] = Minus(@, overall[t][Swap]),
                                         ![Refund] = Plus(@, overall[t][Swap])]
                      \in [Scripts -> 0 .. Width - 1]
      <4> DEFINE o == overall[t]
                 a == available[t]
                 U == 0 .. Width - 1
      <4>1. o \in [Scripts -> U] /\ a \in [Scripts -> U]
        BY <3>3
      <4>2. Swap \in Scripts /\ Refund \in Scripts /\ Swap # Refund /\ 0 \in U
        BY ScriptFacts, LedgerAssumption
      <4>3. /\ Plus(o[Refund], o[Swap]) \in U /\ Plus(a[Refund], o[Swap]) \in U
            /\ Minus(a[Swap], o[Swap]) \in U
        BY <3>1, <4>1, <4>2
      <4> HIDE DEF o, a, U
      <4>4. /\ [o EXCEPT ![Swap] = 0, ![Refund] = Plus(@, o[Swap])] \in [Scripts -> U]
            /\ [a EXCEPT ![Swap] = Minus(@, o[Swap]), ![Refund] = Plus(@, o[Swap])]
                 \in [Scripts -> U]
        BY <4>1, <4>2, <4>3
      <4> QED BY <4>4 DEF o, a, U
    <3>5. T2 /\ T3
      BY <3>2, <3>4 DEF RefundAll, Balances
    <3> QED BY <2>1, <3>5
  <2>3. CASE height + 1 # RefundHeight
    BY <1>a, <1>19, <2>1, <2>3 DEF NextBlock
  <2> QED BY <2>2, <2>3
<1>20. ASSUME UNCHANGED vars PROVE T1 /\ T2 /\ T3 /\ T4 /\ T5 /\ T6
  BY <1>a, <1>20 DEF vars, balanceVars, eventVars
<1> HIDE DEF T1, T2, T3, T4, T5, T6
<1>21. CASE Next
  <2>1. CASE \E t \in Ticks, max \in Amounts, limit \in Amounts, selfMint \in BOOLEAN :
               Deploy(t, max, limit, selfMint)
    BY <1>1, <2>1
  <2>2. CASE \E t \in Ticks, p \in Scripts, amt \in Amounts, child \in BOOLEAN :
               Mint(t, p, amt, child)
    BY <1>2, <2>2
  <2>3. CASE \E i \in Inscriptions, t \in Ticks, amt \in Amounts, p \in Scripts :
               \/ InscribeTransfer(i, t, amt, p)
               \/ InscribeWithdraw(i, t, amt, p)
               \/ \E op \in {"transfer", "withdraw"}, place \in {p, Fee} :
                    RevealIgnored(i, op, t, amt, p, place)
    BY <1>4, <1>5, <1>6, <2>3
  <2>4. CASE \E i \in Inscriptions :
               \/ TransferToFee(i)
               \/ TransferToBurn(i)
               \/ TransferToProgTooEarly(i)
               \/ \E answered, executed \in BOOLEAN : TransferToProg(i, answered, executed)
    BY <1>10, <1>11, <1>12, <1>13, <2>4
  <2>5. CASE \E i \in Inscriptions : \E dest \in Dests :
               \/ TransferDeclined(i, dest)
               \/ TransferToScript(i, dest)
               \/ WithdrawToOpReturn(i, dest)
               \/ WithdrawRefused(i, dest)
               \/ WithdrawPaid(i, dest)
               \/ WithdrawFails(i, dest)
    BY <1>14, <1>15, <1>16, <1>17, <1>18, <2>5 DEF WithdrawFails
  <2>6. CASE (\E clear \in BOOLEAN : NextBlock(clear)) \/ RefundFails
    BY <1>18, <1>19, <2>6 DEF RefundFails
  <2> QED BY <1>21, <2>1, <2>2, <2>3, <2>4, <2>5, <2>6 DEF Next
<1> QED BY <1>20, <1>21

-----------------------------------------------------------------------------
(* What the invariants need to know of tables, caches and feed.            *)
Fresh == \A t \in Ticks : ~tickers[t].deployed => tickers[t] = NoTicker

CachesAgree ==
  /\ moved \subseteq inscribed /\ cached \subseteq moved
  /\ dbMoved \subseteq moved /\ dbInscribed \subseteq inscribed
  /\ \A i \in inscribed : chain[i] # Unborn
  /\ \A i \in inscribed \ moved : chain[i].at = chain[i].source
  /\ SpendableIffUnspent

IInv ==
  /\ TypeOK
  /\ Fresh
  /\ CachesAgree
  /\ SupplyConserved
  /\ EscrowBacked
  /\ ProgSolvent

-----------------------------------------------------------------------------
(* A reveal never touches an inscription that already has an event.        *)
LEMMA RevealFrame ==
  ASSUME TypeOK, CachesAgree,
         NEW i \in Inscriptions, NEW op \in {"transfer", "withdraw"}, NEW t \in Ticks,
         NEW amt \in Amounts, NEW p \in Scripts, NEW place \in {p, Fee},
         Reveal(i, op, t, amt, p, place)
  PROVE  /\ i \notin inscribed
         /\ \A j \in Inscriptions \ {i} : chain'[j] = chain[j]
         /\ chain'[i].op = op /\ chain'[i].tick = t /\ chain'[i].amt = amt
         /\ chain'[i].source = p /\ chain'[i].at = place
         /\ chain'[i] # Unborn
<1>1. chain[i] = Unborn /\ i \notin inscribed
  BY DEF Reveal, CachesAgree
<1>2. /\ \A j \in Inscriptions \ {i} : chain'[j] = chain[j]
      /\ chain'[i] = [op |-> op, tick |-> t, amt |-> amt, source |-> p,
                      at |-> place]
  BY DEF Reveal, TypeOK
<1>3. chain'[i] \in Revealed
  BY <1>2 DEF Revealed, Dests
<1> QED BY <1>1, <1>2, <1>3, UnbornAssumption

(* A spend keeps the content and owner of the inscription; only its place  *)
(* changes.                                                                *)
LEMMA SpendFrame ==
  ASSUME TypeOK,
         NEW i \in Inscriptions, NEW op \in {"transfer", "withdraw"}, NEW dest \in Dests,
         Spend(i, op, dest)
  PROVE  /\ chain[i] \in Revealed /\ chain[i].op = op
         /\ chain[i].tick \in Ticks /\ chain[i].amt \in 1 .. MaxAmount
         /\ chain[i].source \in Scripts /\ chain[i].at \in Wallets \cup {Fee}
         /\ chain' = [chain EXCEPT ![i].at = dest]
         /\ \A j \in Inscriptions \ {i} : chain'[j] = chain[j]
         /\ chain'[i] = [chain[i] EXCEPT !.at = dest]
         /\ chain'[i] # Unborn
<1>1. chain[i] \in Revealed
  BY DEF TypeOK, Spend
<1>2. /\ chain' = [chain EXCEPT ![i].at = dest]
      /\ chain[i].op = op /\ chain[i].at \in Wallets \cup {Fee}
  BY DEF Spend
<1>3. /\ \A j \in Inscriptions \ {i} : chain'[j] = chain[j]
      /\ chain'[i] = [chain[i] EXCEPT !.at = dest]
  BY <1>2 DEF TypeOK
<1>4. [chain[i] EXCEPT !.at = dest] \in Revealed
  BY <1>1 DEF Revealed
<1> QED BY <1>1, <1>2, <1>3, <1>4, UnbornAssumption DEF Revealed, Amounts

(* The lookup answers with a cache value, never with an absence.           *)
LEMMA LookupKnown ==
  ASSUME TypeOK, NEW i \in Inscriptions
  PROVE  Lookup(i) \in {"Valid", "Used", "Invalid"}
  BY DEF TypeOK, Lookup

(* Every step keeps validity cache, event cache and stored events in       *)
(* agreement on what may be spent.                                         *)
LEMMA CachesStep ==
  ASSUME TypeOK, CachesAgree, [Next]_vars
  PROVE  CachesAgree'
<1>1. ASSUME UNCHANGED eventVars, \A i \in inscribed : chain'[i] = chain[i]
      PROVE  CachesAgree'
  <2>1. \A i \in Inscriptions : Accepts(i)' <=> Accepts(i)
    BY <1>1 DEF eventVars, Accepts, Lookup
  <2> QED BY <1>1, <2>1 DEF CachesAgree, eventVars, SpendableIffUnspent
<1>2. ASSUME NEW i \in Inscriptions, NEW op \in {"transfer", "withdraw"}, NEW t \in Ticks,
             NEW amt \in Amounts, NEW p \in Scripts,
             Reveal(i, op, t, amt, p, p), RecordInscribe(i)
      PROVE  CachesAgree'
  <2>1. /\ i \notin inscribed
        /\ \A j \in Inscriptions \ {i} : chain'[j] = chain[j]
        /\ chain'[i] # Unborn /\ chain'[i].at = p /\ chain'[i].source = p
    BY <1>2, RevealFrame
  <2>2. /\ inscribed' = inscribed \cup {i} /\ moved' = moved /\ cached' = cached
        /\ dbInscribed' = dbInscribed /\ dbMoved' = dbMoved
        /\ validity' = [validity EXCEPT ![i] = "Valid"]
    BY <1>2 DEF RecordInscribe, SetValidity
  <2>3. \A j \in Inscriptions \ {i} : Accepts(j)' <=> Accepts(j)
    BY <2>2 DEF Accepts, Lookup, TypeOK
  <2>4. Accepts(i)'
    BY <2>1, <2>2 DEF Accepts, Lookup, TypeOK, CachesAgree
  <2>5. \A j \in Inscriptions : Accepts(j)' <=> j \in inscribed' \ moved'
    BY <2>1, <2>2, <2>3, <2>4 DEF CachesAgree, SpendableIffUnspent
  <2>6. inscribed \subseteq Inscriptions
    BY DEF TypeOK
  <2> QED BY <2>1, <2>2, <2>5, <2>6 DEF CachesAgree, SpendableIffUnspent
<1>3. ASSUME NEW i \in Inscriptions, NEW op \in {"transfer", "withdraw"}, NEW dest \in Dests,
             NEW v \in {"Valid", "Used", "Invalid"},
             Accepts(i), Spend(i, op, dest), RecordMove(i), SetValidity(i, v)
      PROVE  CachesAgree'
  <2>1. i \in inscribed \ moved
    BY <1>3 DEF CachesAgree, SpendableIffUnspent
  <2>2. /\ inscribed' = inscribed /\ moved' = moved \cup {i} /\ cached' = cached \cup {i}
        /\ dbInscribed' = dbInscribed /\ dbMoved' = dbMoved
        /\ validity' = [validity EXCEPT ![i] = v]
    BY <1>3 DEF RecordMove, SetValidity
  <2>3. \A j \in Inscriptions \ {i} : chain'[j] = chain[j]
    BY <1>3, SpendFrame
  <2>4. chain'[i] # Unborn
    BY <1>3, SpendFrame
  <2>5. \A j \in Inscriptions \ {i} : Accepts(j)' <=> Accepts(j)
    BY <2>2 DEF Accepts, Lookup, TypeOK
  <2>6. ~Accepts(i)'
    BY <2>2 DEF Accepts
  <2>7. \A j \in Inscriptions : Accepts(j)' <=> j \in inscribed' \ moved'
    BY <2>1, <2>2, <2>5, <2>6 DEF CachesAgree, SpendableIffUnspent
  <2>8. inscribed \subseteq Inscriptions
    BY DEF TypeOK
  <2> QED BY <2>1, <2>2, <2>3, <2>4, <2>7, <2>8 DEF CachesAgree, SpendableIffUnspent
<1>4. ASSUME NEW i \in Inscriptions, NEW dest \in Dests, TransferDeclined(i, dest)
      PROVE  CachesAgree'
  <2>1. i \notin inscribed \ moved
    BY <1>4 DEF TransferDeclined, CachesAgree, SpendableIffUnspent
  <2>2. UNCHANGED <<inscribed, moved, dbInscribed, dbMoved, cached>>
    BY <1>4 DEF TransferDeclined
  <2>3. validity' = validity \/ validity' = [validity EXCEPT ![i] = Lookup(i)]
    BY <1>4 DEF TransferDeclined, SetValidity
  <2>4. \A j \in Inscriptions : Accepts(j)' <=> Accepts(j)
    BY <2>2, <2>3, LookupKnown DEF Accepts, Lookup, TypeOK
  <2>5. chain'[i] # Unborn /\ \A j \in Inscriptions \ {i} : chain'[j] = chain[j]
    BY <1>4, SpendFrame DEF TransferDeclined
  <2>6. inscribed \subseteq Inscriptions
    BY DEF TypeOK
  <2> QED BY <2>1, <2>2, <2>4, <2>5, <2>6 DEF CachesAgree, SpendableIffUnspent
<1>5. ASSUME NEW clear \in BOOLEAN, NextBlock(clear) PROVE CachesAgree'
  <2>1. /\ UNCHANGED <<inscribed, moved, chain>>
        /\ dbInscribed' = inscribed /\ dbMoved' = moved
        /\ cached' = IF clear THEN {} ELSE cached
        /\ validity' = IF clear THEN [i \in Inscriptions |-> "Unknown"] ELSE validity
    BY <1>5 DEF NextBlock
  <2>2. ASSUME NEW j \in Inscriptions PROVE Accepts(j)' <=> j \in inscribed \ moved
    <3>1. CASE clear
      BY <2>1, <3>1 DEF Accepts, Lookup, CachesAgree
    <3>2. CASE ~clear
      BY <2>1, <3>2 DEF Accepts, Lookup, CachesAgree, SpendableIffUnspent
    <3> QED BY <3>1, <3>2
  <2> QED BY <2>1, <2>2 DEF CachesAgree, SpendableIffUnspent
<1>6. CASE UNCHANGED vars
  BY <1>1, <1>6 DEF vars, eventVars
<1>7. CASE \E t \in Ticks, max \in Amounts, limit \in Amounts, selfMint \in BOOLEAN :
             Deploy(t, max, limit, selfMint)
  BY <1>1, <1>7 DEF Deploy
<1>8. CASE \E t \in Ticks, p \in Scripts, amt \in Amounts, child \in BOOLEAN :
             Mint(t, p, amt, child)
  BY <1>1, <1>8 DEF Mint
<1>9. CASE \E i \in Inscriptions, t \in Ticks, amt \in Amounts, p \in Scripts :
             InscribeTransfer(i, t, amt, p) \/ InscribeWithdraw(i, t, amt, p)
  BY <1>2, <1>9 DEF InscribeTransfer, InscribeWithdraw
<1>10. ASSUME NEW i \in Inscriptions, NEW t \in Ticks, NEW amt \in Amounts, NEW p \in Scripts,
              NEW op \in {"transfer", "withdraw"}, NEW place \in {p, Fee},
              RevealIgnored(i, op, t, amt, p, place)
       PROVE  CachesAgree'
  <2>1. Reveal(i, op, t, amt, p, place) /\ UNCHANGED eventVars
    BY <1>10 DEF RevealIgnored
  <2>2. i \notin inscribed /\ \A j \in Inscriptions \ {i} : chain'[j] = chain[j]
    BY <2>1, RevealFrame
  <2>3. inscribed \subseteq Inscriptions
    BY DEF TypeOK
  <2> QED BY <1>1, <2>1, <2>2, <2>3
<1>11. CASE \E i \in Inscriptions :
              \/ TransferToFee(i) \/ TransferToBurn(i) \/ TransferToProgTooEarly(i)
              \/ \E answered, executed \in BOOLEAN : TransferToProg(i, answered, executed)
  <2> PICK i \in Inscriptions :
              \/ TransferToFee(i) \/ TransferToBurn(i) \/ TransferToProgTooEarly(i)
              \/ \E answered, executed \in BOOLEAN : TransferToProg(i, answered, executed)
    BY <1>11
  <2>1. \E dest \in Dests : AcceptedTransfer(i, dest)
    BY ScriptFacts DEF TransferToFee, TransferToBurn, TransferToProgTooEarly, TransferToProg, Dests
  <2>2. \E v \in {"Valid", "Used", "Invalid"} : SetValidity(i, v)
    BY LookupKnown DEF TransferToFee, TransferToBurn, TransferToProgTooEarly, TransferToProg
  <2> QED BY <1>3, <2>1, <2>2 DEF AcceptedTransfer
<1>12. CASE \E i \in Inscriptions : \E dest \in Dests :
              \/ TransferToScript(i, dest) \/ WithdrawToOpReturn(i, dest)
              \/ WithdrawRefused(i, dest) \/ WithdrawPaid(i, dest)
  BY <1>3, <1>12 DEF TransferToScript, AcceptedTransfer, AcceptedWithdraw,
                     WithdrawToOpReturn, WithdrawRefused, WithdrawPaid
<1>13. CASE Halt
  BY <1>1, <1>13 DEF Halt
<1>14. CASE Next
  <2>1. \/ \E t \in Ticks, max \in Amounts, limit \in Amounts, selfMint \in BOOLEAN :
             Deploy(t, max, limit, selfMint)
        \/ \E t \in Ticks, p \in Scripts, amt \in Amounts, child \in BOOLEAN :
             Mint(t, p, amt, child)
        \/ \E i \in Inscriptions, t \in Ticks, amt \in Amounts, p \in Scripts :
             InscribeTransfer(i, t, amt, p) \/ InscribeWithdraw(i, t, amt, p)
        \/ \E i \in Inscriptions, t \in Ticks, amt \in Amounts, p \in Scripts :
             \E op \in {"transfer", "withdraw"}, place \in {p, Fee} :
               RevealIgnored(i, op, t, amt, p, place)
        \/ \E i \in Inscriptions :
             \/ TransferToFee(i) \/ TransferToBurn(i) \/ TransferToProgTooEarly(i)
             \/ \E answered, executed \in BOOLEAN : TransferToProg(i, answered, executed)
        \/ \E i \in Inscriptions : \E dest \in Dests :
             \/ TransferToScript(i, dest) \/ WithdrawToOpReturn(i, dest)
             \/ WithdrawRefused(i, dest) \/ WithdrawPaid(i, dest)
        \/ \E i \in Inscriptions : \E dest \in Dests : TransferDeclined(i, dest)
        \/ \E i \in Inscriptions : \E dest \in Dests : WithdrawFails(i, dest)
        \/ \E clear \in BOOLEAN : NextBlock(clear)
        \/ RefundFails
    BY <1>14 DEF Next
  <2>2. (\E i \in Inscriptions : \E dest \in Dests : WithdrawFails(i, dest)) \/ RefundFails => Halt
    BY DEF WithdrawFails, RefundFails
  <2> QED BY <1>4, <1>5, <1>7, <1>8, <1>9, <1>10, <1>11, <1>12, <1>13, <2>1, <2>2
<1> QED BY <1>6, <1>14

-----------------------------------------------------------------------------
Held(t, p) == SumFunctionOnSet(Escrows(t, p), Inscriptions)
LiveTransfer(i) == i \in inscribed \ moved /\ chain[i].op = "transfer"

(* What an inscription holds is a number of tokens.                        *)
LEMMA EscrowsNat ==
  ASSUME TypeOK, CachesAgree, NEW t, NEW p
  PROVE  /\ IsFiniteSet(Inscriptions)
         /\ \A i \in Inscriptions : Escrows(t, p)[i] \in Nat
         /\ Held(t, p) \in Nat
<1>1. IsFiniteSet(Inscriptions)
  BY LedgerAssumption
<1>2. ASSUME NEW i \in Inscriptions PROVE Escrows(t, p)[i] \in Nat
  <2>1. i \in inscribed => chain[i] \in Revealed
    BY DEF TypeOK, CachesAgree
  <2> QED BY <2>1 DEF Escrows, Revealed, Amounts
<1> QED BY <1>1, <1>2, SumNat DEF Held

(* Escrows depend on nothing but the unspent transfer inscriptions.        *)
LEMMA HeldFrame ==
  ASSUME \A i \in Inscriptions :
           /\ LiveTransfer(i)' <=> LiveTransfer(i)
           /\ LiveTransfer(i) => /\ chain'[i].tick = chain[i].tick
                                 /\ chain'[i].amt = chain[i].amt
                                 /\ chain'[i].source = chain[i].source,
         NEW t, NEW p
  PROVE  Held(t, p)' = Held(t, p)
<1>1. Escrows(t, p)' = Escrows(t, p)
  BY DEF Escrows, LiveTransfer
<1> QED BY <1>1 DEF Held

(* A transfer inscription that becomes unspent adds its amount to what its *)
(* owner has in escrow.                                                    *)
LEMMA HeldAdd ==
  ASSUME TypeOK, CachesAgree, TypeOK', CachesAgree', NEW i \in Inscriptions,
         ~LiveTransfer(i), LiveTransfer(i)',
         \A j \in Inscriptions \ {i} : (LiveTransfer(j)' <=> LiveTransfer(j)) /\ chain'[j] = chain[j],
         NEW t, NEW p
  PROVE  Held(t, p)' = IF chain'[i].tick = t /\ chain'[i].source = p
                       THEN Held(t, p) + chain'[i].amt ELSE Held(t, p)
<1> DEFINE f == Escrows(t, p)
           g == Escrows(t, p)'
<1>1. f[i] = 0 /\ g[i] = IF chain'[i].tick = t /\ chain'[i].source = p THEN chain'[i].amt ELSE 0
  BY DEF Escrows, LiveTransfer
<1>2. \A j \in Inscriptions \ {i} : g[j] = f[j]
  BY DEF Escrows, LiveTransfer
<1>3. IsFiniteSet(Inscriptions) /\ \A j \in Inscriptions : f[j] \in Nat
  BY EscrowsNat
<1>4. \A j \in Inscriptions : g[j] \in Nat
  <2>1. chain'[i] \in Revealed
    BY DEF TypeOK, CachesAgree, LiveTransfer
  <2>2. g[i] \in Nat
    BY <1>1, <2>1 DEF Revealed, Amounts
  <2> QED BY <1>2, <1>3, <2>2
<1>5. Held(t, p)' = SumFunctionOnSet(g, Inscriptions) /\ Held(t, p) = SumFunctionOnSet(f, Inscriptions)
  BY DEF Held
<1>6. Held(t, p) \in Nat
  BY EscrowsNat
<1> HIDE DEF f, g
<1>7. SumFunctionOnSet(g, Inscriptions) = SumFunctionOnSet(f, Inscriptions) - f[i] + g[i]
  BY <1>2, <1>3, <1>4, SumChange
<1>8. Held(t, p)' = Held(t, p) + g[i] /\ g[i] \in Nat
  BY <1>1, <1>4, <1>5, <1>6, <1>7
<1> QED BY <1>1, <1>6, <1>8

(* A transfer inscription that is spent releases its amount.               *)
LEMMA HeldRemove ==
  ASSUME TypeOK, CachesAgree, TypeOK', CachesAgree', NEW i \in Inscriptions,
         LiveTransfer(i), ~LiveTransfer(i)',
         \A j \in Inscriptions \ {i} : (LiveTransfer(j)' <=> LiveTransfer(j)) /\ chain'[j] = chain[j],
         NEW t, NEW p
  PROVE  /\ Held(t, p)' = IF chain[i].tick = t /\ chain[i].source = p
                          THEN Held(t, p) - chain[i].amt ELSE Held(t, p)
         /\ chain[i].tick = t /\ chain[i].source = p => chain[i].amt <= Held(t, p)
<1> DEFINE f == Escrows(t, p)
           g == Escrows(t, p)'
<1>1. g[i] = 0 /\ f[i] = IF chain[i].tick = t /\ chain[i].source = p THEN chain[i].amt ELSE 0
  BY DEF Escrows, LiveTransfer
<1>2. \A j \in Inscriptions \ {i} : g[j] = f[j]
  BY DEF Escrows, LiveTransfer
<1>3. IsFiniteSet(Inscriptions) /\ \A j \in Inscriptions : f[j] \in Nat
  BY EscrowsNat
<1>4. \A j \in Inscriptions : g[j] \in Nat
  BY <1>1, <1>2, <1>3
<1>5. Held(t, p)' = SumFunctionOnSet(g, Inscriptions) /\ Held(t, p) = SumFunctionOnSet(f, Inscriptions)
  BY DEF Held
<1>6. Held(t, p) \in Nat
  BY EscrowsNat
<1> HIDE DEF f, g
<1>7. SumFunctionOnSet(g, Inscriptions) = SumFunctionOnSet(f, Inscriptions) - f[i] + g[i]
  BY <1>2, <1>3, <1>4, SumChange
<1>8. f[i] <= Held(t, p)
  BY <1>3, <1>5, SumMember
<1>9. Held(t, p)' = Held(t, p) - f[i] /\ f[i] \in Nat
  BY <1>1, <1>3, <1>5, <1>6, <1>7
<1> QED BY <1>1, <1>6, <1>8, <1>9

-----------------------------------------------------------------------------
Total(bal, t) == SumFunctionOnSet(bal[t], Scripts)

(* A balance never exceeds the supply, so u128 arithmetic on it does not   *)
(* wrap.                                                                   *)
LEMMA TotalBound ==
  ASSUME TypeOK, SupplyConserved, NEW t \in Ticks
  PROVE  /\ Total(overall, t) \in Nat
         /\ Total(overall, t) + tickers[t].remaining + tickers[t].burned = tickers[t].max
         /\ tickers[t].remaining \in Nat /\ tickers[t].burned \in Nat
         /\ tickers[t].max \in 0 .. MaxAmount
         /\ Total(overall, t) <= MaxAmount
         /\ \A p \in Scripts : overall[t][p] \in Nat /\ overall[t][p] <= Total(overall, t)
<1>1. IsFiniteSet(Scripts) /\ \A p \in Scripts : overall[t][p] \in Nat
  BY ScriptFacts, LedgerAssumption DEF TypeOK
<1>2. Total(overall, t) \in Nat /\ \A p \in Scripts : overall[t][p] <= Total(overall, t)
  BY <1>1, SumNat, SumMember DEF Total
<1>3. /\ tickers[t].remaining \in Nat /\ tickers[t].burned \in Nat
      /\ tickers[t].max \in 0 .. MaxAmount
  BY LedgerAssumption DEF TypeOK, Ticker
<1>4. Total(overall, t) + tickers[t].remaining + tickers[t].burned = tickers[t].max
  BY DEF SupplyConserved, Total
<1> QED BY <1>1, <1>2, <1>3, <1>4, LedgerAssumption

(* Taking an amount that is there lowers one balance and the total by it.  *)
LEMMA DebitTotal ==
  ASSUME NEW bal \in Balances, NEW t \in Ticks, NEW p \in Scripts, NEW n \in Nat,
         n <= bal[t][p], NEW new, new = Debit(bal, t, p, n)
  PROVE  /\ new \in Balances
         /\ new[t][p] = bal[t][p] - n
         /\ \A q \in Scripts \ {p} : new[t][q] = bal[t][q]
         /\ \A u \in Ticks \ {t} : new[u] = bal[u]
         /\ Total(new, t) = Total(bal, t) - n
<1>1. \A u \in Ticks, q \in Scripts : bal[u][q] \in 0 .. Width - 1
  BY DEF Balances
<1>2. Width \in Nat
  BY LedgerAssumption
<1>3. Minus(bal[t][p], n) = bal[t][p] - n
  BY <1>1 DEF Minus
<1>4. /\ new[t][p] = bal[t][p] - n
      /\ \A q \in Scripts \ {p} : new[t][q] = bal[t][q]
      /\ \A u \in Ticks \ {t} : new[u] = bal[u]
      /\ new[t] = [bal[t] EXCEPT ![p] = bal[t][p] - n]
      /\ new = [bal EXCEPT ![t] = new[t]]
  BY <1>3 DEF Debit, Balances
<1>5. bal[t][p] - n \in 0 .. Width - 1
  BY <1>1, <1>2
<1>6. new \in Balances
  <2>1. new[t] \in [Scripts -> 0 .. Width - 1]
    BY <1>4, <1>5 DEF Balances
  <2> QED BY <1>4, <2>1 DEF Balances
<1>7. \A q \in Scripts : bal[t][q] \in Nat /\ new[t][q] \in Nat
  BY <1>1, <1>2, <1>6 DEF Balances
<1>8. Total(new, t) = Total(bal, t) - bal[t][p] + new[t][p]
  <2> DEFINE f == bal[t]
             g == new[t]
  <2>1. /\ IsFiniteSet(Scripts) /\ \A q \in Scripts : f[q] \in Nat /\ g[q] \in Nat
        /\ \A q \in Scripts \ {p} : g[q] = f[q]
    BY <1>4, <1>7, ScriptFacts
  <2> HIDE DEF f, g
  <2>2. SumFunctionOnSet(g, Scripts) = SumFunctionOnSet(f, Scripts) - f[p] + g[p]
    BY <2>1, SumChange
  <2> QED BY <2>2 DEF f, g, Total
<1>9. Total(bal, t) \in Nat
  BY <1>7, SumNat, ScriptFacts DEF Total
<1> QED BY <1>4, <1>6, <1>7, <1>8, <1>9

(* Adding an amount that fits u128 raises one balance and the total by it. *)
LEMMA CreditTotal ==
  ASSUME NEW bal \in Balances, NEW t \in Ticks, NEW p \in Scripts, NEW n \in Nat,
         bal[t][p] + n < Width, NEW new, new = Credit(bal, t, p, n)
  PROVE  /\ new \in Balances
         /\ new[t][p] = bal[t][p] + n
         /\ \A q \in Scripts \ {p} : new[t][q] = bal[t][q]
         /\ \A u \in Ticks \ {t} : new[u] = bal[u]
         /\ Total(new, t) = Total(bal, t) + n
<1>1. \A u \in Ticks, q \in Scripts : bal[u][q] \in 0 .. Width - 1
  BY DEF Balances
<1>2. Width \in Nat
  BY LedgerAssumption
<1>3. Plus(bal[t][p], n) = bal[t][p] + n
  BY <1>1 DEF Plus
<1>4. /\ new[t][p] = bal[t][p] + n
      /\ \A q \in Scripts \ {p} : new[t][q] = bal[t][q]
      /\ \A u \in Ticks \ {t} : new[u] = bal[u]
      /\ new[t] = [bal[t] EXCEPT ![p] = bal[t][p] + n]
      /\ new = [bal EXCEPT ![t] = new[t]]
  BY <1>3 DEF Credit, Balances
<1>5. bal[t][p] + n \in 0 .. Width - 1
  BY <1>1, <1>2
<1>6. new \in Balances
  <2>1. new[t] \in [Scripts -> 0 .. Width - 1]
    BY <1>4, <1>5 DEF Balances
  <2> QED BY <1>4, <2>1 DEF Balances
<1>7. \A q \in Scripts : bal[t][q] \in Nat /\ new[t][q] \in Nat
  BY <1>1, <1>2, <1>6 DEF Balances
<1>8. Total(new, t) = Total(bal, t) - bal[t][p] + new[t][p]
  <2> DEFINE f == bal[t]
             g == new[t]
  <2>1. /\ IsFiniteSet(Scripts) /\ \A q \in Scripts : f[q] \in Nat /\ g[q] \in Nat
        /\ \A q \in Scripts \ {p} : g[q] = f[q]
    BY <1>4, <1>7, ScriptFacts
  <2> HIDE DEF f, g
  <2>2. SumFunctionOnSet(g, Scripts) = SumFunctionOnSet(f, Scripts) - f[p] + g[p]
    BY <2>1, SumChange
  <2> QED BY <2>2 DEF f, g, Total
<1>9. Total(bal, t) \in Nat
  BY <1>7, SumNat, ScriptFacts DEF Total
<1> QED BY <1>4, <1>6, <1>7, <1>8, <1>9

(* The balances of a pkscript that is not touched keep their value, even   *)
(* where the module's own available balance may wrap.                      *)
LEMMA OtherBalances ==
  ASSUME NEW bal \in Balances, NEW t \in Ticks, NEW p \in Scripts, NEW n \in 0 .. MaxAmount,
         NEW new, new = Credit(bal, t, p, n) \/ new = Debit(bal, t, p, n)
  PROVE  /\ new \in Balances
         /\ \A u \in Ticks \ {t} : new[u] = bal[u]
         /\ \A q \in Scripts \ {p} : new[t][q] = bal[t][q]
<1>1. new \in Balances
  BY BalanceTypes
<1> QED BY <1>1 DEF Credit, Debit, Balances


-----------------------------------------------------------------------------
Money == SupplyConserved /\ EscrowBacked /\ ProgSolvent

(* The money invariants, ticker by ticker.                                 *)
MoneyOf(t) ==
  /\ Total(overall, t) + tickers[t].remaining + tickers[t].burned = tickers[t].max
  /\ \A p \in Scripts \ {Prog} : overall[t][p] = available[t][p] + Held(t, p)
  /\ evm[t] <= overall[t][Prog]

(* They are the three invariants of the ledger.                            *)
LEMMA MoneyByTicker == Money <=> \A t \in Ticks : MoneyOf(t)
  BY DEF Money, MoneyOf, SupplyConserved, EscrowBacked, ProgSolvent, Total, Held

(* The same for the state after a step.                                    *)
LEMMA MoneyByTickerNext == (\A t \in Ticks : MoneyOf(t)') => Money'
  BY DEF Money, MoneyOf, SupplyConserved, EscrowBacked, ProgSolvent, Total, Held

(* A step that changes no balance and no unspent transfer inscription      *)
(* keeps all money where it is.                                            *)
LEMMA MoneyFrame ==
  ASSUME Money, UNCHANGED <<tickers, overall, available, evm>>,
         \A i \in Inscriptions :
           /\ LiveTransfer(i)' <=> LiveTransfer(i)
           /\ LiveTransfer(i) => /\ chain'[i].tick = chain[i].tick
                                 /\ chain'[i].amt = chain[i].amt
                                 /\ chain'[i].source = chain[i].source
  PROVE  Money'
<1>1. ASSUME NEW t \in Ticks PROVE MoneyOf(t)'
  <2>1. \A p \in Scripts : Held(t, p)' = Held(t, p)
    BY HeldFrame
  <2> QED BY <2>1, MoneyByTicker DEF MoneyOf, Total
<1> QED BY <1>1, MoneyByTickerNext

(* The balances of one ticker as the numbers the proofs reason about.      *)
LEMMA Numbers ==
  ASSUME TypeOK, CachesAgree, Money, NEW t \in Ticks
  PROVE  /\ overall \in Balances /\ available \in Balances
         /\ \A p \in Scripts : /\ overall[t][p] \in Nat /\ available[t][p] \in Nat
                               /\ Held(t, p) \in Nat
                               /\ overall[t][p] <= Total(overall, t)
         /\ \A p \in Scripts \ {Prog} : overall[t][p] = available[t][p] + Held(t, p)
         /\ evm[t] \in Nat /\ evm[t] <= overall[t][Prog]
         /\ Total(overall, t) \in Nat
         /\ tickers[t].remaining \in Nat /\ tickers[t].burned \in Nat
         /\ tickers[t].max \in Nat /\ tickers[t].max <= MaxAmount
         /\ Total(overall, t) + tickers[t].remaining + tickers[t].burned = tickers[t].max
         /\ MaxAmount \in Nat /\ Width \in Nat /\ MaxAmount < Width
<1>1. overall \in Balances /\ available \in Balances /\ evm[t] \in Nat
  BY DEF TypeOK, Balances
<1>2. MaxAmount \in Nat /\ Width \in Nat /\ MaxAmount < Width
  BY LedgerAssumption
<1>3. \A p \in Scripts : available[t][p] \in Nat /\ Held(t, p) \in Nat
  BY <1>1, <1>2, EscrowsNat DEF Balances
<1>4. MoneyOf(t) /\ SupplyConserved
  BY MoneyByTicker DEF Money
<1> QED BY <1>1, <1>2, <1>3, <1>4, TotalBound DEF MoneyOf

(* An accepted transfer spends a live inscription of a wallet that has its *)
(* amount in escrow, and releases that escrow.                             *)
LEMMA TransferReleases ==
  ASSUME TypeOK, CachesAgree, Money, TypeOK', CachesAgree',
         NEW i \in Inscriptions, NEW dest \in Dests, AcceptedTransfer(i, dest),
         NEW T, NEW S, NEW N, T = chain[i].tick, S = chain[i].source, N = chain[i].amt
  PROVE  /\ T \in Ticks /\ S \in Wallets /\ S \in Scripts \ {Prog} /\ N \in Nat /\ N <= MaxAmount
         /\ N <= Held(T, S)
         /\ N <= overall[T][S]
         /\ \A t, p : Held(t, p)' = IF t = T /\ p = S THEN Held(t, p) - N ELSE Held(t, p)
<1>1. Accepts(i) /\ Spend(i, "transfer", dest) /\ RecordMove(i) /\ i \in inscribed
  BY DEF AcceptedTransfer
<1>2. /\ chain[i] \in Revealed /\ chain[i].op = "transfer"
      /\ chain[i].tick \in Ticks /\ chain[i].amt \in 1 .. MaxAmount
      /\ chain[i].source \in Scripts /\ chain[i].at \in Wallets \cup {Fee}
      /\ \A j \in Inscriptions \ {i} : chain'[j] = chain[j]
  BY <1>1, SpendFrame
<1>3. i \in inscribed \ moved /\ chain[i].at = chain[i].source
  BY <1>1 DEF CachesAgree, SpendableIffUnspent
<1>4. S \in Wallets /\ S \in Scripts \ {Prog}
  BY <1>2, <1>3, ScriptFacts
<1>5. inscribed' = inscribed /\ moved' = moved \cup {i}
  BY <1>1 DEF RecordMove
<1>6. LiveTransfer(i) /\ ~LiveTransfer(i)'
  BY <1>2, <1>3, <1>5 DEF LiveTransfer
<1>7. \A j \in Inscriptions \ {i} : (LiveTransfer(j)' <=> LiveTransfer(j)) /\ chain'[j] = chain[j]
  BY <1>2, <1>5 DEF LiveTransfer
<1>8. \A t, p : /\ Held(t, p)' = IF chain[i].tick = t /\ chain[i].source = p
                                 THEN Held(t, p) - chain[i].amt ELSE Held(t, p)
                /\ chain[i].tick = t /\ chain[i].source = p => chain[i].amt <= Held(t, p)
  BY <1>6, <1>7, HeldRemove
<1>9. N <= Held(T, S) /\ T \in Ticks /\ N \in Nat /\ N <= MaxAmount
  BY <1>2, <1>8, LedgerAssumption
<1>10. N <= overall[T][S]
  BY <1>4, <1>9, Numbers
<1> QED BY <1>4, <1>8, <1>9, <1>10

(* A withdraw, spent or revealed, does not touch transfer escrows.         *)
LEMMA WithdrawReleasesNothing ==
  ASSUME TypeOK, NEW i \in Inscriptions, NEW dest \in Dests,
         Spend(i, "withdraw", dest), inscribed' = inscribed,
         moved' = moved \/ moved' = moved \cup {i}
  PROVE  \A j \in Inscriptions :
           /\ LiveTransfer(j)' <=> LiveTransfer(j)
           /\ LiveTransfer(j) => /\ chain'[j].tick = chain[j].tick
                                 /\ chain'[j].amt = chain[j].amt
                                 /\ chain'[j].source = chain[j].source
<1>1. /\ chain[i] \in Revealed /\ chain[i].op = "withdraw"
      /\ chain'[i] = [chain[i] EXCEPT !.at = dest]
      /\ \A j \in Inscriptions \ {i} : chain'[j] = chain[j]
  BY SpendFrame
<1>2. chain'[i].op = "withdraw"
  BY <1>1 DEF Revealed
<1> QED BY <1>1, <1>2 DEF LiveTransfer

-----------------------------------------------------------------------------
(* Balances never exceed the sum over all pkscripts.                       *)
LEMMA MemberTotal ==
  ASSUME NEW bal \in Balances, NEW t \in Ticks
  PROVE  /\ Total(bal, t) \in Nat
         /\ \A p \in Scripts : bal[t][p] \in Nat /\ bal[t][p] <= Total(bal, t)
<1>1. IsFiniteSet(Scripts) /\ \A p \in Scripts : bal[t][p] \in Nat
  BY ScriptFacts, LedgerAssumption DEF Balances
<1> QED BY <1>1, SumNat, SumMember DEF Total

(* Moving an amount between two pkscripts keeps the total.                 *)
LEMMA MoveTotal ==
  ASSUME NEW bal \in Balances, NEW t \in Ticks, NEW p \in Scripts, NEW q \in Scripts,
         NEW n \in Nat, n <= bal[t][p], Total(bal, t) < Width,
         NEW new, new = Credit(Debit(bal, t, p, n), t, q, n)
  PROVE  /\ new \in Balances
         /\ \A u \in Ticks \ {t} : new[u] = bal[u]
         /\ p # q => new[t][p] = bal[t][p] - n /\ new[t][q] = bal[t][q] + n
         /\ p = q => new[t][p] = bal[t][p]
         /\ \A r \in Scripts \ {p, q} : new[t][r] = bal[t][r]
         /\ p # q => bal[t][q] + n <= Total(bal, t)
         /\ Total(new, t) = Total(bal, t)
<1> DEFINE mid == Debit(bal, t, p, n)
<1>1. /\ mid \in Balances
      /\ mid[t][p] = bal[t][p] - n
      /\ \A r \in Scripts \ {p} : mid[t][r] = bal[t][r]
      /\ \A u \in Ticks \ {t} : mid[u] = bal[u]
      /\ Total(mid, t) = Total(bal, t) - n
  BY DebitTotal
<1> HIDE DEF mid
<1>2. /\ Total(mid, t) \in Nat /\ mid[t][q] \in Nat /\ mid[t][q] <= Total(mid, t)
      /\ Total(bal, t) \in Nat /\ bal[t][p] \in Nat /\ bal[t][q] \in Nat
  BY <1>1, MemberTotal
<1>3. Width \in Nat
  BY LedgerAssumption
<1>4. mid[t][q] + n <= Total(bal, t) /\ mid[t][q] + n < Width
  BY <1>1, <1>2, <1>3
<1>5. new = Credit(mid, t, q, n)
  BY DEF mid
<1>6. /\ new \in Balances
      /\ new[t][q] = mid[t][q] + n
      /\ \A r \in Scripts \ {q} : new[t][r] = mid[t][r]
      /\ \A u \in Ticks \ {t} : new[u] = mid[u]
      /\ Total(new, t) = Total(mid, t) + n
  BY <1>1, <1>4, <1>5, CreditTotal
<1>7. Total(new, t) = Total(bal, t)
  BY <1>1, <1>2, <1>6
<1>8. p = q => new[t][p] = bal[t][p]
  BY <1>1, <1>2, <1>6
<1> QED BY <1>1, <1>2, <1>4, <1>6, <1>7, <1>8

(* A step on one ticker keeps the money of all others.                     *)
LEMMA OneTicker ==
  ASSUME Money, NEW T \in Ticks, MoneyOf(T)',
         \A u \in Ticks \ {T} :
           /\ tickers'[u] = tickers[u] /\ overall'[u] = overall[u]
           /\ available'[u] = available[u] /\ evm'[u] = evm[u]
           /\ \A p \in Scripts : Held(u, p)' = Held(u, p)
  PROVE  Money'
<1>1. ASSUME NEW u \in Ticks \ {T} PROVE MoneyOf(u)'
  <2>1. MoneyOf(u)
    BY MoneyByTicker
  <2> QED BY <2>1 DEF MoneyOf, Total
<1>2. \A u \in Ticks : MoneyOf(u)'
  BY <1>1
<1> QED BY <1>2, MoneyByTickerNext

(* A step that leaves events and feed alone leaves all escrows alone.      *)
LEMMA NoHeldChange ==
  ASSUME UNCHANGED <<inscribed, moved, chain>>, NEW t, NEW p
  PROVE  Held(t, p)' = Held(t, p)
  BY HeldFrame DEF LiveTransfer

(* A new ticker has its supply still to be minted.                         *)
LEMMA DeployMoney ==
  ASSUME TypeOK, Fresh, CachesAgree, Money, NEW T \in Ticks, NEW max \in Amounts,
         NEW limit \in Amounts, NEW selfMint \in BOOLEAN, Deploy(T, max, limit, selfMint)
  PROVE  Money'
<1>1. /\ tickers[T] = NoTicker
      /\ tickers' = [tickers EXCEPT ![T] =
           [deployed |-> TRUE, max |-> max, remaining |-> max, burned |-> 0,
            limit |-> limit, selfMint |-> selfMint]]
      /\ UNCHANGED <<overall, available, chain, inscribed, moved, evm>>
  BY DEF Deploy, Fresh, eventVars
<1>2. /\ tickers'[T].max = max /\ tickers'[T].remaining = max /\ tickers'[T].burned = 0
      /\ \A u \in Ticks \ {T} : tickers'[u] = tickers[u]
  BY <1>1 DEF TypeOK
<1>3. \A u, p : Held(u, p)' = Held(u, p)
  BY <1>1, NoHeldChange
<1>4. MoneyOf(T)
  BY MoneyByTicker
<1>5. Total(overall, T) = 0
  BY <1>1, <1>4, Numbers DEF NoTicker, MoneyOf
<1>6. Total(overall, T)' = 0
  BY <1>1, <1>5 DEF Total
<1>7. MoneyOf(T)'
  BY <1>1, <1>2, <1>3, <1>4, <1>6 DEF MoneyOf, Amounts
<1> QED BY <1>1, <1>2, <1>3, <1>7, OneTicker

(* A mint moves tokens from the remaining supply to a pkscript.            *)
LEMMA MintMoney ==
  ASSUME TypeOK, CachesAgree, Money, NEW T \in Ticks, NEW p \in Scripts,
         NEW amt \in Amounts, NEW child \in BOOLEAN, Mint(T, p, amt, child)
  PROVE  Money'
<1> DEFINE n == IF amt > tickers[T].remaining THEN tickers[T].remaining ELSE amt
<1>1. /\ tickers' = [tickers EXCEPT ![T].remaining = @ - n]
      /\ overall' = Credit(overall, T, p, n)
      /\ available' = Credit(available, T, p, n)
      /\ UNCHANGED <<chain, inscribed, moved, evm>>
  BY DEF Mint, eventVars
<1>2. n \in Nat /\ n <= tickers[T].remaining /\ n \in 0 .. MaxAmount
  BY Numbers DEF Amounts, TypeOK, Ticker
<1> HIDE DEF n
<1>3. overall[T][p] + n < Width /\ (p # Prog => available[T][p] + n < Width)
  BY <1>2, Numbers
<1>4. /\ \A q \in Scripts \ {p} : overall'[T][q] = overall[T][q]
      /\ \A u \in Ticks \ {T} : overall'[u] = overall[u]
      /\ overall'[T][p] = overall[T][p] + n
      /\ Total(overall, T)' = Total(overall, T) + n
  <2>1. overall \in Balances
    BY Numbers
  <2> QED BY <1>1, <1>2, <1>3, <2>1, CreditTotal DEF Total
<1>5. /\ \A q \in Scripts \ {p} : available'[T][q] = available[T][q]
      /\ \A u \in Ticks \ {T} : available'[u] = available[u]
      /\ p # Prog => available'[T][p] = available[T][p] + n
  <2>1. available \in Balances
    BY Numbers
  <2> QED BY <1>1, <1>2, <1>3, <2>1, CreditTotal, OtherBalances
<1>6. /\ tickers'[T].max = tickers[T].max /\ tickers'[T].burned = tickers[T].burned
      /\ tickers'[T].remaining = tickers[T].remaining - n
      /\ \A u \in Ticks \ {T} : tickers'[u] = tickers[u]
  BY <1>1 DEF TypeOK, Ticker
<1>7. \A u, q : Held(u, q)' = Held(u, q)
  BY <1>1, NoHeldChange
<1>8. MoneyOf(T)'
  <2>1. ASSUME NEW q \in Scripts \ {Prog} PROVE overall'[T][q] = available'[T][q] + Held(T, q)'
    BY <1>2, <1>4, <1>5, <1>7, Numbers
  <2>2. evm'[T] <= overall'[T][Prog]
    BY <1>1, <1>2, <1>4, Numbers, ScriptFacts
  <2>3. Total(overall, T)' + tickers'[T].remaining + tickers'[T].burned = tickers'[T].max
    BY <1>2, <1>4, <1>6, Numbers
  <2> QED BY <2>1, <2>2, <2>3 DEF MoneyOf
<1> QED BY <1>1, <1>4, <1>5, <1>6, <1>7, <1>8, OneTicker

(* Inscribing a transfer moves its amount from available to escrow.        *)
LEMMA InscribeMoney ==
  ASSUME TypeOK, CachesAgree, Money, TypeOK', CachesAgree',
         NEW i \in Inscriptions, NEW T \in Ticks, NEW n \in Amounts, NEW S \in Scripts,
         InscribeTransfer(i, T, n, S)
  PROVE  Money'
<1>1. /\ available[T][S] >= n
      /\ available' = Debit(available, T, S, n)
      /\ UNCHANGED <<tickers, overall, evm>>
      /\ inscribed' = inscribed \cup {i} /\ moved' = moved
  BY DEF InscribeTransfer, Reveal, RecordInscribe
<1>2. /\ i \notin inscribed
      /\ \A j \in Inscriptions \ {i} : chain'[j] = chain[j]
      /\ chain'[i].op = "transfer" /\ chain'[i].tick = T /\ chain'[i].amt = n
      /\ chain'[i].source = S
  BY RevealFrame DEF InscribeTransfer
<1>3. ~LiveTransfer(i) /\ LiveTransfer(i)'
      /\ \A j \in Inscriptions \ {i} : LiveTransfer(j)' <=> LiveTransfer(j)
  BY <1>1, <1>2 DEF LiveTransfer, CachesAgree
<1>4. \A t, p : Held(t, p)' = IF t = T /\ p = S THEN Held(t, p) + n ELSE Held(t, p)
  <2> TAKE t, p
  <2>1. Held(t, p)' = IF chain'[i].tick = t /\ chain'[i].source = p
                      THEN Held(t, p) + chain'[i].amt ELSE Held(t, p)
    BY <1>2, <1>3, HeldAdd
  <2> QED BY <1>2, <2>1
<1>5. n \in Nat /\ available \in Balances
  BY Numbers DEF Amounts
<1>6. /\ available'[T][S] = available[T][S] - n
      /\ \A p \in Scripts \ {S} : available'[T][p] = available[T][p]
      /\ \A u \in Ticks \ {T} : available'[u] = available[u]
  <2> DEFINE new == available'
  <2>1. new = Debit(available, T, S, n) /\ n <= available[T][S]
    BY <1>1, <1>5, Numbers
  <2> HIDE DEF new
  <2>2. /\ new[T][S] = available[T][S] - n
        /\ \A p \in Scripts \ {S} : new[T][p] = available[T][p]
        /\ \A u \in Ticks \ {T} : new[u] = available[u]
    BY <1>5, <2>1, DebitTotal
  <2> QED BY <2>2 DEF new
<1>7. MoneyOf(T)'
  <2>1. MoneyOf(T)
    BY MoneyByTicker
  <2>2. ASSUME NEW p \in Scripts \ {Prog} PROVE overall'[T][p] = available'[T][p] + Held(T, p)'
    BY <1>1, <1>4, <1>5, <1>6, Numbers
  <2> QED BY <1>1, <2>1, <2>2 DEF MoneyOf, Total
<1> QED BY <1>1, <1>4, <1>6, <1>7, OneTicker

(* A transfer spent as fee gives its escrow back.                          *)
LEMMA FeeMoney ==
  ASSUME TypeOK, CachesAgree, Money, TypeOK', CachesAgree',
         NEW i \in Inscriptions, TransferToFee(i),
         NEW T, NEW S, NEW N, T = chain[i].tick, S = chain[i].source, N = chain[i].amt
  PROVE  Money'
<1>1. /\ AcceptedTransfer(i, Fee)
      /\ available' = Credit(available, T, S, N)
      /\ UNCHANGED <<tickers, overall, evm>>
  BY DEF TransferToFee
<1>2. /\ T \in Ticks /\ S \in Wallets /\ S \in Scripts \ {Prog} /\ N \in Nat /\ N <= MaxAmount
      /\ N <= Held(T, S) /\ N <= overall[T][S]
      /\ \A t, p : Held(t, p)' = IF t = T /\ p = S THEN Held(t, p) - N ELSE Held(t, p)
  BY <1>1, TransferReleases DEF Dests
<1>3. available \in Balances /\ available[T][S] + N < Width
  BY <1>2, Numbers
<1>4. /\ available'[T][S] = available[T][S] + N
      /\ \A p \in Scripts \ {S} : available'[T][p] = available[T][p]
      /\ \A u \in Ticks \ {T} : available'[u] = available[u]
  BY <1>1, <1>2, <1>3, CreditTotal
<1>5. MoneyOf(T)'
  <2>1. MoneyOf(T)
    BY <1>2, MoneyByTicker
  <2>2. ASSUME NEW p \in Scripts \ {Prog} PROVE overall'[T][p] = available'[T][p] + Held(T, p)'
    BY <1>1, <1>2, <1>4, Numbers
  <2> QED BY <1>1, <2>1, <2>2 DEF MoneyOf, Total
<1> QED BY <1>1, <1>2, <1>4, <1>5, OneTicker

(* A burn takes the escrowed amount from its owner and counts it.          *)
LEMMA BurnMoney ==
  ASSUME TypeOK, CachesAgree, Money, TypeOK', CachesAgree',
         NEW i \in Inscriptions, NEW dest \in Dests, AcceptedTransfer(i, dest), BurnFrom(chain[i]),
         NEW T, NEW S, NEW N, T = chain[i].tick, S = chain[i].source, N = chain[i].amt
  PROVE  Money'
<1>1. /\ overall' = Debit(overall, T, S, N)
      /\ tickers' = [tickers EXCEPT ![T].burned = Plus(@, N)]
      /\ UNCHANGED <<available, evm>>
  BY DEF BurnFrom
<1>2. /\ T \in Ticks /\ S \in Wallets /\ S \in Scripts \ {Prog} /\ N \in Nat /\ N <= MaxAmount
      /\ N <= Held(T, S) /\ N <= overall[T][S]
      /\ \A t, p : Held(t, p)' = IF t = T /\ p = S THEN Held(t, p) - N ELSE Held(t, p)
  BY TransferReleases
<1>3. /\ overall'[T][S] = overall[T][S] - N
      /\ \A p \in Scripts \ {S} : overall'[T][p] = overall[T][p]
      /\ \A u \in Ticks \ {T} : overall'[u] = overall[u]
      /\ Total(overall, T)' = Total(overall, T) - N
  <2>1. overall \in Balances
    BY <1>2, Numbers
  <2> QED BY <1>1, <1>2, <2>1, DebitTotal DEF Total
<1>4. Plus(tickers[T].burned, N) = tickers[T].burned + N
  BY <1>2, Numbers DEF Plus
<1>5. /\ tickers'[T].max = tickers[T].max /\ tickers'[T].remaining = tickers[T].remaining
      /\ tickers'[T].burned = tickers[T].burned + N
      /\ \A u \in Ticks \ {T} : tickers'[u] = tickers[u]
  BY <1>1, <1>2, <1>4 DEF TypeOK, Ticker
<1>6. MoneyOf(T)'
  <2>1. ASSUME NEW p \in Scripts \ {Prog} PROVE overall'[T][p] = available'[T][p] + Held(T, p)'
    BY <1>1, <1>2, <1>3, Numbers
  <2>2. evm'[T] <= overall'[T][Prog]
    BY <1>1, <1>2, <1>3, Numbers, ScriptFacts
  <2>3. Total(overall, T)' + tickers'[T].remaining + tickers'[T].burned = tickers'[T].max
    BY <1>2, <1>3, <1>5, Numbers
  <2> QED BY <2>1, <2>2, <2>3 DEF MoneyOf
<1> QED BY <1>1, <1>2, <1>3, <1>5, <1>6, OneTicker

(* A transfer to another pkscript moves the escrowed amount there; what    *)
(* the EVM gains from a deposit is backed by the module's new balance.     *)
LEMMA TransferMoney ==
  ASSUME TypeOK, CachesAgree, Money, TypeOK', CachesAgree',
         NEW i \in Inscriptions, NEW dest \in Scripts, AcceptedTransfer(i, dest),
         NEW T, NEW S, NEW N, T = chain[i].tick, S = chain[i].source, N = chain[i].amt,
         overall' = Credit(Debit(overall, T, S, N), T, dest, N),
         available' = Credit(available, T, dest, N),
         UNCHANGED tickers,
         evm' = evm \/ (dest = Prog /\ evm' = [evm EXCEPT ![T] = @ + N])
  PROVE  Money'
<1>1. /\ T \in Ticks /\ S \in Wallets /\ S \in Scripts \ {Prog} /\ N \in Nat /\ N <= MaxAmount
      /\ N <= Held(T, S) /\ N <= overall[T][S]
      /\ \A t, p : Held(t, p)' = IF t = T /\ p = S THEN Held(t, p) - N ELSE Held(t, p)
  BY TransferReleases DEF Dests
<1>2. overall \in Balances /\ available \in Balances /\ Total(overall, T) < Width
  BY <1>1, Numbers
<1>3. /\ \A u \in Ticks \ {T} : overall'[u] = overall[u]
      /\ S # dest => overall'[T][S] = overall[T][S] - N /\ overall'[T][dest] = overall[T][dest] + N
      /\ S = dest => overall'[T][S] = overall[T][S]
      /\ \A r \in Scripts \ {S, dest} : overall'[T][r] = overall[T][r]
      /\ S # dest => overall[T][dest] + N <= Total(overall, T)
      /\ Total(overall, T)' = Total(overall, T)
  <2> DEFINE new == overall'
  <2>1. new = Credit(Debit(overall, T, S, N), T, dest, N)
    OBVIOUS
  <2>2. Total(overall, T)' = Total(new, T)
    BY DEF Total
  <2> HIDE DEF new
  <2>3. /\ \A u \in Ticks \ {T} : new[u] = overall[u]
        /\ S # dest => new[T][S] = overall[T][S] - N /\ new[T][dest] = overall[T][dest] + N
        /\ S = dest => new[T][S] = overall[T][S]
        /\ \A r \in Scripts \ {S, dest} : new[T][r] = overall[T][r]
        /\ S # dest => overall[T][dest] + N <= Total(overall, T)
        /\ Total(new, T) = Total(overall, T)
    BY <1>1, <1>2, <2>1, MoveTotal
  <2> QED BY <2>2, <2>3 DEF new
<1>4. dest # Prog => available[T][dest] + N < Width
  <2>1. CASE S = dest
    BY <1>1, <2>1, Numbers
  <2>2. CASE S # dest
    BY <1>1, <1>3, <2>2, Numbers
  <2> QED BY <2>1, <2>2
<1>5. /\ dest # Prog => available'[T][dest] = available[T][dest] + N
      /\ \A p \in Scripts \ {dest} : available'[T][p] = available[T][p]
      /\ \A u \in Ticks \ {T} : available'[u] = available[u]
  BY <1>1, <1>2, <1>4, CreditTotal, OtherBalances
<1>6. /\ \A u \in Ticks \ {T} : evm'[u] = evm[u]
      /\ evm'[T] = evm[T] \/ (dest = Prog /\ evm'[T] = evm[T] + N)
  BY <1>1 DEF TypeOK
<1>7. MoneyOf(T)'
  <2>1. ASSUME NEW p \in Scripts \ {Prog} PROVE overall'[T][p] = available'[T][p] + Held(T, p)'
    <3>1. CASE p = S /\ p = dest
      <4>1. overall'[T][p] = overall[T][p] /\ available'[T][p] = available[T][p] + N
        BY <1>3, <1>5, <3>1
      <4>2. Held(T, p)' = Held(T, p) - N
        BY <1>1, <3>1
      <4>3. overall[T][p] = available[T][p] + Held(T, p)
        BY <1>1, Numbers
      <4>4. available[T][p] \in Nat /\ Held(T, p) \in Nat /\ N \in Nat
        BY <1>1, Numbers
      <4> QED BY <4>1, <4>2, <4>3, <4>4
    <3>2. CASE p = S /\ p # dest
      <4>1. overall'[T][p] = overall[T][p] - N /\ available'[T][p] = available[T][p]
        BY <1>3, <1>5, <3>2
      <4>2. Held(T, p)' = Held(T, p) - N
        BY <1>1, <3>2
      <4>3. overall[T][p] = available[T][p] + Held(T, p)
        BY <1>1, Numbers
      <4>4. available[T][p] \in Nat /\ Held(T, p) \in Nat /\ N \in Nat
        BY <1>1, Numbers
      <4> QED BY <4>1, <4>2, <4>3, <4>4
    <3>3. CASE p # S /\ p = dest
      <4>1. overall'[T][p] = overall[T][p] + N /\ available'[T][p] = available[T][p] + N
        BY <1>3, <1>5, <3>3
      <4>2. Held(T, p)' = Held(T, p)
        BY <1>1, <3>3
      <4>3. overall[T][p] = available[T][p] + Held(T, p)
        BY <1>1, Numbers
      <4>4. available[T][p] \in Nat /\ Held(T, p) \in Nat /\ N \in Nat
        BY <1>1, Numbers
      <4> QED BY <4>1, <4>2, <4>3, <4>4
    <3>4. CASE p # S /\ p # dest
      BY <1>1, <1>3, <1>5, <3>4, Numbers
    <3> QED BY <3>1, <3>2, <3>3, <3>4
  <2>2. evm'[T] <= overall'[T][Prog]
    <3>1. evm[T] \in Nat /\ evm[T] <= overall[T][Prog] /\ overall[T][Prog] \in Nat
      BY <1>1, Numbers, ScriptFacts
    <3>2. CASE dest = Prog
      BY <1>1, <1>3, <1>6, <3>1, <3>2
    <3>3. CASE dest # Prog
      BY <1>1, <1>3, <1>6, <3>1, <3>3, ScriptFacts
    <3> QED BY <3>2, <3>3
  <2>3. MoneyOf(T)
    BY <1>1, MoneyByTicker
  <2> QED BY <1>3, <2>1, <2>2, <2>3 DEF MoneyOf
<1> QED BY <1>1, <1>3, <1>5, <1>6, <1>7, OneTicker

(* A paid withdraw moves from the module to a pkscript what the EVM gives  *)
(* up.  The module owns as much as the EVM holds, so its balance does not  *)
(* wrap.                                                                   *)
LEMMA WithdrawMoney ==
  ASSUME TypeOK, CachesAgree, Money, TypeOK', CachesAgree',
         NEW i \in Inscriptions, NEW dest \in Dests, WithdrawPaid(i, dest)
  PROVE  Money'
<1>1. PICK T, S, N : T = chain[i].tick /\ S = chain[i].source /\ N = chain[i].amt
  OBVIOUS
<1>2. /\ dest \in Wallets
      /\ Spend(i, "withdraw", dest) /\ RecordMove(i)
      /\ evm[T] >= N
      /\ evm' = [evm EXCEPT ![T] = @ - N]
      /\ overall' = Credit(Debit(overall, T, Prog, N), T, dest, N)
      /\ available' = Credit(Debit(available, T, Prog, N), T, dest, N)
      /\ UNCHANGED tickers
  BY <1>1 DEF WithdrawPaid, AcceptedWithdraw
<1>3. T \in Ticks /\ N \in Nat /\ N <= MaxAmount /\ dest \in Scripts \ {Prog} /\ Prog \in Scripts
  <2>1. chain[i].tick \in Ticks /\ chain[i].amt \in 1 .. MaxAmount
    BY <1>2, SpendFrame
  <2>2. dest \in Scripts \ {Prog} /\ Prog \in Scripts
    BY <1>2, ScriptFacts
  <2> QED BY <1>1, <2>1, <2>2, LedgerAssumption
<1>4. \A t, p : Held(t, p)' = Held(t, p)
  BY <1>2, WithdrawReleasesNothing, HeldFrame DEF RecordMove
<1>5. N <= overall[T][Prog] /\ overall \in Balances /\ available \in Balances /\ Total(overall, T) < Width
  BY <1>2, <1>3, Numbers
<1>6. /\ \A u \in Ticks \ {T} : overall'[u] = overall[u]
      /\ overall'[T][Prog] = overall[T][Prog] - N /\ overall'[T][dest] = overall[T][dest] + N
      /\ \A r \in Scripts \ {Prog, dest} : overall'[T][r] = overall[T][r]
      /\ overall[T][dest] + N <= Total(overall, T)
      /\ Total(overall, T)' = Total(overall, T)
  <2> DEFINE new == overall'
  <2>1. new = Credit(Debit(overall, T, Prog, N), T, dest, N)
    BY <1>2
  <2>2. Total(overall, T)' = Total(new, T)
    BY DEF Total
  <2> HIDE DEF new
  <2>3. /\ \A u \in Ticks \ {T} : new[u] = overall[u]
        /\ new[T][Prog] = overall[T][Prog] - N /\ new[T][dest] = overall[T][dest] + N
        /\ \A r \in Scripts \ {Prog, dest} : new[T][r] = overall[T][r]
        /\ overall[T][dest] + N <= Total(overall, T)
        /\ Total(new, T) = Total(overall, T)
    BY <1>3, <1>5, <2>1, MoveTotal
  <2> QED BY <2>2, <2>3 DEF new
<1>7. /\ \A u \in Ticks \ {T} : available'[u] = available[u]
      /\ available'[T][dest] = available[T][dest] + N
      /\ \A r \in Scripts \ {Prog, dest} : available'[T][r] = available[T][r]
  <2> DEFINE mid == Debit(available, T, Prog, N)
             new == available'
  <2>1. new = Credit(mid, T, dest, N)
    BY <1>2
  <2>2. /\ mid \in Balances
        /\ \A u \in Ticks \ {T} : mid[u] = available[u]
        /\ \A r \in Scripts \ {Prog} : mid[T][r] = available[T][r]
    BY <1>3, <1>5, OtherBalances, LedgerAssumption
  <2> HIDE DEF mid, new
  <2>3. mid[T][dest] + N < Width
    BY <1>3, <1>6, <2>2, Numbers
  <2>4. /\ new[T][dest] = mid[T][dest] + N
        /\ \A r \in Scripts \ {dest} : new[T][r] = mid[T][r]
        /\ \A u \in Ticks \ {T} : new[u] = mid[u]
    BY <1>3, <2>1, <2>2, <2>3, CreditTotal
  <2> QED BY <1>3, <2>2, <2>4 DEF new
<1>8. evm'[T] = evm[T] - N /\ \A u \in Ticks \ {T} : evm'[u] = evm[u]
  BY <1>2, <1>3 DEF TypeOK
<1>9. MoneyOf(T)'
  <2>1. ASSUME NEW p \in Scripts \ {Prog} PROVE overall'[T][p] = available'[T][p] + Held(T, p)'
    <3>1. /\ overall[T][p] = available[T][p] + Held(T, p)
          /\ available[T][p] \in Nat /\ Held(T, p) \in Nat
      BY <1>3, Numbers
    <3>2. CASE p = dest
      BY <1>3, <1>4, <1>6, <1>7, <3>1, <3>2
    <3>3. CASE p # dest
      BY <1>4, <1>6, <1>7, <3>1, <3>3
    <3> QED BY <3>2, <3>3
  <2>2. evm'[T] <= overall'[T][Prog]
    BY <1>3, <1>6, <1>8, Numbers
  <2>3. MoneyOf(T)
    BY <1>3, MoneyByTicker
  <2> QED BY <1>2, <1>6, <2>1, <2>2, <2>3 DEF MoneyOf
<1> QED BY <1>2, <1>3, <1>4, <1>6, <1>7, <1>8, <1>9, OneTicker

(* The swap refund moves the module's whole balance, which is available,   *)
(* to the refund address, in every ticker.                                 *)
LEMMA RefundMoney ==
  ASSUME TypeOK, CachesAgree, Money, RefundAll,
         UNCHANGED <<tickers, evm, chain, inscribed, moved>>
  PROVE  Money'
<1>1. ASSUME NEW T \in Ticks PROVE MoneyOf(T)'
  <2>1. PICK N : N = overall[T][Swap]
    OBVIOUS
  <2>2. Swap \in Scripts \ {Prog} /\ Refund \in Scripts \ {Prog} /\ Swap # Refund /\ Prog \in Scripts
    BY ScriptFacts
  <2>3. N \in Nat /\ overall \in Balances /\ available \in Balances /\ Total(overall, T) < Width
    BY <2>1, <2>2, Numbers
  <2>4. available[T][Swap] = N /\ Held(T, Swap) = 0
    BY <2>1, <2>2, Numbers DEF RefundAll
  <2>5. /\ overall'[T] = [overall[T] EXCEPT ![Swap] = 0, ![Refund] = Plus(@, N)]
        /\ available'[T] = [available[T] EXCEPT ![Swap] = Minus(@, N), ![Refund] = Plus(@, N)]
    BY <2>1 DEF RefundAll
  <2>6. PICK new : new = Credit(Debit(overall, T, Swap, N), T, Refund, N)
    OBVIOUS
  <2>7. /\ new \in Balances
        /\ new[T][Swap] = overall[T][Swap] - N /\ new[T][Refund] = overall[T][Refund] + N
        /\ \A r \in Scripts \ {Swap, Refund} : new[T][r] = overall[T][r]
        /\ overall[T][Refund] + N <= Total(overall, T)
        /\ Total(new, T) = Total(overall, T)
    BY <2>1, <2>2, <2>3, <2>6, MoveTotal
  <2>8. /\ overall[T][Refund] \in Nat /\ available[T][Refund] \in Nat
        /\ overall[T][Refund] = available[T][Refund] + Held(T, Refund)
        /\ Held(T, Refund) \in Nat /\ Total(overall, T) \in Nat /\ Width \in Nat
    BY <2>2, Numbers
  <2>9. /\ Plus(overall[T][Refund], N) = overall[T][Refund] + N
        /\ Plus(available[T][Refund], N) = available[T][Refund] + N
        /\ Minus(available[T][Swap], N) = 0
    BY <2>3, <2>4, <2>7, <2>8 DEF Plus, Minus
  <2>10. /\ overall'[T][Swap] = 0 /\ overall'[T][Refund] = overall[T][Refund] + N
         /\ \A r \in Scripts \ {Swap, Refund} : overall'[T][r] = overall[T][r]
    BY <2>2, <2>3, <2>5, <2>9 DEF Balances
  <2>11. /\ available'[T][Swap] = 0 /\ available'[T][Refund] = available[T][Refund] + N
         /\ \A r \in Scripts \ {Swap, Refund} : available'[T][r] = available[T][r]
    BY <2>2, <2>3, <2>5, <2>9 DEF Balances
  <2>12. Total(overall, T)' = Total(overall, T)
    <3> DEFINE f == overall'[T]
               g == new[T]
    <3>1. \A r \in Scripts : f[r] = g[r]
      BY <2>1, <2>3, <2>7, <2>10
    <3> HIDE DEF f, g
    <3>2. SumFunctionOnSet(f, Scripts) = SumFunctionOnSet(g, Scripts)
      BY <3>1, ScriptFacts, SumSame
    <3> QED BY <2>7, <3>2 DEF f, g, Total
  <2>13. \A p : Held(T, p)' = Held(T, p)
    BY NoHeldChange
  <2>14. ASSUME NEW p \in Scripts \ {Prog} PROVE overall'[T][p] = available'[T][p] + Held(T, p)'
    <3>1. CASE p = Swap
      BY <2>4, <2>10, <2>11, <2>13, <3>1
    <3>2. CASE p = Refund
      BY <2>3, <2>8, <2>10, <2>11, <2>13, <3>2
    <3>3. CASE p \notin {Swap, Refund}
      BY <2>10, <2>11, <2>13, <3>3, Numbers
    <3> QED BY <3>1, <3>2, <3>3
  <2>15. overall'[T][Prog] = overall[T][Prog]
    BY <2>2, <2>10
  <2>16. MoneyOf(T)
    BY MoneyByTicker
  <2> QED BY <2>12, <2>14, <2>15, <2>16 DEF MoneyOf
<1> QED BY <1>1, MoneyByTickerNext

-----------------------------------------------------------------------------
(* Every step conserves supply, escrows and the module's solvency.         *)
LEMMA MoneyStep ==
  ASSUME TypeOK, Fresh, CachesAgree, Money, [Next]_vars
  PROVE  Money'
<1>0. TypeOK' /\ CachesAgree'
  BY TypeStep, CachesStep
<1>1. ASSUME UNCHANGED <<balanceVars, evm>>, UNCHANGED <<inscribed, moved, chain>>
      PROVE  Money'
  BY <1>1, MoneyFrame DEF LiveTransfer, balanceVars
<1>2. CASE UNCHANGED vars
  BY <1>1, <1>2 DEF vars, eventVars
<1>3. CASE Halt
  BY <1>1, <1>3 DEF Halt, eventVars
<1>4. CASE \E t \in Ticks, max \in Amounts, limit \in Amounts, selfMint \in BOOLEAN :
             Deploy(t, max, limit, selfMint)
  BY <1>4, DeployMoney
<1>5. CASE \E t \in Ticks, p \in Scripts, amt \in Amounts, child \in BOOLEAN :
             Mint(t, p, amt, child)
  BY <1>5, MintMoney
<1>6. ASSUME NEW i \in Inscriptions, NEW t \in Ticks, NEW amt \in Amounts, NEW p \in Scripts,
             InscribeTransfer(i, t, amt, p)
      PROVE  Money'
  BY <1>0, <1>6, InscribeMoney
<1>7. ASSUME NEW i \in Inscriptions, NEW t \in Ticks, NEW amt \in Amounts, NEW p \in Scripts,
             InscribeWithdraw(i, t, amt, p)
      PROVE  Money'
  <2>1. /\ UNCHANGED <<tickers, overall, available, evm>>
        /\ inscribed' = inscribed \cup {i} /\ moved' = moved
    BY <1>7 DEF InscribeWithdraw, Reveal, RecordInscribe
  <2>2. /\ i \notin inscribed /\ chain'[i].op = "withdraw"
        /\ \A j \in Inscriptions \ {i} : chain'[j] = chain[j]
    BY <1>7, RevealFrame DEF InscribeWithdraw
  <2> QED BY <2>1, <2>2, MoneyFrame DEF LiveTransfer
<1>8. ASSUME NEW i \in Inscriptions, NEW t \in Ticks, NEW amt \in Amounts, NEW p \in Scripts,
             NEW op \in {"transfer", "withdraw"}, NEW place \in {p, Fee},
             RevealIgnored(i, op, t, amt, p, place)
      PROVE  Money'
  <2>1. UNCHANGED <<tickers, overall, available, evm, inscribed, moved>>
    BY <1>8 DEF RevealIgnored, Reveal, eventVars
  <2>2. i \notin inscribed /\ \A j \in Inscriptions \ {i} : chain'[j] = chain[j]
    BY <1>8, RevealFrame DEF RevealIgnored
  <2> QED BY <2>1, <2>2, MoneyFrame DEF LiveTransfer
<1>9. ASSUME NEW i \in Inscriptions, NEW dest \in Dests, TransferDeclined(i, dest)
      PROVE  Money'
  <2>1. UNCHANGED <<tickers, overall, available, evm, inscribed, moved>>
    BY <1>9 DEF TransferDeclined, balanceVars
  <2>2. i \notin inscribed \ moved
    BY <1>9 DEF TransferDeclined, CachesAgree, SpendableIffUnspent
  <2>3. \A j \in Inscriptions \ {i} : chain'[j] = chain[j]
    BY <1>9, SpendFrame DEF TransferDeclined
  <2> QED BY <2>1, <2>2, <2>3, MoneyFrame DEF LiveTransfer
<1>10. ASSUME NEW i \in Inscriptions, NEW dest \in Dests,
              WithdrawToOpReturn(i, dest) \/ WithdrawRefused(i, dest)
       PROVE  Money'
  <2>1. UNCHANGED <<tickers, overall, available, evm>>
    BY <1>10 DEF WithdrawToOpReturn, WithdrawRefused, balanceVars
  <2>2. Spend(i, "withdraw", dest) /\ inscribed' = inscribed /\ moved' = moved \cup {i}
    BY <1>10 DEF WithdrawToOpReturn, WithdrawRefused, AcceptedWithdraw, RecordMove
  <2> QED BY <2>1, <2>2, WithdrawReleasesNothing, MoneyFrame
<1>11. ASSUME NEW i \in Inscriptions, NEW dest \in Dests, WithdrawPaid(i, dest)
       PROVE  Money'
  BY <1>0, <1>11, WithdrawMoney
<1>12. ASSUME NEW i \in Inscriptions, TransferToFee(i)
       PROVE  Money'
  BY <1>0, <1>12, FeeMoney
<1>13. ASSUME NEW i \in Inscriptions, TransferToBurn(i) \/ TransferToProgTooEarly(i)
       PROVE  Money'
  <2>1. \E dest \in Dests : AcceptedTransfer(i, dest)
    BY <1>13, ScriptFacts DEF TransferToBurn, TransferToProgTooEarly, Dests
  <2>2. BurnFrom(chain[i])
    BY <1>13 DEF TransferToBurn, TransferToProgTooEarly
  <2> QED BY <1>0, <2>1, <2>2, BurnMoney
<1>14. ASSUME NEW i \in Inscriptions, NEW answered \in BOOLEAN, NEW executed \in BOOLEAN,
              TransferToProg(i, answered, executed)
       PROVE  Money'
  <2>1. PICK T, S, N : T = chain[i].tick /\ S = chain[i].source /\ N = chain[i].amt
    OBVIOUS
  <2>2. /\ Prog \in Scripts /\ AcceptedTransfer(i, Prog)
        /\ overall' = Credit(Debit(overall, T, S, N), T, Prog, N)
        /\ available' = Credit(available, T, Prog, N)
        /\ UNCHANGED tickers
        /\ evm' = evm \/ evm' = [evm EXCEPT ![T] = @ + N]
    BY <1>14, <2>1, ScriptFacts DEF TransferToProg
  <2> QED BY <1>0, <2>1, <2>2, TransferMoney
<1>15. ASSUME NEW i \in Inscriptions, NEW dest \in Dests, TransferToScript(i, dest)
       PROVE  Money'
  <2>1. PICK T, S, N : T = chain[i].tick /\ S = chain[i].source /\ N = chain[i].amt
    OBVIOUS
  <2>2. /\ dest \in Scripts /\ AcceptedTransfer(i, dest)
        /\ overall' = Credit(Debit(overall, T, S, N), T, dest, N)
        /\ available' = Credit(available, T, dest, N)
        /\ UNCHANGED <<tickers, evm>>
    BY <1>15, <2>1 DEF TransferToScript
  <2> QED BY <1>0, <2>1, <2>2, TransferMoney
<1>16. ASSUME NEW clear \in BOOLEAN, NextBlock(clear) PROVE Money'
  <2>1. CASE height + 1 = RefundHeight
    BY <1>16, <2>1, RefundMoney DEF NextBlock
  <2>2. CASE height + 1 # RefundHeight
    BY <1>1, <1>16, <2>2 DEF NextBlock, balanceVars
  <2> QED BY <2>1, <2>2
<1>17. CASE Next
  <2>1. \/ \E t \in Ticks, max \in Amounts, limit \in Amounts, selfMint \in BOOLEAN :
             Deploy(t, max, limit, selfMint)
        \/ \E t \in Ticks, p \in Scripts, amt \in Amounts, child \in BOOLEAN :
             Mint(t, p, amt, child)
        \/ \E i \in Inscriptions, t \in Ticks, amt \in Amounts, p \in Scripts :
             InscribeTransfer(i, t, amt, p) \/ InscribeWithdraw(i, t, amt, p)
        \/ \E i \in Inscriptions, t \in Ticks, amt \in Amounts, p \in Scripts :
             \E op \in {"transfer", "withdraw"}, place \in {p, Fee} :
               RevealIgnored(i, op, t, amt, p, place)
        \/ \E i \in Inscriptions : TransferToFee(i)
        \/ \E i \in Inscriptions : TransferToBurn(i) \/ TransferToProgTooEarly(i)
        \/ \E i \in Inscriptions, answered \in BOOLEAN, executed \in BOOLEAN :
             TransferToProg(i, answered, executed)
        \/ \E i \in Inscriptions : \E dest \in Dests : TransferDeclined(i, dest)
        \/ \E i \in Inscriptions : \E dest \in Dests : TransferToScript(i, dest)
        \/ \E i \in Inscriptions : \E dest \in Dests :
             WithdrawToOpReturn(i, dest) \/ WithdrawRefused(i, dest)
        \/ \E i \in Inscriptions : \E dest \in Dests : WithdrawPaid(i, dest)
        \/ \E i \in Inscriptions : \E dest \in Dests : WithdrawFails(i, dest)
        \/ \E clear \in BOOLEAN : NextBlock(clear)
        \/ RefundFails
    BY <1>17 DEF Next
  <2>2. (\E i \in Inscriptions : \E dest \in Dests : WithdrawFails(i, dest)) \/ RefundFails => Halt
    BY DEF WithdrawFails, RefundFails
  <2> QED BY <1>3, <1>4, <1>5, <1>6, <1>7, <1>8, <1>9, <1>10, <1>11, <1>12, <1>13, <1>14,
             <1>15, <1>16, <2>1, <2>2
<1> QED BY <1>2, <1>17

(* The disjuncts of Next, in the groups the step proofs treat alike.        *)
CreateStep ==
  \/ \E t \in Ticks, max \in Amounts, limit \in Amounts, selfMint \in BOOLEAN :
       Deploy(t, max, limit, selfMint)
  \/ \E t \in Ticks, p \in Scripts, amt \in Amounts, child \in BOOLEAN : Mint(t, p, amt, child)
RevealStep ==
  \E i \in Inscriptions, t \in Ticks, amt \in Amounts, p \in Scripts :
    \/ InscribeTransfer(i, t, amt, p)
    \/ InscribeWithdraw(i, t, amt, p)
    \/ \E op \in {"transfer", "withdraw"}, place \in {p, Fee} :
         RevealIgnored(i, op, t, amt, p, place)
FixedStep ==
  \E i \in Inscriptions :
    \/ TransferToFee(i) \/ TransferToBurn(i) \/ TransferToProgTooEarly(i)
    \/ \E answered, executed \in BOOLEAN : TransferToProg(i, answered, executed)
TransferStep ==
  \E i \in Inscriptions, dest \in Dests : TransferDeclined(i, dest) \/ TransferToScript(i, dest)
WithdrawStep ==
  \E i \in Inscriptions, dest \in Dests :
    \/ WithdrawToOpReturn(i, dest) \/ WithdrawRefused(i, dest)
    \/ WithdrawPaid(i, dest) \/ WithdrawFails(i, dest)
BlockStep == \E clear \in BOOLEAN : NextBlock(clear)

(* A step is a step of one of the groups.                                  *)
LEMMA NextGroups ==
  ASSUME Next
  PROVE  CreateStep \/ RevealStep \/ FixedStep \/ TransferStep \/ WithdrawStep \/ BlockStep
         \/ RefundFails
BY DEF Next, CreateStep, RevealStep, FixedStep, TransferStep, WithdrawStep, BlockStep

(* Only the end of a block changes the height.                             *)
LEMMA HeightSteps ==
  ASSUME Next
  PROVE  height' = height \/ BlockStep
<1>1. CASE CreateStep
  BY <1>1 DEF CreateStep, Deploy, Mint
<1>2. CASE RevealStep
  BY <1>2 DEF RevealStep, InscribeTransfer, InscribeWithdraw, RevealIgnored, Reveal
<1>3. CASE FixedStep
  BY <1>3 DEF FixedStep, TransferToFee, TransferToBurn, TransferToProgTooEarly, TransferToProg,
              AcceptedTransfer, Spend
<1>4. CASE TransferStep
  BY <1>4 DEF TransferStep, TransferDeclined, TransferToScript, AcceptedTransfer, Spend
<1>5. CASE WithdrawStep
  BY <1>5 DEF WithdrawStep, WithdrawToOpReturn, WithdrawRefused, WithdrawPaid, WithdrawFails,
              AcceptedWithdraw, Spend, Halt
<1>6. CASE RefundFails
  BY <1>6 DEF RefundFails, Halt
<1> QED BY <1>1, <1>2, <1>3, <1>4, <1>5, <1>6, NextGroups

(* Tickers nobody deployed stay untouched.                                 *)
LEMMA FreshStep ==
  ASSUME TypeOK, Fresh, CachesAgree, [Next]_vars
  PROVE  Fresh'
<1>1. ASSUME NEW t \in Ticks, NEW x \in Ticker, x.deployed,
             tickers' = [tickers EXCEPT ![t] = x]
      PROVE  Fresh'
  BY <1>1 DEF Fresh, TypeOK
<1>2. ASSUME UNCHANGED tickers PROVE Fresh'
  BY <1>2 DEF Fresh
<1>3. ASSUME NEW t \in Ticks, NEW max \in Amounts, NEW limit \in Amounts, NEW selfMint \in BOOLEAN,
             Deploy(t, max, limit, selfMint)
      PROVE  Fresh'
  <2>1. tickers' = [tickers EXCEPT ![t] =
           [deployed |-> TRUE, max |-> max, remaining |-> max, burned |-> 0,
            limit |-> limit, selfMint |-> selfMint]]
    BY <1>3 DEF Deploy
  <2>2. \A u \in Ticks : IF u = t THEN tickers'[u].deployed ELSE tickers'[u] = tickers[u]
    BY <2>1 DEF TypeOK
  <2> QED BY <2>2 DEF Fresh
<1>4. ASSUME NEW t \in Ticks, NEW p \in Scripts, NEW amt \in Amounts, NEW child \in BOOLEAN,
             Mint(t, p, amt, child)
      PROVE  Fresh'
  <2>1. \A u \in Ticks : IF u = t THEN tickers'[u].deployed ELSE tickers'[u] = tickers[u]
    BY <1>4 DEF Mint, TypeOK, Ticker
  <2> QED BY <2>1 DEF Fresh
<1>5. ASSUME NEW i \in Inscriptions, NEW dest \in Dests,
             AcceptedTransfer(i, dest), BurnFrom(chain[i])
      PROVE  Fresh'
  <2>1. chain[i].tick \in Ticks /\ tickers[chain[i].tick].deployed
    BY <1>5, SpendFrame DEF AcceptedTransfer, Spend
  <2>2. \A u \in Ticks : IF u = chain[i].tick THEN tickers'[u].deployed ELSE tickers'[u] = tickers[u]
    BY <1>5, <2>1 DEF BurnFrom, TypeOK, Ticker
  <2> QED BY <2>2 DEF Fresh
<1>6. ASSUME NEW i \in Inscriptions, TransferToBurn(i) \/ TransferToProgTooEarly(i)
      PROVE  Fresh'
  <2>1. \E dest \in Dests : AcceptedTransfer(i, dest)
    BY <1>6, ScriptFacts DEF TransferToBurn, TransferToProgTooEarly, Dests
  <2>2. BurnFrom(chain[i])
    BY <1>6 DEF TransferToBurn, TransferToProgTooEarly
  <2> QED BY <1>5, <2>1, <2>2
<1>7. CASE Next
  <2>1. CASE CreateStep
    BY <1>3, <1>4, <2>1 DEF CreateStep
  <2>2. CASE RevealStep
    BY <1>2, <2>2 DEF RevealStep, InscribeTransfer, InscribeWithdraw, RevealIgnored, Reveal
  <2>3. CASE FixedStep
    BY <1>2, <1>6, <2>3 DEF FixedStep, TransferToFee, TransferToProg
  <2>4. CASE TransferStep
    BY <1>2, <2>4 DEF TransferStep, TransferDeclined, TransferToScript, balanceVars
  <2>5. CASE WithdrawStep
    BY <1>2, <2>5 DEF WithdrawStep, WithdrawToOpReturn, WithdrawRefused, WithdrawPaid,
                      WithdrawFails, Halt, balanceVars
  <2>6. CASE BlockStep \/ RefundFails
    BY <1>2, <2>6 DEF BlockStep, NextBlock, RefundFails, Halt, balanceVars
  <2> QED BY <1>7, <2>1, <2>2, <2>3, <2>4, <2>5, <2>6, NextGroups
<1> QED BY <1>2, <1>7 DEF vars, balanceVars

(* The empty ledger satisfies the inductive invariant.                     *)
LEMMA InitIInv == Init => IInv
<1> SUFFICES ASSUME Init PROVE IInv
  OBVIOUS
<1>1. TypeOK
  <2>1. NoTicker \in Ticker
    BY LedgerAssumption DEF NoTicker, Ticker
  <2>2. tickers \in [Ticks -> Ticker]
    BY <2>1 DEF Init
  <2>3. 0 \in 0 .. Width - 1
    BY LedgerAssumption
  <2> QED BY <2>2, <2>3 DEF Init, TypeOK
<1>2. Fresh
  BY DEF Init, Fresh
<1>3. CachesAgree
  BY DEF Init, CachesAgree, SpendableIffUnspent, Accepts, Lookup
<1>4. \A t \in Ticks, p \in Scripts : overall[t][p] = 0 /\ available[t][p] = 0
  BY DEF Init
<1>5. \A t \in Ticks : SumFunctionOnSet(overall[t], Scripts) = 0
  BY <1>4, SumZero, ScriptFacts
<1>6. \A t \in Ticks, p \in Scripts : SumFunctionOnSet(Escrows(t, p), Inscriptions) = 0
  <2>1. \A t, p : \A i \in Inscriptions : Escrows(t, p)[i] = 0
    BY DEF Init, Escrows
  <2> QED BY <2>1, SumZero, LedgerAssumption
<1>7. SupplyConserved
  BY <1>5 DEF Init, SupplyConserved, NoTicker
<1>8. EscrowBacked
  BY <1>4, <1>6 DEF EscrowBacked
<1>9. ProgSolvent
  BY <1>4, ScriptFacts DEF Init, ProgSolvent
<1> QED BY <1>1, <1>2, <1>3, <1>7, <1>8, <1>9 DEF IInv

(* Every step of the indexer preserves the inductive invariant.            *)
LEMMA StepIInv == IInv /\ [Next]_vars => IInv'
  BY TypeStep, FreshStep, CachesStep, MoneyStep DEF IInv, Money

-----------------------------------------------------------------------------
(* Tables and caches keep their shape, and a mint never takes more than    *)
(* what is left of the supply. That a balance is below Width says nothing: *)
(* the arithmetic of u128 is taken modulo Width. See WithinSupply.         *)
THEOREM TypeCorrect == Spec => []TypeOK
<1>1. IInv => TypeOK
  BY DEF IInv
<1> QED BY <1>1, InitIInv, StepIInv, PTL DEF Spec

(* Balances, remaining and burned supply always add up to the deployed     *)
(* supply: no operation of the indexer creates or loses tokens.            *)
THEOREM Conservation == Spec => []SupplyConserved
<1>1. IInv => SupplyConserved
  BY DEF IInv
<1> QED BY <1>1, InitIInv, StepIInv, PTL DEF Spec

(* No pkscript owns more than was minted and not burned: a sum or a        *)
(* difference of balances that wrapped would be more, or tokens would be   *)
(* lost. Except for brc20_prog, whose withdraws do not look at it, what is *)
(* available is a part of the balance.                                     *)
THEOREM WithinSupply ==
  Spec => [] \A t \in Ticks, p \in Scripts :
               /\ overall[t][p] <= tickers[t].max - tickers[t].remaining - tickers[t].burned
               /\ p # Prog => available[t][p] <= overall[t][p]
<1> DEFINE Within == \A t \in Ticks, p \in Scripts :
                       /\ overall[t][p] <= tickers[t].max - tickers[t].remaining - tickers[t].burned
                       /\ p # Prog => available[t][p] <= overall[t][p]
<1>1. ASSUME IInv PROVE Within
  <2> SUFFICES ASSUME NEW t \in Ticks, NEW p \in Scripts
               PROVE  /\ overall[t][p] <= tickers[t].max - tickers[t].remaining - tickers[t].burned
                      /\ p # Prog => available[t][p] <= overall[t][p]
    OBVIOUS
  <2>1. TypeOK /\ CachesAgree /\ SupplyConserved /\ EscrowBacked
    BY <1>1 DEF IInv
  <2>2. /\ Total(overall, t) + tickers[t].remaining + tickers[t].burned = tickers[t].max
        /\ Total(overall, t) \in Nat /\ tickers[t].remaining \in Nat /\ tickers[t].burned \in Nat
        /\ overall[t][p] \in Nat /\ overall[t][p] <= Total(overall, t)
    BY <2>1, TotalBound
  <2>3. available[t][p] \in Nat /\ Held(t, p) \in Nat
    BY <2>1, EscrowsNat, LedgerAssumption DEF TypeOK
  <2>4. ASSUME p # Prog PROVE overall[t][p] = available[t][p] + Held(t, p)
    BY <2>1, <2>4 DEF EscrowBacked, Held
  <2> QED
    BY <2>2, <2>3, <2>4
<1> HIDE DEF Within
<1>2. Spec => []Within
  BY <1>1, InitIInv, StepIInv, PTL DEF Spec
<1> QED
  BY <1>2 DEF Within

(* What a pkscript cannot spend is what its unspent transfer inscriptions  *)
(* hold, for every number of inscriptions and every pattern of cache       *)
(* clears.                                                                 *)
THEOREM Escrow == Spec => []EscrowBacked
<1>1. IInv => EscrowBacked
  BY DEF IInv
<1> QED BY <1>1, InitIInv, StepIInv, PTL DEF Spec

(* brc20_prog never owes more than the ledger keeps for it, so the         *)
(* unchecked subtraction of a withdraw cannot wrap the overall balance. Of *)
(* the available balance, which it also lowers, nothing is said.           *)
THEOREM Solvency == Spec => []ProgSolvent
<1>1. IInv => ProgSolvent
  BY DEF IInv
<1> QED BY <1>1, InitIInv, StepIInv, PTL DEF Spec

(* A transfer or withdraw inscription can be spent at most once.           *)
THEOREM SpendOnce == Spec => []SpendableIffUnspent
<1>1. IInv => SpendableIffUnspent
  BY DEF IInv, CachesAgree
<1> QED BY <1>1, InitIInv, StepIInv, PTL DEF Spec

(* Within a block no balance changes twice for the same inscription: every *)
(* change comes with a mint or with an event recorded for the first time.  *)
THEOREM Recorded == Spec => ChangesAreRecorded
<1> DEFINE A == (overall' # overall \/ available' # available) /\ height' = height
                => \/ tickers' # tickers
                   \/ inscribed' # inscribed
                   \/ moved' # moved
<1>1. ASSUME IInv, [Next]_vars PROVE [A]_vars
  <2>1. TypeOK /\ CachesAgree
    BY <1>1 DEF IInv
  <2>2. ASSUME NEW i \in Inscriptions, Accepts(i), RecordMove(i) PROVE moved' # moved
    <3>1. i \notin moved
      BY <2>1, <2>2 DEF CachesAgree, SpendableIffUnspent
    <3> QED BY <2>2, <3>1 DEF RecordMove
  <2>3. ASSUME NEW i \in Inscriptions, NEW t \in Ticks, NEW amt \in Amounts, NEW p \in Scripts,
               InscribeTransfer(i, t, amt, p)
        PROVE  inscribed' # inscribed
    <3>1. i \notin inscribed
      BY <2>1, <2>3, RevealFrame DEF InscribeTransfer
    <3> QED BY <2>3, <3>1 DEF InscribeTransfer, RecordInscribe
  <2>4. ASSUME NEW t \in Ticks, NEW p \in Scripts, NEW amt \in Amounts, NEW child \in BOOLEAN,
               Mint(t, p, amt, child)
        PROVE  tickers' # tickers
    <3> DEFINE n == IF amt > tickers[t].remaining THEN tickers[t].remaining ELSE amt
    <3>1. tickers[t] \in Ticker /\ tickers[t].remaining # 0
      BY <2>1, <2>4 DEF Mint, TypeOK
    <3>2. tickers[t].remaining \in Nat /\ n \in Nat /\ n # 0
      BY <3>1, LedgerAssumption DEF Ticker, Amounts
    <3>3. tickers' = [tickers EXCEPT ![t].remaining = @ - n]
      BY <2>4 DEF Mint
    <3> HIDE DEF n
    <3>4. tickers'[t].remaining = tickers[t].remaining - n
      BY <2>1, <3>3 DEF TypeOK, Ticker
    <3> QED BY <3>2, <3>4
  <2>5. ASSUME NEW i \in Inscriptions,
               \/ TransferToFee(i) \/ TransferToBurn(i) \/ TransferToProgTooEarly(i)
               \/ \E answered, executed \in BOOLEAN : TransferToProg(i, answered, executed)
        PROVE  moved' # moved
    BY <2>2, <2>5 DEF TransferToFee, TransferToBurn, TransferToProgTooEarly, TransferToProg,
                      AcceptedTransfer
  <2>6. ASSUME NEW i \in Inscriptions, NEW dest \in Dests,
               TransferToScript(i, dest) \/ WithdrawPaid(i, dest)
        PROVE  moved' # moved
    BY <2>2, <2>6 DEF TransferToScript, WithdrawPaid, AcceptedTransfer, AcceptedWithdraw
  <2>7. ASSUME NEW clear \in BOOLEAN, NextBlock(clear) PROVE height' # height
    BY <2>1, <2>7 DEF NextBlock, TypeOK
  <2>8. CASE UNCHANGED <<overall, available>>
    BY <2>8
  <2>9. CASE Next
    <3>1. CASE CreateStep
      BY <2>4, <2>8, <3>1 DEF CreateStep, Deploy
    <3>2. CASE RevealStep
      BY <2>3, <2>8, <3>2 DEF RevealStep, InscribeWithdraw, RevealIgnored, Reveal
    <3>3. CASE FixedStep
      BY <2>5, <3>3 DEF FixedStep
    <3>4. CASE TransferStep
      BY <2>6, <2>8, <3>4 DEF TransferStep, TransferDeclined, balanceVars
    <3>5. CASE WithdrawStep
      BY <2>6, <2>8, <3>5 DEF WithdrawStep, WithdrawToOpReturn, WithdrawRefused, WithdrawFails,
                              Halt, balanceVars
    <3>6. CASE BlockStep
      BY <2>7, <3>6 DEF BlockStep
    <3>7. CASE RefundFails
      BY <2>8, <3>7 DEF RefundFails, Halt, balanceVars
    <3> QED BY <2>9, <3>1, <3>2, <3>3, <3>4, <3>5, <3>6, <3>7, NextGroups
  <2> QED BY <1>1, <2>8, <2>9 DEF vars, balanceVars
<1> QED BY <1>1, InitIInv, StepIInv, PTL DEF Spec, ChangesAreRecorded

(* The refund block leaves nothing with the swap module: its overall and   *)
(* available balances were equal, since it can spend no inscription.       *)
THEOREM RefundComplete == Spec => SwapEmptied
<1> DEFINE A == height' = RefundHeight /\ height' # height
                => \A t \in Ticks : overall'[t][Swap] = 0 /\ available'[t][Swap] = 0
<1>1. ASSUME IInv, [Next]_vars PROVE [A]_vars
  <2>1. TypeOK /\ CachesAgree /\ Money
    BY <1>1 DEF IInv, Money
  <2>2. ASSUME NEW t \in Ticks, RefundAll PROVE overall'[t][Swap] = 0 /\ available'[t][Swap] = 0
    <3>1. Swap \in Scripts \ {Prog} /\ Refund \in Scripts /\ Swap # Refund
      BY ScriptFacts
    <3>2. /\ overall \in Balances /\ available \in Balances
          /\ overall[t][Swap] \in Nat /\ available[t][Swap] = overall[t][Swap]
      BY <2>1, <2>2, <3>1, Numbers DEF RefundAll
    <3>3. Minus(available[t][Swap], overall[t][Swap]) = 0
      BY <3>2 DEF Minus
    <3> QED BY <2>2, <3>1, <3>2, <3>3 DEF RefundAll, Balances
  <2>3. CASE height' = height
    BY <2>3
  <2>4. ASSUME NEW clear \in BOOLEAN, NextBlock(clear) PROVE A
    BY <2>2, <2>4 DEF NextBlock
  <2>5. CASE Next
    BY <2>3, <2>4, <2>5, HeightSteps DEF BlockStep
  <2> QED BY <1>1, <2>3, <2>5 DEF vars
<1> QED BY <1>1, InitIInv, StepIInv, PTL DEF Spec, SwapEmptied
=============================================================================
