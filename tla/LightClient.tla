---------------------------- MODULE LightClient ----------------------------
(***************************************************************************)
(* The BRC-20 indexer in light client mode.  Hashes come from the OPI API, *)
(* one answer per block: the hash of the block and the cumulative hashes   *)
(* of events and traces up to it.  The events come from any indexer that   *)
(* reports to the network and may follow another fork, may be asked while  *)
(* it takes the block back, or may not answer.  The client applies them,   *)
(* stores the block, and only then compares its cumulative hashes with the *)
(* API's; a difference takes the block back and ends the process.          *)
(*                                                                         *)
(* opi stands for the chain of the API.  A cumulative hash is the sequence *)
(* of what it is computed from: sums keeps brc20_cumulative_event_hashes,  *)
(* expected the chain that the API's answer stands for.                    *)
(***************************************************************************)
EXTENDS Brc20Sync, FiniteSets

VARIABLES
  sums,      \* brc20_cumulative_event_hashes: [events, traces] of each height
  expected   \* opi_cumulative_event_hash and opi_cumulative_trace_hash

lightVars == <<vars, sums, expected>>

(* The tables lose the same heights in one transaction.                    *)
Stored == sums' = Prefix(sums, Len(hashes')) /\ UNCHANGED expected

LightInit == Init /\ sums = <<>> /\ expected = <<>>

-----------------------------------------------------------------------------
(* get_best_verified_block fails: the old height is kept.                  *)
WaitUnanswered ==
  /\ pc = "next"
  /\ Height + 1 > lastOpi
  /\ Loop
  /\ UNCHANGED <<bitcoin, opi, db, evm, memory, crashes, sums, expected>>

(* Mutant: the cumulative hashes of a height are asked for once.           *)
ReadBlockInfoOnce ==
  /\ ReadHash
  /\ expected' = IF Height < Len(expected) THEN expected ELSE Prefix(opi, Height + 1)
  /\ UNCHANGED sums

(* get_block_info_with_retries: block hash and cumulative hashes together. *)
ReadBlockInfo ==
  /\ ReadHash
  /\ expected' = Prefix(opi, Height + 1)
  /\ UNCHANGED sums

(* pre_fill_rpc_results_cache or get_events fails after its retries: the   *)
(* loop begins again.                                                      *)
EventsFail ==
  /\ pc = "read"
  /\ Loop
  /\ UNCHANGED <<bitcoin, opi, db, evm, memory, crashes, sums, expected>>

(* process_events with the events of block b: they change balances in      *)
(* memory and go to brc20_prog.  Without events nothing is flushed.        *)
ReadEvents(b) ==
  LET h == block.h IN
  /\ pc = "read"
  /\ block' = [block EXCEPT !.txs = b]
  /\ IF IsQuiet(h, b)
     THEN Goto("finalise") /\ UNCHANGED <<pending, open>>
     ELSE /\ Goto("flush")
          /\ pending' = pending (+) SetToBag({[h |-> h, b |-> b]})
          /\ open' = IF h >= PhaseOne THEN b ELSE open
  /\ UNCHANGED <<bitcoin, opi, db, prog, saved, booting, search, lastOpi, crashes>>
  /\ UNCHANGED <<sums, expected>>

(* Events of another block make process_events fail: an unknown ticker, an *)
(* event the client has, an event type it does not know.  brc20_prog may   *)
(* have some of their transactions.                                        *)
EventsRefused(b) ==
  /\ pc = "read"
  /\ b # block.hash /\ ~IsQuiet(block.h, b)
  /\ open' \in IF block.h >= PhaseOne THEN {open, b} ELSE {open}
  /\ Goto("down")
  /\ pending' = EmptyBag
  /\ UNCHANGED <<bitcoin, opi, db, prog, saved, booting, search, lastOpi, block, crashes>>
  /\ UNCHANGED <<sums, expected>>

(* set_block_hashes: the hash of the block and the sums in one transaction. *)
StoreHashes ==
  LET h == block.h
      sum == [events |-> Transfers(h, block.txs),
              traces |-> IF h < PhaseOne THEN NoBlock ELSE ProgBlock(h).txs]
  IN
  /\ pc = "hashes"
  /\ IF h < PhaseOne \/ HasProg(h)
     THEN /\ hashes' = Append(hashes, block.hash)
          /\ sums' = Append(sums, sum)
          /\ Goto("verify")
          /\ UNCHANGED <<bitcoin, opi, ledger, burned, evm, booting, search, memory>>
     ELSE Exit /\ UNCHANGED sums
  /\ UNCHANGED <<crashes, expected>>

(* Mutant: traces are not compared.                                        *)
AgreesInEvents ==
  \A i \in 1 .. block.h : sums[i].events = Transfers(i, expected[i])

(* The cumulative hashes of both kinds are the API's.                      *)
Agrees ==
  \A i \in 1 .. block.h :
    LET txs == Transfers(i, expected[i]) IN
    /\ sums[i].events = txs
    /\ i >= PhaseOne => sums[i].traces = txs

(* The comparison.  A difference is undone in two calls.                   *)
Verify ==
  /\ pc = "verify"
  /\ IF Agrees
     THEN Loop /\ UNCHANGED <<db, pending>>
     ELSE DbReorg(block.h - 1) /\ Goto("undo") /\ UNCHANGED <<booting, search>>
  /\ Stored
  /\ UNCHANGED <<bitcoin, opi, evm, lastOpi, block, crashes>>

(* brc20_reorg, then "Cumulative hash mismatch" ends the process.          *)
Undo ==
  /\ pc = "undo"
  /\ ProgReorg(block.h - 1)
  /\ Goto("down")
  /\ UNCHANGED <<bitcoin, opi, db, booting, search, memory, crashes, sums, expected>>

-----------------------------------------------------------------------------
(* What the two modes have in common.                                      *)
SharedStep ==
  \/ Start \/ Align
  \/ WalkFound \/ WalkDiffers \/ WalkFails
  \/ ReorgProg \/ ClearCaches \/ ReorgResidue
  \/ Wait \/ Flush \/ Finalise \/ Commit

LightStep ==
  \/ SharedStep /\ Stored
  \/ WaitUnanswered \/ ReadBlockInfo
  \/ EventsFail \/ \E b \in 0 .. Forks : ReadEvents(b) \/ EventsRefused(b)
  \/ StoreHashes \/ Verify \/ Undo

Around ==
  \/ OrdStep \/ Crash \/ ProgCrash
  \/ Mine \/ \E k \in 0 .. MaxHeight : BitcoinReorg(k)

LightNext ==
  \/ LightStep
  \/ Around /\ UNCHANGED <<sums, expected>>

(* Besides the fairness of the loop: the API answers now and then, and the *)
(* client, which asks the indexers in random order, now and then asks one  *)
(* that has the block it wants.                                            *)
LightSpec ==
  /\ LightInit /\ [][LightNext]_lightVars
  /\ WF_lightVars(LightStep)
  /\ WF_lightVars(OrdStep /\ UNCHANGED <<sums, expected>>)
  /\ SF_lightVars(Wait /\ Stored)
  /\ \A h \in 1 .. MaxHeight : SF_lightVars(block.h = h /\ ReadEvents(block.hash))

-----------------------------------------------------------------------------
(* The transfers at height h are those of the block that its hash names,   *)
(* in the ledger and, where brc20_prog has the height, in the EVM.         *)
Right(h) ==
  LET txs == {hashes[h]} \ {b \in 1 .. Forks : IsQuiet(h, b)} IN
  /\ LedgerAt(h) = txs
  /\ HasProg(h) => ProgAt(h) = txs

(* Whatever the indexers answer, wrong events stay only until the          *)
(* comparison.  A crash right before a comparison lets one block through,  *)
(* since the client then goes on with the next one.                        *)
WrongIsTakenBack ==
  Cardinality({h \in 1 .. Height : ~Right(h)})
    <= crashes + (IF pc = "verify" THEN 1 ELSE 0)

(* The client reaches the tip although answers are wrong or missing,       *)
(* unless a crash made it keep wrong events, for then every further block  *)
(* differs, is taken back and ends the process, or a reorg of Bitcoin      *)
(* replaced the first block of phase one or one below it.                  *)
LightReachesTip ==
  \/ <>[](Height = Len(best) /\ (best # <<>> => Last(hashes) = Last(best)))
  \/ []<>(pc = "next" /\ \E h \in 1 .. Height : ~Right(h))
  \/ <>(\E h \in DOMAIN best : h <= PhaseOne /\ best[h] # 1)
=============================================================================
