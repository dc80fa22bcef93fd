---------------------------- MODULE Inscriptions ----------------------------
(***************************************************************************)
(* OPI-ord's inscription rules: which transaction reveals or moves what    *)
(* (InscriptionUpdater), with the unspent outputs that Updater::           *)
(* index_utxo_entries keeps for it, and what it tells the indexers:        *)
(* ord_transfers. Blocks are indexed transaction by transaction, the       *)
(* coinbase last.                                                          *)
(*                                                                         *)
(* A transaction is <<height, number>>, the coinbase number 0; outputs     *)
(* count from 1, offsets and sequence numbers as in the code from 0 and    *)
(* from 1. Bitcoin is modelled sat by sat, first in, first out: the        *)
(* indexer sees values only, the properties see where each sat went. A     *)
(* height stands for one at which something happens, so that outputs of a  *)
(* coinbase can be spent at the next one.                                  *)
(***************************************************************************)
EXTENDS Envelope, FiniteSets

CONSTANTS
  Txs,        \* what a transaction may look like: [scripts, outs]
  Coinbases,  \* and the outputs of a coinbase
  Genesis,    \* values of the outputs that exist at first
  Subsidy,    \* sats that a block creates
  MaxHeight, MaxTx,
  Jubilee,    \* jubilee_height
  Limit       \* TX_LIMITS["default"]

ASSUME InscriptionsAssumption ==
  /\ Subsidy \in Nat /\ MaxHeight \in Nat /\ MaxTx \in Nat /\ Jubilee \in Nat /\ Limit \in Nat \ {0}

VARIABLES
  coins,    \* Bitcoin: the sats of each unspent output
  paths,    \* Bitcoin: the places that each sat has been at: [place, h, via, fee]
  fees,     \* Bitcoin: what the coinbase may claim: [sat, via]
  height,
  txs,      \* transactions of the block that are indexed
  utxos,    \* outpoint_to_utxo_entry and utxo_cache: [value, items]
  ins,      \* the inscriptions, by sequence number: see NewEntry; sat and before are history
  txcnt,    \* inscription_id_to_txcnt, by sequence number
  rows,     \* ord_transfers: [h, idx, id, old, new, coinbase]
  flotsam,  \* inscriptions in the fees, with their offset among them
  reward,
  idx,      \* transfer_idx
  early     \* early_transfer_info: [id, idx]

bitcoin == <<coins, paths, fees>>
index   == <<utxos, ins, txcnt, rows, flotsam, reward, idx, early>>
vars    == <<bitcoin, height, txs, index>>

Sats    == 1 .. Len(paths)
NoPlace == [out |-> << >>, off |-> 0]
Place(out, off) == [out |-> out, off |-> off]
Lost(off) == Place(<<"lost">>, off)

Total(values) == FoldLeft(+, 0, values)
Upto(values, k) == Total(SubSeq(values, 1, k))
ValuesOf(outs) == [v \in DOMAIN outs |-> outs[v].value]

(* The output that an offset falls into, None past the last.               *)
OutputAt(values, offset) ==
  LET v == SelectInSeq([k \in DOMAIN values |-> Upto(values, k)], LAMBDA end : offset < end)
  IN  IF v = 0 THEN None ELSE Some(v)

Init ==
  /\ coins = [o \in {<<0, 0, v>> : v \in DOMAIN Genesis} |->
                [k \in 1 .. Genesis[o[3]] |-> Upto(Genesis, o[3] - 1) + k]]
  /\ paths = [s \in 1 .. Total(Genesis) |->
                LET v == OutputAt(Genesis, s - 1)[1]
                IN  <<[place |-> Place(<<0, 0, v>>, s - 1 - Upto(Genesis, v - 1)), h |-> 0, via |-> 0, fee |-> FALSE]>>]
  /\ fees = << >>
  /\ height = 1 /\ txs = 0
  /\ utxos = [o \in {<<0, 0, v>> : v \in DOMAIN Genesis} |-> [value |-> Genesis[o[3]], items |-> << >>]]
  /\ ins = << >> /\ txcnt = << >> /\ rows = {}
  /\ flotsam = << >> /\ reward = Subsidy /\ idx = 0 /\ early = {}

-----------------------------------------------------------------------------
(* The floating inscriptions of a transaction *)

NumberOf(id) == CHOOSE n \in DOMAIN ins : ins[n].id = id

(* The inscriptions of an output, by sequence number.                      *)
Transferred(o, start) ==
  LET items == SortSeq(utxos[o].items, LAMBDA a, b : a.n < b.n)
  IN  [k \in DOMAIN items |->
         [new |-> FALSE, id |-> ins[items[k].n].id, n |-> items[k].n,
          offset |-> start + items[k].off, from |-> Place(o, items[k].off)]]

\* Mutant: looks at the first inscription on the sat only.
ReinscribesLoose(floats, offset) ==
  LET there == SelectSeq(floats, LAMBDA f : f.offset = offset)
  IN  /\ there # << >>
      /\ LET first == ins[NumberOf(there[1].id)]
         IN  ~ (first.number < 0 \/ first.vindicated)

(* The first inscription on a sat may be followed by one that is not       *)
(* cursed, if it was cursed itself or would have been before the jubilee.  *)
Reinscribes(floats, offset) ==
  LET there == SelectSeq(floats, LAMBDA f : f.offset = offset)
  IN  /\ there # << >>
      /\ \/ Len(there) > 1
         \/ LET first == ins[NumberOf(there[1].id)]
            IN  ~ (first.number < 0 \/ first.vindicated)

(* The k-th envelope of input i is cursed.                                 *)
Cursed(e, i, k, floats, start) ==
  \/ e.even \/ e.duplicate \/ e.incomplete
  \/ i # 1 \/ k # 1
  \/ e.pointer # None
  \/ e.pushnum \/ e.stutter
  \/ Reinscribes(floats, start)

Revealed(e, id, i, k, floats, start, value, outputs) ==
  LET cursed == Cursed(e, i, k, floats, start)
      offset == IF e.pointer # None /\ e.pointer[1] < outputs THEN e.pointer[1] ELSE start
  IN  [new |-> TRUE, id |-> id, offset |-> offset, parents |-> e.parents, json |-> e.json, text |-> e.text,
       cursed |-> cursed /\ height < Jubilee, vindicated |-> cursed /\ height >= Jubilee,
       unbound |-> value = 0 \/ e.even,
       again |-> \E j \in DOMAIN floats : floats[j].offset = offset]

(* index_inscriptions, its first loop: for each input, what it holds and   *)
(* what its script reveals.                                                *)
Floating(t, from, txid) ==
  LET values  == [i \in DOMAIN from |-> utxos[from[i]].value]
      outputs == Total(ValuesOf(t.outs))
      Input(acc, i) ==
        LET start == Upto(values, i - 1)
            found == EnvelopesOf(t.scripts[i])
            Reveal(fl, k) ==
              Append(fl, Revealed(found[k], Append(txid, acc.found + k - 1), i, k, fl, start, values[i], outputs))
        IN  [floats |-> FoldLeft(Reveal, acc.floats \o Transferred(from[i], start), [k \in DOMAIN found |-> k]),
             found  |-> acc.found + Len(found)]
      floats == FoldLeft(Input, [floats |-> << >>, found |-> 0], [i \in DOMAIN from |-> i]).floats
      here   == {floats[k].id : k \in DOMAIN floats}
      \* a parent counts if it is in the transaction, and the first one is told
      parent(f) == First(SelectSeq(f.parents, LAMBDA p : p \in here))
  IN  [k \in DOMAIN floats |->
         IF floats[k].new THEN [floats[k] EXCEPT !.parents = parent(floats[k])] ELSE floats[k]]

(* sort_by_key is stable.                                                  *)
ByOffset(floats) ==
  LET top == FoldLeft(LAMBDA m, f : IF f.offset > m THEN f.offset ELSE m, 0, floats)
  IN  FlattenSeq([k \in 1 .. top + 1 |-> SelectSeq(floats, LAMBDA f : f.offset = k - 1)])

-----------------------------------------------------------------------------
(* update_inscription_location, on a record of what it changes             *)

State == [ins |-> ins, txcnt |-> txcnt, rows |-> rows, idx |-> idx, items |-> << >>]

(* A move through the fees has kept its number from the time it was sent.  *)
Tell(s, id, old, new, coinbase) ==
  LET kept == {e \in early : e.id = id}
      n    == IF kept # {} THEN (CHOOSE e \in kept : TRUE).idx ELSE s.idx + 1
  IN  [s EXCEPT !.rows = {r \in @ : ~ (r.h = height /\ r.idx = n)}
                         \cup {[h |-> height, idx |-> n, id |-> id, old |-> old, new |-> new, coinbase |-> coinbase]},
                !.idx = IF kept # {} THEN @ ELSE n]

\* Mutant: the count is not stored.
MoveOldUncounted(s, f, place, coinbase) ==
  LET c == s.txcnt[f.n] + 1
  IN  IF (s.ins[f.n].json \/ s.ins[f.n].text) /\ c <= s.ins[f.n].limit
      THEN Tell(s, f.id, f.from, place, coinbase)
      ELSE s

(* Origin::Old: the first moves of a text are told, cursed or not.         *)
MoveOld(s, f, place, coinbase) ==
  LET c == s.txcnt[f.n] + 1
  IN  IF (s.ins[f.n].json \/ s.ins[f.n].text) /\ c <= s.ins[f.n].limit
      THEN [Tell(s, f.id, f.from, place, coinbase) EXCEPT !.txcnt[f.n] = c]
      ELSE s

(* Origin::New: sequence_number_to_entry with the inscription info.        *)
NewEntry(s, f, place) ==
  [id |-> f.id, number |-> IF f.cursed THEN - Cardinality({n \in DOMAIN s.ins : s.ins[n].number < 0}) - 1
                           ELSE Cardinality({n \in DOMAIN s.ins : s.ins[n].number >= 0}),
   json |-> f.json, text |-> f.text, limit |-> IF ~ f.unbound /\ (f.json \/ f.text) THEN Limit ELSE 0,
   vindicated |-> f.vindicated, unbound |-> f.unbound, lost |-> place.out = <<"lost">>, again |-> f.again,
   parent |-> f.parents, sat |-> f.sat, before |-> f.before]

MoveNew(s, f, place, coinbase) ==
  LET t == [s EXCEPT !.ins = Append(@, NewEntry(s, f, place)), !.txcnt = Append(@, 1)]
  IN  IF ~ f.unbound /\ (f.json \/ f.text) THEN Tell(t, f.id, NoPlace, place, coinbase) ELSE t

(* The location is kept unless it is one of the special outpoints.         *)
Move(s, f, place, coinbase) ==
  LET t == IF f.new THEN MoveNew(s, f, place, coinbase) ELSE MoveOld(s, f, place, coinbase)
      n == IF f.new THEN Len(t.ins) ELSE f.n
  IN  IF (f.new /\ f.unbound) \/ place.out = <<"lost">> THEN t
      ELSE [t EXCEPT !.items = Append(@, [out |-> place.out, n |-> n, off |-> place.off])]

(* The part of index_inscriptions after the floats are sorted: those that  *)
(* fall into an output, then, for a coinbase, those that are lost.         *)
Settle(floats, values, txid) ==
  LET coinbase == txid[2] = 0
      At(f) == LET v == OutputAt(values, f.offset)
               IN  IF v # None THEN Place(Append(txid, v[1]), f.offset - Upto(values, v[1] - 1))
                   ELSE Lost(f.offset - Total(values))
      here == SelectSeq(floats, LAMBDA f : coinbase \/ f.offset < Total(values))
  IN  FoldLeft(LAMBDA s, f : Move(s, f, At(f), coinbase), State, here)

(* The outputs of a transaction are put into the cache.                    *)
NewUtxos(s, values, txid) ==
  [o \in {Append(txid, v) : v \in DOMAIN values} |->
     [value |-> values[o[3]],
      items |-> LET mine == SelectSeq(s.items, LAMBDA x : x.out = o)
                IN  [k \in DOMAIN mine |-> [n |-> mine[k].n, off |-> mine[k].off]]]]

-----------------------------------------------------------------------------
(* Bitcoin *)

Slice(sats, values, v) == SubSeq(sats, Upto(values, v - 1) + 1, Upto(values, v))
NewCoins(sats, values, txid) ==
  [o \in {Append(txid, v) : v \in DOMAIN values} |-> Slice(sats, values, o[3])]

(* The sats of from, with what each inscription starts on and how many     *)
(* places that sat has been at.                                            *)
SatsOf(from) == FlattenSeq([i \in DOMAIN from |-> coins[from[i]]])
OnSats(floats, sats) ==
  [k \in DOMAIN floats |->
     IF ~ floats[k].new THEN floats[k]
     ELSE LET bound == ~ floats[k].unbound
              sat   == IF bound THEN sats[floats[k].offset + 1] ELSE 0
          IN  floats[k] @@ [sat |-> sat, before |-> IF bound THEN Len(paths[sat]) ELSE 0]]

Distinct(s) == \A i, j \in DOMAIN s : s[i] = s[j] => i = j

-----------------------------------------------------------------------------
\* Mutant: the offset in the fees forgets the outputs of the transaction.
AfloatShifted(floats, values) ==
  LET left == SelectSeq(floats, LAMBDA f : f.offset >= Total(values))
  IN  [k \in DOMAIN left |-> [left[k] EXCEPT !.offset = reward + @]]

(* What is left over goes to the fees, behind those of the block so far.   *)
Afloat(floats, values) ==
  LET left == SelectSeq(floats, LAMBDA f : f.offset >= Total(values))
  IN  [k \in DOMAIN left |-> [left[k] EXCEPT !.offset = reward + @ - Total(values)]]

(* A transaction of the block, but not the coinbase: floats is where its   *)
(* inscriptions are, s what they change.                                   *)
IndexTx(t, from) ==
  /\ height <= MaxHeight /\ txs < MaxTx
  /\ Len(from) = Len(t.scripts) /\ Distinct(from)
  /\ LET txid   == <<height, txs + 1>>
         sats   == SatsOf(from)
         values == ValuesOf(t.outs)
         sent   == Total(values)
     IN  /\ sent <= Len(sats)
         /\ \E floats \in {ByOffset(OnSats(Floating(t, from, txid), sats))} :
            \E s \in {Settle(floats, values, txid)}, left \in {Afloat(floats, values)} :
              /\ ins' = s.ins /\ txcnt' = s.txcnt /\ rows' = s.rows
              /\ flotsam' = flotsam \o left
              /\ idx' = s.idx + Len(left)
              /\ early' = early \cup {[id |-> left[k].id, idx |-> s.idx + k] : k \in DOMAIN left}
              /\ utxos' = [o \in DOMAIN utxos \ ToSet(from) |-> utxos[o]] @@ NewUtxos(s, values, txid)
         /\ reward' = reward + Len(sats) - sent
         /\ coins' = [o \in DOMAIN coins \ ToSet(from) |-> coins[o]] @@ NewCoins(sats, values, txid)
         /\ paths' = [x \in Sats |->
                        LET p == SelectInSeq(sats, LAMBDA y : y = x)
                            v == OutputAt(values, p - 1)
                        IN  IF p = 0 \/ p > sent THEN paths[x]
                            ELSE Append(paths[x],
                                   [place |-> Place(Append(txid, v[1]), p - 1 - Upto(values, v[1] - 1)),
                                    h |-> height, via |-> txs + 1, fee |-> FALSE])]
         /\ fees' = fees \o [k \in 1 .. Len(sats) - sent |-> [sat |-> sats[sent + k], via |-> txs + 1]]
  /\ txs' = txs + 1
  /\ UNCHANGED height

(* The coinbase takes the subsidy and the fees, or a part of them.         *)
IndexCoinbase(outs) ==
  /\ height <= MaxHeight
  /\ LET txid   == <<height, 0>>
         values == ValuesOf(outs)
         fresh  == [k \in 1 .. Subsidy |-> [sat |-> Len(paths) + k, via |-> 0]]
         all    == fresh \o fees
         sats   == [k \in DOMAIN all |-> all[k].sat]
         s      == Settle(ByOffset(flotsam), values, txid)
         At(p)  == LET v == OutputAt(values, p - 1)
                   IN  IF v # None THEN Place(Append(txid, v[1]), p - 1 - Upto(values, v[1] - 1))
                       ELSE Lost(p - 1 - Total(values))
     IN  /\ Total(values) <= Len(all)
         /\ ins' = s.ins /\ txcnt' = s.txcnt /\ rows' = s.rows
         /\ utxos' = utxos @@ NewUtxos(s, values, txid)
         /\ coins' = coins @@ NewCoins(sats, values, txid)
         /\ paths' = [x \in 1 .. Len(paths) + Subsidy |->
                        LET p == SelectInSeq(sats, LAMBDA y : y = x)
                            was == IF x \in Sats THEN paths[x] ELSE << >>
                        IN  IF p = 0 THEN was
                            ELSE Append(was, [place |-> At(p), h |-> height, via |-> all[p].via, fee |-> TRUE])]
  /\ height' = height + 1 /\ txs' = 0
  /\ fees' = << >> /\ flotsam' = << >> /\ reward' = Subsidy /\ idx' = 0 /\ early' = {}

Next ==
  \/ \E t \in Txs : \E from \in [1 .. Len(t.scripts) -> DOMAIN utxos] : IndexTx(t, from)
  \/ \E outs \in Coinbases : IndexCoinbase(outs)

Spec == Init /\ [][Next]_vars

-----------------------------------------------------------------------------
Seqs == DOMAIN ins
IsText(n) == ins[n].json \/ ins[n].text
InFees(x) == \E k \in DOMAIN fees : fees[k].sat = x

(* The index knows the value of every unspent output, and an inscription   *)
(* stays on the sat it was made on: where the index has it, Bitcoin has    *)
(* that sat, in an output or among the fees of the block; it is there      *)
(* once, and nowhere when the sat is lost or it was never bound.           *)
OnSat ==
  /\ DOMAIN utxos = DOMAIN coins /\ \A o \in DOMAIN coins : utxos[o].value = Len(coins[o])
  /\ \A o \in DOMAIN utxos : \A k \in DOMAIN utxos[o].items :
       LET x == utxos[o].items[k]
       IN  ~ ins[x.n].unbound /\ x.off < Len(coins[o]) /\ coins[o][x.off + 1] = ins[x.n].sat
  /\ \A k \in DOMAIN flotsam :
       LET f == flotsam[k]
           p == f.offset - Subsidy + 1
       IN  ~ (f.new /\ f.unbound) =>
             p \in DOMAIN fees /\ fees[p].sat = (IF f.new THEN f.sat ELSE ins[f.n].sat)
  /\ \A n \in Seqs : ~ ins[n].unbound =>
       LET place == Last(paths[ins[n].sat]).place
           at    == {<<o, k>> \in (DOMAIN utxos) \X (1 .. Len(ins)) :
                       k \in DOMAIN utxos[o].items /\ utxos[o].items[k].n = n}
       IN  Cardinality(at) = (IF InFees(ins[n].sat) \/ place.out = <<"lost">> THEN 0 ELSE 1)

(* The rows of an inscription, in the order in which they are read.        *)
RowsOf(n) ==
  SetToSortSeq({r \in rows : r.id = ins[n].id},
               LAMBDA a, b : a.h < b.h \/ (a.h = b.h /\ a.idx < b.idx))

(* What Bitcoin did to the sat of an inscription since it was made, up to  *)
(* the limit.                                                              *)
Moves(n) ==
  LET path == paths[ins[n].sat]
      from == ins[n].before
      last == IF Len(path) - from <= Limit THEN Len(path) ELSE from + Limit
  IN  [k \in 1 .. last - from |->
         [h |-> path[from + k].h, id |-> ins[n].id,
          old |-> IF k = 1 THEN NoPlace ELSE path[from + k - 1].place,
          new |-> path[from + k].place, coinbase |-> path[from + k].fee]]

Told(r) == [h |-> r.h, id |-> r.id, old |-> r.old, new |-> r.new, coinbase |-> r.coinbase]
ViaOf(r) ==
  LET path == paths[ins[NumberOf(r.id)].sat]
  IN  path[SelectInSeq(path, LAMBDA p : p.place.out = r.new.out)].via

(* ord_transfers has a row for the reveal and the first move of every text *)
(* that is bound to a sat, each once and as Bitcoin made it, also when it  *)
(* went through the fees or was lost, and nothing else; the row of a move  *)
(* comes where its transaction is in the block, also when it went to the   *)
(* fees. Cursed texts have their rows too: a comment of the code ("only    *)
(* track non-cursed and first two transactions") says less than the limit  *)
(* that it stores for them; is_valid_brc20 of db_reader leaves them out.   *)
(* This is what the index writes: the row of a lost move has no place, and *)
(* db_reader panics when it reads that.                                    *)
FirstMovesTold ==
  /\ \A n \in Seqs :
       [k \in DOMAIN RowsOf(n) |-> Told(RowsOf(n)[k])]
         = (IF IsText(n) /\ ~ ins[n].unbound THEN Moves(n) ELSE << >>)
  /\ \A r \in rows : \E n \in Seqs : ins[n].id = r.id
  /\ \A r, q \in rows : r.h = q.h /\ r.idx < q.idx => ViaOf(r) <= ViaOf(q)

(* At most one inscription of a sat is not cursed, those included whose    *)
(* curse the jubilee has lifted: BRC-20 ignores all others.                *)
OneBlessed ==
  \A m, n \in Seqs :
    LET Blessed(k) == ~ ins[k].unbound /\ ins[k].number >= 0 /\ ~ ins[k].vindicated
    IN  Blessed(m) /\ Blessed(n) /\ ins[m].sat = ins[n].sat => m = n
=============================================================================
