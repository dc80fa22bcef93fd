------------------------------ MODULE Registry ------------------------------
(***************************************************************************)
(* The bitmap and the SNS indexer: first-come registers of names, kept in  *)
(* Postgres by the same loop, which follows OPI-ord one block at a time.   *)
(* Every statement is a transaction of its own (autocommit), except those  *)
(* of reorg_fix. The process may stop between any two of them, OPI-ord may *)
(* change between any two calls.                                           *)
(*                                                                         *)
(* Heights count from first_inscription_height = 1. The block at height h  *)
(* of fork f is <<h, f>>, NoBlock stands for what OPI-ord answers for a    *)
(* height that it does not serve. A hash is what it is the hash of: that   *)
(* of a block is its fork, the cumulative hash of the events is their      *)
(* list.                                                                   *)
(***************************************************************************)
EXTENDS Rows, SequencesExt, FiniteSets

CONSTANTS
  Kinds,         \* "bitmap" or "sns"
  Inscriptions,  \* of a kind, at a height, on a fork: what OPI-ord serves
  MaxHeight,     \* bound on the height of Bitcoin
  Forks,         \* bound on the number of forks
  Depth,         \* hashes compared by check_for_reorg, 10 in the code
  MaxCrashes

ASSUME RegistryAssumption ==
  /\ Kinds \subseteq {"bitmap", "sns"}
  /\ MaxHeight \in Nat /\ Forks \in Nat \ {0} /\ Depth \in Nat /\ MaxCrashes \in Nat
  /\ \A k \in Kinds, h \in 1 .. MaxHeight, f \in 1 .. Forks :
       Inscriptions[k][h][f] \in Seq(ToSet(Inscriptions[k][h][f]))

VARIABLES
  kind,      \* which indexer this is
  best,      \* Bitcoin's chain, by fork
  fork,      \* the newest fork
  opi,       \* the chain that OPI-ord serves
  rows,      \* bitmaps, or sns_names and sns_namespaces: [table, key, by, h]
  cumul,     \* .._cumulative_event_hashes: [h, chain]
  hashes,    \* .._block_hashes
  pc,
  hash,      \* current_block_hash
  left,      \* inscriptions of the block not looked at yet
  events,    \* block_events_str
  at,        \* height of the search for a common block
  source,    \* the block whose inscriptions were read (not in the code)
  sources,   \* the same for the stored blocks (not in the code)
  crashes

ord    == <<best, fork, opi>>
tables == <<rows, cumul, hashes, sources>>
memory == <<hash, left, events, at, source>>
vars   == <<kind, ord, tables, pc, memory, crashes>>

NoBlock == 0
Height  == Len(hashes)
Prefix(s, n) == SubSeq(s, 1, IF n < Len(s) THEN n ELSE Len(s))

None    == << >>
Some(v) == <<v>>

-----------------------------------------------------------------------------
(* What an inscription registers *)

(* get_bitmap_number: digits and ".bitmap", without a leading zero.        *)
BitmapNumber(content) ==
  IF /\ content.suffix
     /\ content.chars # << >>
     /\ \A k \in DOMAIN content.chars : content.chars[k] \in 0 .. 9
     /\ content.chars[1] = 0 => Len(content.chars) = 1
  THEN Some(FoldLeft(LAMBDA n, d : 10 * n + d, 0, content.chars))
  ELSE None

(* The first word of a text, in lower case, if it has that many dots.      *)
FirstWord(text, dots) ==
  IF text # << >> /\ text[1].dots = dots THEN Some(text[1]) ELSE None

(* get_sns_name and get_ns_register: a registration in JSON, or, for a     *)
(* name, any text that is not JSON.                                        *)
SnsName(content) ==
  IF ~ content.json THEN FirstWord(content.text, 1)
  ELSE IF content.p = "sns" /\ content.op = "reg" THEN FirstWord(content.text, 1)
  ELSE None
Namespace(content) ==
  IF content.json /\ content.p = "sns" /\ content.op = "ns" THEN FirstWord(content.text, 0) ELSE None

(* The row that the loop body of index_block tries to insert.              *)
RowOf(k, inscription, h) ==
  LET content   == inscription.content
      Row(t, n) == Some([table |-> t, key |-> n, by |-> inscription.id, h |-> h])
      Word(t, w) == IF w.fits THEN Row(t, w.word) ELSE None
  IN  IF k = "bitmap"
      THEN LET n == BitmapNumber(content)
           IN  IF n # None /\ n[1] <= h THEN Row("bitmaps", n[1]) ELSE None
      ELSE LET n == SnsName(content)
               s == Namespace(content)
           IN  IF n # None THEN Word("sns_names", n[1])
               ELSE IF s # None THEN Word("sns_namespaces", s[1])
               ELSE None

Has(rs, row) == \E i \in DOMAIN rs : rs[i].table = row.table /\ rs[i].key = row.key

\* Mutant: the last registration wins.
RegisterLast(k, rs, inscription, h) ==
  LET row == RowOf(k, inscription, h)
  IN  IF row = None THEN rs
      ELSE SelectSeq(rs, LAMBDA r : r.table # row[1].table \/ r.key # row[1].key) \o row

(* INSERT .. ON CONFLICT DO NOTHING: the first one wins.                   *)
Register(k, rs, inscription, h) ==
  LET row == RowOf(k, inscription, h)
  IN  IF row = None \/ Has(rs, row[1]) THEN rs ELSE rs \o row

(* What OPI-ord answers for a height.                                      *)
Read(h, f) == IF f = NoBlock THEN << >> ELSE Inscriptions[kind][h][f]
Served(h)  == IF h <= Len(opi) THEN opi[h] ELSE NoBlock

-----------------------------------------------------------------------------
Init ==
  /\ kind \in Kinds
  /\ best = << >> /\ fork = 1 /\ opi = << >>
  /\ rows = << >> /\ cumul = {} /\ hashes = << >> /\ sources = << >>
  /\ pc = "down"
  /\ hash = NoBlock /\ left = << >> /\ events = << >> /\ at = 0 /\ source = NoBlock
  /\ crashes = 0

(* An exception outside of the try, or a crash: memory is lost.            *)
Die ==
  /\ pc' = "down"
  /\ UNCHANGED <<kind, ord, tables, memory>>

Goto(l) == pc' = l

Start ==
  /\ pc = "down"
  /\ Goto("residue")
  /\ UNCHANGED <<kind, ord, tables, memory, crashes>>

\* Mutant: the cumulative hashes of the removed blocks stay.
ReorgFixKeepsCumul(k) ==
  /\ rows' = Only(rows, 0 .. k)
  /\ hashes' = Prefix(hashes, k)
  /\ sources' = Prefix(sources, k)
  /\ UNCHANGED cumul

(* reorg_fix: one transaction that deletes what lies above height k.       *)
ReorgFix(k) ==
  /\ rows' = Only(rows, 0 .. k)
  /\ cumul' = {c \in cumul : c.h <= k}
  /\ hashes' = Prefix(hashes, k)
  /\ sources' = Prefix(sources, k)

(* check_if_there_is_residue_from_last_run looks at the registers only.    *)
Residue == \E i \in DOMAIN rows : rows[i].h > Height

CheckResidue ==
  /\ pc = "residue"
  /\ IF Residue THEN ReorgFix(Height) ELSE UNCHANGED tables
  /\ Goto("height")
  /\ UNCHANGED <<kind, ord, memory, crashes>>

(* get_ord_block_height: sleep while there is no new block.                *)
ReadHeight ==
  /\ pc = "height"
  /\ Goto(IF Height + 1 > Len(opi) THEN "residue" ELSE "hash")
  /\ UNCHANGED <<kind, ord, tables, memory, crashes>>

ReadHash ==
  /\ pc = "hash"
  /\ \/ /\ Served(Height + 1) # NoBlock
        /\ hash' = Served(Height + 1)
        /\ Goto("tip")
        /\ UNCHANGED <<kind, ord, tables, left, events, at, source>>
     \/ /\ Served(Height + 1) = NoBlock
        /\ Die
  /\ UNCHANGED crashes

(* check_for_reorg: the last stored hash is compared with OPI-ord's.       *)
CheckTip ==
  /\ pc = "tip"
  /\ \/ /\ Height > 0 => Served(Height) = hashes[Height]
        /\ Goto("read")
        /\ UNCHANGED <<kind, ord, tables, memory>>
     \/ /\ Height > 0
        /\ Served(Height) \notin {NoBlock, hashes[Height]}
        /\ Goto("walk")
        /\ at' = Height
        /\ UNCHANGED <<kind, ord, tables, hash, left, events, source>>
     \/ /\ Height > 0 /\ Served(Height) = NoBlock
        /\ Die
  /\ UNCHANGED crashes

\* Mutant: goes back to the first height that differs.
WalkOneOff ==
  /\ pc = "walk"
  /\ at > 0 /\ at > Height - Depth
  /\ Served(at) = hashes[at]
  /\ ReorgFix(at + 1)
  /\ Goto("residue")
  /\ UNCHANGED <<kind, ord, memory, crashes>>

(* One of the last Depth hashes is compared: the first that matches is the *)
(* height to return to.                                                    *)
WalkFound ==
  /\ pc = "walk"
  /\ at > 0 /\ at > Height - Depth
  /\ Served(at) = hashes[at]
  /\ ReorgFix(at)
  /\ Goto("residue")
  /\ UNCHANGED <<kind, ord, memory, crashes>>

WalkBack ==
  /\ pc = "walk"
  /\ at > 0 /\ at > Height - Depth
  /\ \/ /\ Served(at) \notin {NoBlock, hashes[at]}
        /\ at' = at - 1
        /\ UNCHANGED <<kind, ord, tables, pc, hash, left, events, source>>
     \/ /\ Served(at) = NoBlock
        /\ Die
  /\ UNCHANGED crashes

(* "CRITICAL ERROR!!": sys.exit, and the same again after a restart.       *)
WalkEnds ==
  /\ pc = "walk"
  /\ at = 0 \/ at <= Height - Depth
  /\ Goto("exit")
  /\ UNCHANGED <<kind, ord, tables, memory, crashes>>

(* index_block: the inscriptions are read by a call of their own.          *)
ReadInscriptions ==
  /\ pc = "read"
  /\ source' = Served(Height + 1)
  /\ left' = Read(Height + 1, source')
  /\ events' = << >>
  /\ Goto("index")
  /\ UNCHANGED <<kind, ord, tables, hash, at, crashes>>

IndexOne ==
  /\ pc = "index" /\ left # << >>
  /\ rows' = Register(kind, rows, Head(left), Height + 1)
  /\ events' = events \o SubSeq(rows', Len(rows) + 1, Len(rows'))
  /\ left' = Tail(left)
  /\ UNCHANGED <<kind, ord, cumul, hashes, sources, pc, hash, at, source, crashes>>

(* The cumulative hash of height h, if there is a row for it.              *)
ChainAt(h) == IF \E c \in cumul : c.h = h THEN (CHOOSE c \in cumul : c.h = h).chain ELSE << >>

\* Mutant: chained to the last row there is, not to that of the height before.
UpdateEventHashesLast ==
  /\ pc = "index" /\ left = << >>
  /\ cumul' = cumul \cup {[h |-> Height + 1, chain |-> <<events>>]}
  /\ Goto("store")
  /\ UNCHANGED <<kind, ord, rows, hashes, sources, memory, crashes>>

(* update_event_hashes: a second row for a height violates a unique index, *)
(* the exception is printed and the loop goes on.                          *)
UpdateEventHashes ==
  /\ pc = "index" /\ left = << >>
  /\ \/ /\ ~ \E c \in cumul : c.h = Height + 1
        /\ cumul' = cumul \cup {[h |-> Height + 1, chain |-> Append(ChainAt(Height), events)]}
        /\ Goto("store")
     \/ /\ \E c \in cumul : c.h = Height + 1
        /\ Goto("residue")
        /\ UNCHANGED cumul
  /\ UNCHANGED <<kind, ord, rows, hashes, sources, memory, crashes>>

StoreHash ==
  /\ pc = "store"
  /\ hashes' = Append(hashes, hash)
  /\ sources' = Append(sources, source)
  /\ Goto("residue")
  /\ UNCHANGED <<kind, ord, rows, cumul, memory, crashes>>

Crash ==
  /\ pc \notin {"down", "exit"}
  /\ crashes < MaxCrashes
  /\ crashes' = crashes + 1
  /\ Die

Indexer ==
  \/ Start \/ CheckResidue \/ ReadHeight \/ ReadHash \/ CheckTip
  \/ WalkFound \/ WalkBack \/ WalkEnds
  \/ ReadInscriptions \/ IndexOne \/ UpdateEventHashes \/ StoreHash

-----------------------------------------------------------------------------
(* Bitcoin and OPI-ord, which after a reorg serves a shorter chain first.  *)

Mine ==
  /\ Len(best) < MaxHeight
  /\ best' = Append(best, fork)
  /\ UNCHANGED <<kind, fork, opi, tables, pc, memory, crashes>>

(* A chain takes over when it is the longer one.                           *)
Reorg(k) ==
  /\ fork < Forks /\ Len(best) < MaxHeight
  /\ fork' = fork + 1
  /\ best' = [h \in 1 .. Len(best) + 1 |-> IF h <= k THEN best[h] ELSE fork']
  /\ UNCHANGED <<kind, opi, tables, pc, memory, crashes>>

OrdAdvance ==
  /\ Len(opi) < Len(best) /\ IsPrefix(opi, best)
  /\ opi' = Append(opi, best[Len(opi) + 1])
  /\ UNCHANGED <<kind, best, fork, tables, pc, memory, crashes>>

OrdRestore(k) ==
  /\ ~ IsPrefix(opi, best)
  /\ IsPrefix(Prefix(opi, k), best)
  /\ opi' = Prefix(opi, k)
  /\ UNCHANGED <<kind, best, fork, tables, pc, memory, crashes>>

Environment ==
  \/ Mine
  \/ \E k \in 0 .. Len(best) - 1 : Reorg(k)
  \/ OrdAdvance
  \/ \E k \in 0 .. Len(opi) - 1 : OrdRestore(k)

Next == Indexer \/ Environment \/ Crash

Spec == Init /\ [][Next]_vars

(* The loop runs on, a stopped process is started again, and OPI-ord goes  *)
(* on to the chain of Bitcoin.                                             *)
FairSpec ==
  /\ Spec
  /\ WF_vars(Indexer)
  /\ WF_vars(Mine) /\ WF_vars(OrdAdvance)
  /\ WF_vars(\E k \in 0 .. Len(opi) - 1 : OrdRestore(k))

-----------------------------------------------------------------------------
(* The inscriptions of the stored blocks, in order.                        *)
Read1(h)  == Read(h, sources[h])
Places    == UNION {{h} \X DOMAIN Read1(h) : h \in 1 .. Height}
Before(a, b) == a[1] < b[1] \/ (a[1] = b[1] /\ a[2] < b[2])
RowAt(a)  == RowOf(kind, Read1(a[1])[a[2]], a[1])
Same(a, b) == RowAt(a)[1].table = RowAt(b)[1].table /\ RowAt(a)[1].key = RowAt(b)[1].key

(* First come, first served: the registers of the stored blocks hold, for  *)
(* each name, the first inscription of it, whatever reorgs and crashes     *)
(* came in between.                                                        *)
FirstIsFirst ==
  {rows[i] : i \in {j \in DOMAIN rows : rows[j].h <= Height}}
  = {RowAt(a)[1] : a \in {b \in Places :
       RowAt(b) # None /\ \A c \in Places : Before(c, b) => RowAt(c) = None \/ ~ Same(c, b)}}

(* What is reported for a stored block, its cumulative hash, is that of    *)
(* the events of the registers up to that block and of nothing else; no    *)
(* table is more than one block ahead of the stored hashes.                *)
HashesNameRows ==
  /\ \A h \in 1 .. Height :
       /\ \E c \in cumul : c.h = h
       /\ ChainAt(h) = [j \in 1 .. h |-> Only(rows, {j})]
  /\ \A c \in cumul : c.h <= Height + 1
  /\ \A i \in DOMAIN rows : rows[i].h <= Height + 1

Agrees == hashes = best

(* A cumulative hash that a crash has left without its block hash, in a    *)
(* block without registrations.                                            *)
LoneHash == pc # "store" /\ \E c \in cumul : c.h = Height + 1

(* The indexer follows Bitcoin to its tip through crashes and reorgs, or   *)
(* gives up in front of a reorg that is too deep, unless a crash left a    *)
(* lone cumulative hash behind.                                            *)
ReachesTip == <>[] ~ LoneHash => <>[] (Agrees \/ pc = "exit")

(* The rollback of the residue of the last run leaves nothing behind.      *)
NoResidueLeft == pc = "height" => ~ LoneHash
=============================================================================
