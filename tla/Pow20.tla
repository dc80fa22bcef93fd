------------------------------- MODULE Pow20 -------------------------------
(***************************************************************************)
(* The POW20 indexer: a ledger of tickers, mints with proof of work and    *)
(* two-step transfers in Postgres, and extra tables derived from it. An    *)
(* event and the rows it causes are one transaction, every other statement *)
(* is one of its own; the process may stop between any two. The blocks it  *)
(* reads come from the tables of a main indexer that is not part of this   *)
(* repository (ord_transfers, block_hashes).                               *)
(*                                                                         *)
(* Heights count from first_inscription_height = 1. The block at height h  *)
(* of fork f is <<h, f>> and its hash f. Amounts are in the smallest unit, *)
(* with the number of decimal places they are written with.                *)
(***************************************************************************)
EXTENDS Rows, SequencesExt, FiniteSets

CONSTANTS
  Ticks, Pks,
  Transfers,     \* at a height, on a fork: the pow-20 rows of ord_transfers
  MaxAmount,     \* (2**64 - 1) * 10**18 in the code
  MaxStart,      \* 2**31 - 1, the largest int4
  MaxHeight, Forks,
  Depth,         \* hashes compared by check_for_reorg, 10 in the code
  MaxCrashes

Nobody  == "nobody"
NoBlock == 0
Offered == UNION {ToSet(Transfers[h][f]) : h \in 1 .. MaxHeight, f \in 1 .. Forks}

(* What is inscribed never changes, and the solution of a mint names a     *)
(* block. The fields in odd hold what is no text: a number as a list of its*)
(* digits, which is_positive_number lets pass and int() does not take, or a*)
(* solution that cannot be split.                                          *)
ASSUME Pow20Assumption ==
  /\ MaxAmount \in Nat /\ MaxStart \in Nat
  /\ MaxHeight \in Nat /\ Forks \in Nat \ {0} /\ Depth \in Nat /\ MaxCrashes \in Nat
  /\ Nobody \notin Pks
  /\ \A h \in 1 .. MaxHeight, f \in 1 .. Forks : Transfers[h][f] \in Seq(Offered)
  /\ \A x \in Offered :
       /\ x.op \in {"deploy", "mint", "transfer"} /\ x.tick \in Ticks /\ x.pk \in Pks
       /\ x.odd \subseteq {"start", "difficulty", "dec", "max", "limit", "amount", "solution"}
       /\ x.op = "deploy" => x.max.n \in Nat /\ x.limit.n \in Nat /\ x.start \in Nat
       /\ x.op = "mint" => x.amount.n \in Nat /\ x.solution.block # NoBlock
       /\ x.op = "transfer" => x.amount.n \in Nat
  /\ \A x, y \in Offered : x.by = y.by /\ x.op = "transfer" =>
       y.op = x.op /\ y.tick = x.tick /\ y.amount = x.amount

VARIABLES
  best, fork, opi,  \* Bitcoin's chain, its newest fork, the chain of the main indexer
  tickers,          \* pow20_tickers: set of [tick, max, limit, remaining, dec, difficulty, start, h]
  evs,              \* pow20_events: [type, by, tick, from, to, amount, solution, h]
  historic,         \* pow20_historic_balances: [pk, tick, overall, available, h]
  cumul,            \* pow20_cumulative_event_hashes: [h, chain]
  hashes,           \* pow20_block_hashes
  current,          \* pow20_current_balances: set of [pk, tick, overall, available, h]
  unused,           \* pow20_unused_tx_inscrs: set of [by, h]
  xhashes,          \* pow20_extras_block_hashes
  pc, booting,
  hash, left, events, at,
  ticks,            \* the cache of tickers: [remaining, limit, dec, more]
  cache,            \* balance_cache
  crashes

ord    == <<best, fork, opi>>
main   == <<tickers, evs, historic, cumul, hashes>>
extra  == <<current, unused, xhashes>>
memory == <<hash, left, events, at, ticks, cache>>
vars   == <<ord, main, extra, pc, booting, memory, crashes>>

None    == << >>
Some(v) == <<v>>
Height  == Len(hashes)
Here    == Height + 1
Served(h) == IF h <= Len(opi) THEN opi[h] ELSE NoBlock
Prefix(s, n) == SubSeq(s, 1, IF n < Len(s) THEN n ELSE Len(s))
Goto(l) == pc' = l

Accounts == Pks \X Ticks
NoCache == [a \in Accounts |-> None]
Idle == /\ hash' = NoBlock /\ left' = << >> /\ events' = << >> /\ at' = 0
        /\ ticks' = [t \in Ticks |-> None] /\ cache' = NoCache

Init ==
  /\ best = << >> /\ fork = 1 /\ opi = << >>
  /\ tickers = {} /\ evs = << >> /\ historic = << >> /\ cumul = {} /\ hashes = << >>
  /\ current = {} /\ unused = {} /\ xhashes = << >>
  /\ pc = "down" /\ booting = TRUE
  /\ hash = NoBlock /\ left = << >> /\ events = << >> /\ at = 0
  /\ ticks = [t \in Ticks |-> None] /\ cache = NoCache
  /\ crashes = 0

(* The end of the process, by an exception or a crash.                     *)
Die == Goto("down") /\ Idle /\ UNCHANGED <<ord, main, extra, booting>>

Start ==
  /\ pc = "down"
  /\ Goto("residue") /\ booting' = TRUE
  /\ UNCHANGED <<ord, main, extra, memory, crashes>>

-----------------------------------------------------------------------------
(* Rollbacks *)

(* What the events in the places S amount to.                              *)
Total(S) == SumFunctionOnSet([i \in DOMAIN evs |-> evs[i].amount], S)
Minted(tick, k) ==
  Total({i \in DOMAIN evs : evs[i].type = "mint" /\ evs[i].tick = tick /\ evs[i].h > k})

\* Mutant: the cached balances survive.
ReorgFixKeepsCache(k) ==
  /\ tickers' = {[t EXCEPT !.remaining = @ + Minted(t.tick, k)] : t \in {u \in tickers : u.h <= k}}
  /\ historic' = Only(historic, 0 .. k)
  /\ evs' = Only(evs, 0 .. k)
  /\ cumul' = {c \in cumul : c.h <= k}
  /\ hashes' = Prefix(hashes, k)
  /\ UNCHANGED cache

(* reorg_fix: one transaction; what was minted above k can be minted again.*)
ReorgFix(k) ==
  /\ tickers' = {[t EXCEPT !.remaining = @ + Minted(t.tick, k)] : t \in {u \in tickers : u.h <= k}}
  /\ historic' = Only(historic, 0 .. k)
  /\ evs' = Only(evs, 0 .. k)
  /\ cumul' = {c \in cumul : c.h <= k}
  /\ hashes' = Prefix(hashes, k)
  /\ cache' = NoCache

\* Mutant: does not look at the cumulative hashes.
ResidueLoose ==
  \/ \E i \in DOMAIN evs : evs[i].h > Height
  \/ \E i \in DOMAIN historic : historic[i].h > Height
  \/ \E t \in tickers : t.h > Height

(* check_if_there_is_residue_from_last_run *)
Residue ==
  \/ \E i \in DOMAIN evs : evs[i].h > Height
  \/ \E i \in DOMAIN historic : historic[i].h > Height
  \/ \E t \in tickers : t.h > Height
  \/ \E c \in cumul : c.h > Height

CheckResidue ==
  /\ pc = "residue"
  /\ IF Residue THEN ReorgFix(Height) ELSE UNCHANGED <<main, cache>>
  /\ Goto("xresidue")
  /\ UNCHANGED <<ord, extra, booting, hash, left, events, at, ticks, crashes>>

(* The last row of an account among those up to height k.                  *)
RowsOf(a, k) ==
  {i \in DOMAIN historic : historic[i].pk = a[1] /\ historic[i].tick = a[2] /\ historic[i].h <= k}
LastRow(a, k) == historic[CHOOSE i \in RowsOf(a, k) : \A j \in RowsOf(a, k) : j <= i]
LastRows(k) == {LastRow(a, k) : a \in {b \in Accounts : RowsOf(b, k) # {}}}

Inscribed(k) == {[by |-> evs[i].by, h |-> evs[i].h] :
                   i \in {j \in DOMAIN evs : evs[j].type = "inscribe" /\ evs[j].h <= k}}
Spent(k) == {evs[i].by : i \in {j \in DOMAIN evs : evs[j].type = "send" /\ evs[j].h <= k}}
UnusedUpTo(k) == {u \in Inscribed(k) : u.by \notin Spent(k)}

\* Mutant: inscriptions that the removed blocks have spent stay spent.
ReorgExtraKeepsSpent(k) ==
  /\ current' = {b \in current : b.h <= k}
                \cup {b \in LastRows(k) : \E c \in current : c.pk = b.pk /\ c.tick = b.tick /\ c.h > k}
  /\ unused' = {u \in unused : u.h <= k}
  /\ xhashes' = Prefix(xhashes, k)

(* reorg_on_extra_tables: one transaction.                                 *)
ReorgExtra(k) ==
  /\ current' = {b \in current : b.h <= k}
                \cup {b \in LastRows(k) : \E c \in current : c.pk = b.pk /\ c.tick = b.tick /\ c.h > k}
  /\ unused' = UnusedUpTo(k)
  /\ xhashes' = Prefix(xhashes, k)

(* check_if_there_is_residue_on_extra_tables_from_last_run *)
CheckExtraResidue ==
  /\ pc = "xresidue"
  /\ IF \E r \in unused \cup current : r.h > Len(xhashes)
     THEN ReorgExtra(Len(xhashes)) ELSE UNCHANGED extra
  /\ Goto(IF booting THEN "extras" ELSE "height")
  /\ UNCHANGED <<ord, main, booting, memory, crashes>>

-----------------------------------------------------------------------------
(* The loop, as in the other indexers *)

ReadHeight ==
  /\ pc = "height"
  /\ Goto(IF Here > Len(opi) THEN "residue" ELSE "hash")
  /\ UNCHANGED <<ord, main, extra, booting, memory, crashes>>

ReadHash ==
  /\ pc = "hash"
  /\ \/ /\ Served(Here) # NoBlock
        /\ hash' = Served(Here)
        /\ Goto("tip")
        /\ UNCHANGED <<ord, main, extra, booting, left, events, at, ticks, cache>>
     \/ /\ Served(Here) = NoBlock
        /\ Die
  /\ UNCHANGED crashes

CheckTip ==
  /\ pc = "tip"
  /\ \/ /\ Height > 0 => Served(Height) = hashes[Height]
        /\ Goto("read")
        /\ UNCHANGED <<ord, main, extra, booting, memory>>
     \/ /\ Height > 0 /\ Served(Height) \notin {NoBlock, hashes[Height]}
        /\ Goto("walk")
        /\ at' = Height
        /\ UNCHANGED <<ord, main, extra, booting, hash, left, events, ticks, cache>>
     \/ /\ Height > 0 /\ Served(Height) = NoBlock
        /\ Die
  /\ UNCHANGED crashes

WalkFound ==
  /\ pc = "walk"
  /\ at > 0 /\ at > Height - Depth
  /\ Served(at) = hashes[at]
  /\ ReorgFix(at)
  /\ Goto("residue")
  /\ UNCHANGED <<ord, extra, booting, hash, left, events, at, ticks, crashes>>

WalkBack ==
  /\ pc = "walk"
  /\ at > 0 /\ at > Height - Depth
  /\ \/ /\ Served(at) \notin {NoBlock, hashes[at]}
        /\ at' = at - 1
        /\ UNCHANGED <<ord, main, extra, pc, booting, hash, left, events, ticks, cache>>
     \/ /\ Served(at) = NoBlock
        /\ Die
  /\ UNCHANGED crashes

WalkEnds ==
  /\ pc = "walk"
  /\ at = 0 \/ at <= Height - Depth
  /\ Goto("exit")
  /\ UNCHANGED <<ord, main, extra, booting, memory, crashes>>

(* index_block: the transfers of the block, and the tickers with the hash  *)
(* of the block that their mints must name.                                *)
ReadTransfers ==
  /\ pc = "read"
  /\ left' = IF Served(Here) = NoBlock THEN << >> ELSE Transfers[Here][Served(Here)]
  /\ events' = << >>
  /\ ticks' = IF left' = << >> THEN ticks
              ELSE [t \in Ticks |->
                      LET mine == {r \in tickers : r.tick = t}
                      IN  IF mine = {} THEN None
                          ELSE LET r == CHOOSE r \in mine : TRUE
                               IN  Some([remaining |-> r.remaining, limit |-> r.limit, dec |-> r.dec,
                                         more |-> Some([difficulty |-> r.difficulty, start |-> r.start,
                                           hash |-> IF r.start \in DOMAIN hashes THEN hashes[r.start] ELSE NoBlock])])]
  /\ Goto("index")
  /\ UNCHANGED <<ord, main, extra, booting, hash, at, cache, crashes>>

-----------------------------------------------------------------------------
(* The events *)

(* get_last_balance, through its cache.                                    *)
Stored(a, k) ==
  IF RowsOf(a, k) = {} THEN [overall |-> 0, available |-> 0]
  ELSE [overall |-> LastRow(a, k).overall, available |-> LastRow(a, k).available]
Balance(a) == IF cache[a] # None THEN cache[a][1] ELSE Stored(a, MaxHeight)

Row(a, b) == [pk |-> a[1], tick |-> a[2], overall |-> b.overall, available |-> b.available, h |-> Here]
Event(type, x, from, to, amount) ==
  [type |-> type, by |-> x.by, tick |-> x.tick, from |-> from, to |-> to, amount |-> amount,
   solution |-> IF type = "mint" THEN Some(x.solution) ELSE None, h |-> Here]
Log(e) == evs' = Append(evs, e) /\ events' = Append(events, e)

(* is_positive_number_with_dot, get_number_extended_to_18_decimals         *)
AmountOK(a, dec) == a.places <= dec /\ a.n > 0 /\ a.n <= MaxAmount
Known(x) == ticks[x.tick] # None
Tick(x)  == ticks[x.tick][1]

Inscribes(x) == x.new /\ ~ x.fee

CanDeploy(x) ==
  /\ x.op = "deploy" /\ Inscribes(x) /\ x.odd = {}
  /\ x.start >= Here
  /\ ~ Known(x)
  /\ AmountOK(x.max, x.dec) /\ AmountOK(x.limit, x.dec)

Deploy(x) ==
  /\ CanDeploy(x)
  /\ Log(Event("deploy", x, Nobody, x.pk, x.max.n))
  /\ tickers' = tickers \cup {[tick |-> x.tick, max |-> x.max.n, limit |-> x.limit.n,
                                remaining |-> x.max.n, dec |-> x.dec, difficulty |-> x.difficulty,
                                start |-> x.start, h |-> Here]}
  /\ ticks' = [ticks EXCEPT ![x.tick] = Some([remaining |-> x.max.n, limit |-> x.limit.n,
                                              dec |-> x.dec, more |-> None])]
  /\ UNCHANGED <<historic, cache>>

\* Mutant: a solution may be used again.
SolvesAgain(x) ==
  LET s == x.solution
      t == Tick(x).more[1]
  IN  s.tick = x.tick /\ s.wallet = x.pk /\ s.block = t.hash /\ s.zeros >= t.difficulty

(* The solution names the ticker, the minter and the block that its mints  *)
(* start at, has enough zeros, and is new.                                 *)
Solves(x) ==
  LET s == x.solution
      t == Tick(x).more[1]
  IN  /\ s.tick = x.tick /\ s.wallet = x.pk /\ s.block = t.hash
      /\ s.zeros >= t.difficulty
      /\ ~ \E i \in DOMAIN evs : evs[i].type = "mint" /\ evs[i].solution = Some(s)

MintOpen(x) ==
  /\ x.op = "mint" /\ Inscribes(x)
  /\ Known(x) /\ Tick(x).more # None
  /\ Here >= Tick(x).more[1].start
MintFits(x) ==
  /\ AmountOK(x.amount, Tick(x).dec)
  /\ Tick(x).remaining > 0
  /\ x.amount.n <= Tick(x).limit
CanMint(x) == MintOpen(x) /\ x.odd = {} /\ MintFits(x) /\ Solves(x)

Mint(x) ==
  /\ CanMint(x)
  /\ LET n == IF x.amount.n > Tick(x).remaining THEN Tick(x).remaining ELSE x.amount.n
         a == <<x.pk, x.tick>>
         b == [overall |-> Balance(a).overall + n, available |-> Balance(a).available + n]
     IN  /\ Log(Event("mint", x, Nobody, x.pk, n))
         /\ tickers' = {IF t.tick = x.tick THEN [t EXCEPT !.remaining = @ - n] ELSE t : t \in tickers}
         /\ historic' = Append(historic, Row(a, b))
         /\ cache' = [cache EXCEPT ![a] = Some(b)]
         /\ ticks' = [ticks EXCEPT ![x.tick] = Some([Tick(x) EXCEPT !.remaining = @ - n])]

(* transfer: inscribed by an account that can cover it, or spent once.     *)
IsTransfer(x) == x.op = "transfer" /\ Known(x) /\ x.odd = {} /\ AmountOK(x.amount, Tick(x).dec)
CanInscribe(x) ==
  IsTransfer(x) /\ Inscribes(x) /\ Balance(<<x.pk, x.tick>>).available >= x.amount.n

TransferInscribe(x) ==
  /\ CanInscribe(x)
  /\ LET a == <<x.pk, x.tick>>
         b == [Balance(a) EXCEPT !.available = @ - x.amount.n]
     IN  /\ Log(Event("inscribe", x, x.pk, Nobody, x.amount.n))
         /\ historic' = Append(historic, Row(a, b))
         /\ cache' = [cache EXCEPT ![a] = Some(b)]
  /\ UNCHANGED <<tickers, ticks>>

(* is_used_or_invalid: inscribed once and not sent.                        *)
Usable(x) ==
  /\ \E i \in DOMAIN evs : {j \in DOMAIN evs : evs[j].type = "inscribe" /\ evs[j].by = x.by} = {i}
  /\ ~ \E i \in DOMAIN evs : evs[i].type = "send" /\ evs[i].by = x.by
CanSend(x) == IsTransfer(x) /\ ~ x.new /\ Usable(x)
SourceOf(x) == evs[CHOOSE i \in DOMAIN evs : evs[i].type = "inscribe" /\ evs[i].by = x.by].from

TransferNormal(x) ==
  /\ CanSend(x) /\ ~ x.fee
  /\ LET n == x.amount.n
         s == <<SourceOf(x), x.tick>>
         d == <<x.pk, x.tick>>
         b == [Balance(s) EXCEPT !.overall = @ - n]
         o == IF d = s THEN b ELSE Balance(d)
         c == [overall |-> o.overall + n, available |-> o.available + n]
     IN  /\ Log(Event("send", x, s[1], x.pk, n))
         /\ historic' = historic \o <<Row(s, b), Row(d, c)>>
         /\ cache' = [cache EXCEPT ![s] = Some(b), ![d] = Some(c)]
  /\ UNCHANGED <<tickers, ticks>>

TransferToFee(x) ==
  /\ CanSend(x) /\ x.fee
  /\ LET s == <<SourceOf(x), x.tick>>
         b == [Balance(s) EXCEPT !.available = @ + x.amount.n]
     IN  /\ Log(Event("send", x, s[1], s[1], x.amount.n))
         /\ historic' = Append(historic, Row(s, b))
         /\ cache' = [cache EXCEPT ![s] = Some(b)]
  /\ UNCHANGED <<tickers, ticks>>

(* What an inscription can say that ends the process, at every attempt: a  *)
(* value that is no text; a start that does not fit its column; the mint   *)
(* of a ticker deployed in its block, whose start is not in the cache.     *)
DeployRaises(x) ==
  /\ x.op = "deploy" /\ Inscribes(x)
  /\ \/ "start" \in x.odd
     \/ x.start >= Here /\ "difficulty" \in x.odd
     \/ /\ x.start >= Here /\ ~ Known(x)
        /\ \/ x.odd \cap {"dec", "max"} # {}
           \/ "limit" \in x.odd /\ AmountOK(x.max, x.dec)
     \/ CanDeploy(x) /\ x.start > MaxStart
MintRaises(x) ==
  \/ x.op = "mint" /\ Inscribes(x) /\ Known(x) /\ Tick(x).more = None
  \/ MintOpen(x) /\ ("amount" \in x.odd \/ ("solution" \in x.odd /\ MintFits(x)))
TransferRaises(x) ==
  x.op = "transfer" /\ Known(x) /\ "amount" \in x.odd /\ (x.new => ~ x.fee)
Raises(x) == DeployRaises(x) \/ MintRaises(x) \/ TransferRaises(x)

(* The key of pow20_events: an inscription has one event of a type.        *)
Recorded(type, x) == \E i \in DOMAIN evs : evs[i].type = type /\ evs[i].by = x.by
Repeats(x) ==
  \/ CanDeploy(x) /\ Recorded("deploy", x)
  \/ CanMint(x) /\ Recorded("mint", x)
  \/ CanInscribe(x) /\ Recorded("inscribe", x)

IndexOne ==
  /\ pc = "index" /\ left # << >>
  /\ LET x == Head(left)
     IN  \/ /\ ~ (Raises(x) \/ Repeats(x))
            /\ \/ Deploy(x) \/ Mint(x) \/ TransferInscribe(x) \/ TransferNormal(x) \/ TransferToFee(x)
               \/ /\ ~ (CanDeploy(x) \/ CanMint(x) \/ CanInscribe(x) \/ CanSend(x))
                  /\ UNCHANGED <<evs, events, tickers, historic, ticks, cache>>
            /\ left' = Tail(left)
            /\ UNCHANGED <<ord, cumul, hashes, extra, pc, booting, hash, at>>
         \/ Raises(x) /\ Die
         \/ Repeats(x) /\ Die
  /\ UNCHANGED crashes

-----------------------------------------------------------------------------
(* The end of a block *)

ChainAt(h) == IF \E c \in cumul : c.h = h THEN (CHOOSE c \in cumul : c.h = h).chain ELSE << >>

(* update_event_hashes *)
UpdateEventHashes ==
  /\ pc = "index" /\ left = << >>
  /\ cumul' = cumul \cup {[h |-> Here, chain |-> Append(ChainAt(Height), events)]}
  /\ Goto("store")
  /\ UNCHANGED <<ord, tickers, evs, historic, hashes, extra, booting, memory, crashes>>

StoreHash ==
  /\ pc = "store"
  /\ hashes' = Append(hashes, hash)
  /\ Goto("extras")
  /\ UNCHANGED <<ord, tickers, evs, historic, cumul, extra, booting, memory, crashes>>

(* check_extra_tables: the first height whose hashes differ, or the next.  *)
Differ == {h \in 1 .. Len(xhashes) : h <= Height /\ xhashes[h] # hashes[h]}
ToCheck == IF Differ # {} THEN CHOOSE h \in Differ : \A k \in Differ : h <= k ELSE Len(xhashes) + 1

(* initial_index_of_extra_tables: all tables again, in one transaction.    *)
InitialExtra ==
  /\ pc = "extras" /\ ToCheck = 1
  /\ current' = LastRows(MaxHeight)
  /\ unused' = UnusedUpTo(MaxHeight)
  /\ xhashes' = hashes
  /\ Goto("residue") /\ booting' = FALSE
  /\ UNCHANGED <<ord, main, memory, crashes>>

\* Mutant: rolls the extra tables back to the block it is about to index.
BeginExtraOneOff ==
  /\ pc = "extras" /\ ToCheck > 1 /\ ToCheck <= Height
  /\ at' = ToCheck
  /\ IF Len(xhashes) >= ToCheck THEN ReorgExtra(ToCheck) ELSE UNCHANGED extra
  /\ Goto("xbalances")
  /\ UNCHANGED <<ord, main, booting, hash, left, events, ticks, cache, crashes>>

(* index_extra_tables: blocks of another fork are taken back first.        *)
BeginExtra ==
  /\ pc = "extras" /\ ToCheck > 1 /\ ToCheck <= Height
  /\ at' = ToCheck
  /\ IF Len(xhashes) >= ToCheck THEN ReorgExtra(ToCheck - 1) ELSE UNCHANGED extra
  /\ Goto("xbalances")
  /\ UNCHANGED <<ord, main, booting, hash, left, events, ticks, cache, crashes>>

NoExtra ==
  /\ pc = "extras" /\ ToCheck > 1 /\ ToCheck > Height
  /\ Goto("residue") /\ booting' = FALSE
  /\ UNCHANGED <<ord, main, extra, memory, crashes>>

Changed == {b \in LastRows(at) : b.h = at}

(* One balance of the block that is not in current yet.                    *)
ExtraBalance(b) ==
  /\ pc = "xbalances" /\ b \in Changed \ current
  /\ current' = {c \in current : c.pk # b.pk \/ c.tick # b.tick} \cup {b}
  /\ UNCHANGED <<ord, main, unused, xhashes, pc, booting, memory, crashes>>

(* Then its transfer inscriptions, then those that it spends, each by a    *)
(* statement, then its hash.                                               *)
New == {u \in Inscribed(at) : u.h = at}
Inserted == pc = "xbalances" /\ Changed \subseteq current /\ New \subseteq unused

ExtraUnused(u) ==
  /\ pc = "xbalances" /\ Changed \subseteq current /\ u \in New \ unused
  /\ unused' = unused \cup {u}
  /\ UNCHANGED <<ord, main, current, xhashes, pc, booting, memory, crashes>>

ExtraSpent(u) ==
  /\ Inserted \/ pc = "xspent"
  /\ u.by \in Spent(at)
  /\ unused' = unused \ {u}
  /\ Goto("xspent")
  /\ UNCHANGED <<ord, main, current, xhashes, booting, memory, crashes>>

ExtraHash ==
  /\ Inserted \/ pc = "xspent"
  /\ \A u \in unused : u.by \notin Spent(at)
  /\ xhashes' = Append(xhashes, hashes[at])
  /\ Goto("extras")
  /\ UNCHANGED <<ord, main, current, unused, booting, memory, crashes>>

Crash ==
  /\ pc \notin {"down", "exit"}
  /\ crashes < MaxCrashes
  /\ crashes' = crashes + 1
  /\ Die

Indexer ==
  \/ Start \/ CheckResidue \/ CheckExtraResidue \/ ReadHeight \/ ReadHash \/ CheckTip
  \/ WalkFound \/ WalkBack \/ WalkEnds
  \/ ReadTransfers \/ IndexOne \/ UpdateEventHashes \/ StoreHash
  \/ InitialExtra \/ BeginExtra \/ NoExtra
  \/ \E b \in Changed : ExtraBalance(b)
  \/ \E u \in New : ExtraUnused(u)
  \/ \E u \in unused : ExtraSpent(u)
  \/ ExtraHash

-----------------------------------------------------------------------------
(* Bitcoin and the main indexer, which after a reorg serves a shorter      *)
(* chain first.                                                            *)

state == <<main, extra, pc, booting, memory, crashes>>

Mine ==
  /\ Len(best) < MaxHeight
  /\ best' = Append(best, fork)
  /\ UNCHANGED <<fork, opi, state>>

(* What a block reveals; a chain reveals an inscription once.              *)
Reveals(h, f) == {Transfers[h][f][i].by : i \in {j \in DOMAIN Transfers[h][f] : Transfers[h][f][j].new}}

Reorg(k) ==
  /\ fork < Forks /\ Len(best) < MaxHeight
  /\ \A g \in 1 .. k, h \in k + 1 .. MaxHeight : Reveals(g, best[g]) \cap Reveals(h, fork + 1) = {}
  /\ fork' = fork + 1
  /\ best' = [h \in 1 .. Len(best) + 1 |-> IF h <= k THEN best[h] ELSE fork']
  /\ UNCHANGED <<opi, state>>

MainAdvance ==
  /\ Len(opi) < Len(best) /\ IsPrefix(opi, best)
  /\ opi' = Append(opi, best[Len(opi) + 1])
  /\ UNCHANGED <<best, fork, state>>

MainRestore(k) ==
  /\ ~ IsPrefix(opi, best)
  /\ IsPrefix(Prefix(opi, k), best)
  /\ opi' = Prefix(opi, k)
  /\ UNCHANGED <<best, fork, state>>

Environment ==
  \/ Mine
  \/ \E k \in 0 .. Len(best) - 1 : Reorg(k)
  \/ MainAdvance
  \/ \E k \in 0 .. Len(opi) - 1 : MainRestore(k)

Next == Indexer \/ Environment \/ Crash

Spec == Init /\ [][Next]_vars

(* The loop runs on, a stopped process is started again, and the main      *)
(* indexer goes on to the chain of Bitcoin.                                *)
FairSpec ==
  /\ Spec
  /\ WF_vars(Indexer)
  /\ WF_vars(Mine) /\ WF_vars(MainAdvance)
  /\ WF_vars(\E k \in 0 .. Len(opi) - 1 : MainRestore(k))

-----------------------------------------------------------------------------
(* The last balance of an account, the supply that is left of a ticker,    *)
(* and the cached balances are what the events that are on record add up   *)
(* to, in the middle of a block as well as after rollbacks and crashes; no *)
(* balance is negative, and what is locked are the inscriptions that were  *)
(* not sent, of which the tables never hold one twice.                     *)
BalancesFollowEvents ==
  /\ \A a \in Accounts :
       LET mine == {i \in DOMAIN evs : evs[i].tick = a[2]}
           in   == {i \in mine : evs[i].to = a[1] /\ evs[i].type \in {"mint", "send"}}
           out  == {i \in mine : evs[i].from = a[1] /\ evs[i].type = "send"}
           on   == {i \in mine : /\ evs[i].from = a[1] /\ evs[i].type = "inscribe"
                                 /\ ~ \E j \in DOMAIN evs : evs[j].type = "send" /\ evs[j].by = evs[i].by}
           b    == Stored(a, MaxHeight)
       IN  /\ b.overall = Total(in) - Total(out)
           /\ b.available = b.overall - Total(on)
           /\ b.available >= 0
           /\ cache[a] # None => cache[a][1] = b
  /\ \A t \in tickers :
       /\ t.remaining = t.max - Total({i \in DOMAIN evs : evs[i].type = "mint" /\ evs[i].tick = t.tick})
       /\ t.remaining >= 0

(* Every mint on record names the block at which mints of its ticker start *)
(* on the indexed chain, and no work is rewarded twice.                    *)
WorkCountsOnce ==
  \A i \in DOMAIN evs : evs[i].type = "mint" =>
    /\ \E t \in tickers :
         /\ t.tick = evs[i].tick /\ t.start <= Height
         /\ evs[i].solution[1].block = hashes[t.start]
    /\ \A j \in DOMAIN evs : evs[j].type = "mint" /\ evs[j].solution = evs[i].solution => i = j

(* What is derived from the events agrees with them: the cumulative hash   *)
(* that is reported for a stored block is that of the events on record up  *)
(* to it, and once the residue is gone, the extra tables hold what the     *)
(* main tables held at the block whose hash they stored last, if it is on  *)
(* the indexed chain; they are at most one block ahead of it.              *)
DerivedFollow ==
  /\ \A c, d \in cumul : c.h <= Height + 1 /\ (c.h = d.h => c = d)
  /\ \A r \in current \cup unused : r.h <= Len(xhashes) + 1
  /\ \A h \in 1 .. Height : ChainAt(h) = [j \in 1 .. h |-> Only(evs, {j})]
  /\ pc \in {"height", "hash", "tip", "read", "index", "store"} /\ IsPrefix(xhashes, hashes)
       => /\ current = LastRows(Len(xhashes))
          /\ unused = UnusedUpTo(Len(xhashes))

(* The indexer and its extra tables get to Bitcoin's tip through crashes   *)
(* and reorgs, or the indexer gives up in front of a reorg that is too     *)
(* deep, or the process is ended over and over by an inscription that it   *)
(* cannot take: the mint of a ticker deployed in its block, a number or a  *)
(* solution that is no text, or a start above int4. What two forks left in *)
(* one block ends it as well, but not for ever.                            *)
ReachesTip ==
  \/ <>[] (pc = "exit")
  \/ <>[] (hashes = best /\ xhashes = best)
  \/ []<> (pc = "index" /\ left # << >> /\ Raises(Head(left)))
=============================================================================
