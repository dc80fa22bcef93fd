---------------------------- MODULE RunesTables ----------------------------
(***************************************************************************)
(* The runes tables: index_runes.js runs `ord index run` of ord-runes,     *)
(* which indexes blocks and appends what they change to two log files, and *)
(* then writes the new lines of the logs to Postgres and empties them.     *)
(*                                                                         *)
(* ord-runes commits the blocks of a run in one transaction, writes the    *)
(* logs as it goes, and may fail between any two lines. The statements of  *)
(* index_runes.js run concurrently, each a transaction of its own, and the *)
(* process may stop between any two. Heights count from the first rune     *)
(* height, the block at height h of fork f is <<h, f>> and its hash f.     *)
(***************************************************************************)
EXTENDS Integers, Sequences, SequencesExt, FiniteSets, FiniteSetsExt

CONSTANTS
  Runes,
  Ops,           \* at a height, on a fork: the changes [op, x] of the block
  MaxHeight, Forks,
  Interval,      \* SAVEPOINT_INTERVAL
  MaxSavepoints, \* MAX_SAVEPOINTS
  MaxFailures,   \* runs of ord-runes that fail
  MaxCrashes,    \* ends of index_runes.js from outside
  CrashHeight,   \* and the height of Bitcoin when there is one
  MaxEvents      \* ids of events after one: a process that ends again and again uses more

ASSUME RunesTablesAssumption ==
  /\ MaxHeight \in Nat /\ Forks \in Nat /\ MaxFailures \in Nat /\ MaxCrashes \in Nat /\ CrashHeight \in Nat /\ MaxEvents \in Nat
  /\ Interval \in Nat \ {0} /\ MaxSavepoints \in Nat \ {0}

VARIABLES
  best, base,    \* Bitcoin's chain; by fork, the chain that it left
  index,         \* the committed chain of ord-runes
  pending,       \* its chain with the blocks of the open transaction
  saves,         \* persistent savepoints, the oldest first
  log,           \* runes_output.txt
  blocks,        \* runes_output_blocks.txt
  entries,       \* runes_id_to_entry: [rune, burned, mints, genesis, updated]
  changes,       \* runes_id_to_entry_changes: [rune, burned, mints, h]
  balances,      \* runes_outpoint_to_balances: [out, h, spent]
  evs,           \* runes_events: [id, h, what]
  cumul,         \* runes_cumulative_event_hashes: [h, chain]
  hashes,        \* runes_block_hashes: [h, hash]
  pc,
  height,        \* current_height
  at,            \* line of blocks or of log that is read
  read,          \* the state of the sanity checks
  todo, delayed, \* statements running, statements to run after them
  fix,           \* running calls of handle_reorg: [to, step], by caller
  failures, crashes,
  torn           \* a pass was stopped while it wrote to the tables

bitcoin == <<best, base>>
ord     == <<index, pending, saves, log, blocks>>
tables  == <<entries, changes, balances, evs, cumul, hashes>>
work    == <<read, todo, delayed>>
memory  == <<height, at, work>>
counts  == <<failures, crashes, torn>>
vars    == <<bitcoin, ord, tables, pc, memory, fix, counts>>

Prefix(s, n) == SubSeq(s, 1, IF n < Len(s) THEN n ELSE Len(s))
Goto(l) == pc' = l
None == << >>
Some(v) == <<v>>
Start == [ls |-> << >>, off |-> 0, last |-> None, end |-> -1, expect |-> TRUE, bad |-> FALSE,
          starts |-> << >>]
Idle == [c \in {"check_db", "main_index"} |-> None]
Top(S) == IF S = {} THEN 0 ELSE Max(S)
Stored == Top({b.h : b \in hashes})

Init ==
  /\ best = << >> /\ base = << << >> >>
  /\ index = << >> /\ pending = << >> /\ saves = << << >> >> /\ log = << >> /\ blocks = << >>
  /\ entries = {} /\ changes = {} /\ balances = {} /\ evs = {} /\ cumul = {} /\ hashes = {}
  /\ pc = "check_db" /\ height = 0 /\ at = 0 /\ read = Start /\ todo = {} /\ delayed = {} /\ fix = Idle
  /\ failures = 0 /\ crashes = 0 /\ torn = FALSE

-----------------------------------------------------------------------------
(* ord-runes: the lines of a block *)

(* The changes of a block on chain c: what needs a rune or an output finds *)
(* it there.                                                               *)
Before(c, h, i, op, x) ==
  \E k \in 1 .. h : \E j \in DOMAIN Ops[k][c[k]] :
    Ops[k][c[k]][j] = [op |-> op, x |-> x] /\ (k < h \/ j < i)
Happens(c, h, i) ==
  LET o == Ops[h][c[h]][i]
  IN  /\ o.op \in {"mint", "burn"} => Before(c, h, i, "etch", o.x)
      /\ o.op = "spend" => Before(c, h, i, "create", o.x) /\ ~ Before(c, h, i, "spend", o.x)
Block(c, h) ==
  LET n == SelectSeq([i \in DOMAIN Ops[h][c[h]] |-> i], LAMBDA i : Happens(c, h, i))
  IN  [i \in DOMAIN n |-> Ops[h][c[h]][n[i]]]

Number(c, h, op, rune) ==
  FoldLeft(LAMBDA n, k : n + Len(SelectSeq(Block(c, k), LAMBDA o : o.op = op /\ o.x = rune)),
           0, [k \in 1 .. h |-> k])

OpLines(h, o) ==
  LET Line(k) == [k |-> k, h |-> h, x |-> o.x, op |-> o.op]
  IN  CASE o.op = "etch"   -> <<Line("insert")>>
        [] o.op = "create" -> <<Line("event"), Line("balance")>>
        [] o.op = "spend"  -> <<Line("remove"), Line("event")>>
        [] OTHER           -> <<Line("event")>>

(* RuneUpdater::update: one line for each rune burned or minted.           *)
Touched(c, h) == {r \in Runes : \E i \in DOMAIN Block(c, h) :
                    Block(c, h)[i].x = r /\ Block(c, h)[i].op \in {"mint", "burn"}}
Updates(c, h) ==
  SetToSeq({[k |-> "update", h |-> h, x |-> r,
             burned |-> Number(c, h, "burn", r), mints |-> Number(c, h, "mint", r)] : r \in Touched(c, h)})

(* A block without changes writes no line, not even its start.             *)
Lines(c, h) ==
  IF Block(c, h) = << >> THEN << >>
  ELSE <<[k |-> "block_start", h |-> h]>>
       \o FoldLeft(LAMBDA ls, o : ls \o OpLines(h, o), << >>, Block(c, h))
       \o Updates(c, h)
       \o <<[k |-> "block_end", h |-> h]>>

Next1 == Len(pending) + 1
NewBlock == [h |-> Next1, hash |-> best[Next1]]

(* detect_reorg looks at committed blocks only.                            *)
Linked == Len(index) >= Len(pending) /\ Len(pending) > 0 => pending[Len(pending)] = best[Len(pending)]
MaxRecoverable == (MaxSavepoints - 1) * Interval + (Next1 % Interval)
Recoverable ==
  \E d \in 1 .. MaxRecoverable - 1 : Next1 - d > 0 => Next1 - d <= Len(index) /\ index[Next1 - d] = best[Next1 - d]

(* index_block, as part of the open transaction.                           *)
OrdBlock ==
  /\ pc = "ord" /\ Next1 <= Len(best) /\ Linked
  /\ pending' = Append(pending, best[Next1])
  /\ blocks' = Append(blocks, NewBlock)
  /\ log' = log \o Lines(pending', Next1)
  /\ UNCHANGED <<bitcoin, index, saves, tables, pc, memory, fix, counts>>

(* A recoverable reorg: back to the oldest savepoint, and on.              *)
OrdReorg ==
  /\ pc = "ord" /\ Next1 <= Len(best) /\ ~ Linked
  /\ blocks' = Append(blocks, NewBlock)
  /\ Recoverable
  /\ index' = saves[1] /\ pending' = saves[1] /\ saves' = <<saves[1]>>
  /\ UNCHANGED <<bitcoin, log, tables, pc, memory, fix, counts>>

(* A deeper reorg: this run fails, and so do all others.                   *)
OrdUnrecoverable ==
  /\ pc = "ord" /\ Next1 <= Len(best) /\ ~ Linked
  /\ blocks' = Append(blocks, NewBlock)
  /\ ~ Recoverable
  /\ Goto("unrecoverable")
  /\ UNCHANGED <<bitcoin, index, pending, saves, log, tables, memory, fix, counts>>

(* A failure in the middle of a block: what the run has indexed is lost,   *)
(* what it has written is not.                                             *)
OrdFails ==
  /\ pc = "ord" /\ Next1 <= Len(best) /\ Linked
  /\ failures < MaxFailures /\ failures' = failures + 1
  /\ LET ls == Lines(Append(pending, best[Next1]), Next1)
     IN  \E n \in 0 .. Len(ls) : log' = log \o SubSeq(ls, 1, n)
  /\ blocks' = Append(blocks, NewBlock)
  /\ pending' = index
  /\ UNCHANGED <<bitcoin, index, saves, tables, pc, memory, fix, crashes, torn>>

(* commit and update_savepoints, at the end of the run.                    *)
OrdEnds ==
  /\ pc = "ord" /\ Next1 > Len(best) /\ blocks # << >>
  /\ index' = pending
  /\ saves' = IF pending # index /\ (Next1 < Interval \/ Next1 % Interval = 0)
              THEN Append(IF Len(saves) >= MaxSavepoints THEN Tail(saves) ELSE saves, pending)
              ELSE saves
  /\ Goto("compare")
  /\ height' = Stored /\ at' = 1
  /\ UNCHANGED <<bitcoin, pending, log, blocks, tables, work, fix, counts>>

-----------------------------------------------------------------------------
(* index_runes.js: the end of the process, and what it finds at its start  *)

Die ==
  /\ Goto("check_db")
  /\ height' = 0 /\ at' = 0 /\ read' = Start /\ todo' = {} /\ delayed' = {} /\ fix' = Idle
  /\ pending' = index
  /\ UNCHANGED <<bitcoin, index, saves, log, blocks, tables, failures>>

(* The events and their cumulative hashes are not looked at.               *)
Residue ==
  \/ \E e \in entries : e.updated > Stored
  \/ \E c \in changes : c.h > Stored
  \/ \E b \in balances : b.h > Stored

(* check_db starts handle_reorg and does not wait for it.                  *)
CheckDb ==
  /\ pc = "check_db"
  /\ fix' = IF Residue THEN [fix EXCEPT !["check_db"] = Some([to |-> Stored, step |-> 1])] ELSE fix
  /\ Goto("ord")
  /\ UNCHANGED <<bitcoin, ord, tables, memory, counts>>

(* handle_reorg(to + 1), one statement after the other.                    *)
Restored(e, to) ==
  LET C == {c \in changes : c.rune = e.rune /\ c.h <= to}
      c == CHOOSE d \in C : \A f \in C : f.h <= d.h
  IN  IF e.updated <= to THEN e
      ELSE IF C = {} THEN [e EXCEPT !.burned = 0, !.mints = 0, !.updated = e.genesis]
      ELSE [e EXCEPT !.burned = c.burned, !.mints = c.mints, !.updated = c.h]

Fix(step, to) ==
  /\ balances' = CASE step = 1 -> {b \in balances : b.h <= to}
                   [] step = 2 -> {[b EXCEPT !.spent = IF b.spent > to THEN 0 ELSE b.spent] : b \in balances}
                   [] OTHER    -> balances
  /\ evs'      = IF step = 3 THEN {e \in evs : e.h <= to} ELSE evs
  /\ entries'  = CASE step = 4 -> {e \in entries : e.genesis <= to}
                   [] step = 6 -> {Restored(e, to) : e \in entries}
                   [] OTHER    -> entries
  /\ changes'  = IF step = 5 THEN {c \in changes : c.h <= to} ELSE changes
  /\ cumul'    = IF step = 7 THEN {c \in cumul : c.h <= to} ELSE cumul
  /\ hashes'   = IF step = 8 THEN {b \in hashes : b.h <= to} ELSE hashes

FixStep(c) ==
  /\ fix[c] # None
  /\ pc # "ord"    \* execSync: the event loop stands still
  /\ Fix(fix[c][1].step, fix[c][1].to)
  /\ fix' = [fix EXCEPT ![c] = IF @[1].step = 8 THEN None ELSE Some([@[1] EXCEPT !.step = @ + 1])]
  /\ UNCHANGED <<bitcoin, ord, pc, memory, counts>>

-----------------------------------------------------------------------------
(* Reorgs, by the hashes of the blocks that the log repeats *)

HashAt(h) == {b.hash : b \in {c \in hashes : c.h = h}}

Compare ==
  /\ pc = "compare" /\ at <= Len(blocks)
  /\ LET b == blocks[at]
     IN  \/ /\ b.h > height \/ b.hash \in HashAt(b.h)
            /\ at' = at + 1
            /\ UNCHANGED <<bitcoin, ord, tables, pc, height, work, fix, failures>>
         \/ /\ b.h <= height /\ b.hash \notin HashAt(b.h)
            /\ IF HashAt(b.h) = {} THEN Die    \* rows[0] is undefined
               ELSE /\ fix' = [fix EXCEPT !["main_index"] = Some([to |-> b.h - 1, step |-> 1])]
                    /\ height' = b.h - 1 /\ at' = at + 1
                    /\ Goto("reorg")
                    /\ UNCHANGED <<bitcoin, ord, tables, work, failures>>
  /\ UNCHANGED <<crashes, torn>>

Reorged ==
  /\ pc = "reorg" /\ fix["main_index"] = None
  /\ Goto("compare")
  /\ UNCHANGED <<bitcoin, ord, tables, memory, fix, counts>>

-----------------------------------------------------------------------------
(* The lines of the log *)

Splice(s, from, n) == SubSeq(s, 1, from) \o SubSeq(s, from + n + 1, Len(s))

(* The sanity checks, line by line, with the places of the code counted    *)
(* from 0: a repeated block takes the lines before it out of the log. A    *)
(* line that is not there and a check that fails end the process.          *)
CleanLine(st, i) ==
  IF st.bad \/ i + st.off >= Len(st.ls) THEN [st EXCEPT !.bad = TRUE]
  ELSE LET l == st.ls[i + st.off + 1]
       IN  CASE l.k = "block_start" /\ (st.last # None => l.h > st.last[1]) ->
                  [st EXCEPT !.bad = (st.last = None /\ i # 0) \/ ~ st.expect \/ (i # st.off /\ i - 1 # st.end),
                             !.last = Some(l.h), !.expect = FALSE, !.starts = @ @@ (l.h :> i)]
             [] l.k = "block_start" /\ st.last # None /\ l.h <= st.last[1] ->
                  IF l.h \notin DOMAIN st.starts THEN [st EXCEPT !.bad = TRUE]
                  ELSE LET s == st.starts[l.h]
                           gone == {h \in DOMAIN st.starts : \A k \in l.h .. h : k \in DOMAIN st.starts /\ h >= l.h}
                       IN  [st EXCEPT !.ls = Splice(@, s + st.off, i + st.off), !.off = @ - (i - s),
                                      !.starts = (l.h :> i) @@ [h \in DOMAIN @ \ gone |-> @[h]],
                                      !.last = Some(l.h), !.expect = FALSE]
             [] l.k = "block_end" ->
                  [st EXCEPT !.bad = st.expect \/ st.last # Some(l.h), !.end = i, !.expect = TRUE]
             [] OTHER -> st

Compared ==
  /\ pc = "compare" /\ at > Len(blocks)
  /\ Goto("clean") /\ at' = 0 /\ read' = [Start EXCEPT !.ls = log]
  /\ UNCHANGED <<bitcoin, ord, tables, height, todo, delayed, fix, counts>>

Clean ==
  /\ pc = "clean" /\ at < Len(log) /\ ~ read.bad
  /\ read' = CleanLine(read, at) /\ at' = at + 1
  /\ UNCHANGED <<bitcoin, ord, tables, pc, height, todo, delayed, fix, counts>>

(* The statements of the lines above current_height; removes and updates   *)
(* run after all inserts. To keep the last update of a rune only, the code *)
(* compares its id with the height in the parameters of the others: it     *)
(* keeps them all, and they run in any order.                              *)
New(ls) == SelectSeq(ls, LAMBDA l : l.h > height)
Inserts(ls) ==
  {[ls[i] EXCEPT !.k = "change"] : i \in {j \in DOMAIN ls : ls[j].k = "update"}}
  \cup {ls[i] : i \in {j \in DOMAIN ls : ls[j].k \in {"insert", "balance"}}}
  \cup {[k |-> "event", h |-> ls[i].h, x |-> ls[i].x, op |-> ls[i].op,
         id |-> Top({e.id : e \in evs}) + Len(SelectSeq(SubSeq(ls, 1, i), LAMBDA l : l.k = "event"))]
        : i \in {j \in DOMAIN ls : ls[j].k = "event"}}
Later(ls) == {ls[i] : i \in {j \in DOMAIN ls : ls[j].k \in {"remove", "update"}}}

ReadLog ==
  /\ pc = "clean" /\ (at = Len(log) \/ read.bad)
  /\ \/ /\ read.bad
        /\ Die
     \/ /\ ~ read.bad /\ ~ read.expect
        /\ Goto("ord") /\ height' = 0 /\ at' = 0 /\ read' = Start
        /\ UNCHANGED <<bitcoin, ord, tables, todo, delayed, fix, failures>>
     \/ /\ ~ read.bad /\ read.expect
        /\ \A s \in Inserts(New(read.ls)) : crashes > 0 /\ s.k = "event" => s.id <= MaxEvents
        /\ todo' = Inserts(New(read.ls)) /\ delayed' = Later(New(read.ls)) /\ read' = Start
        /\ Goto("insert")
        /\ UNCHANGED <<bitcoin, ord, tables, height, at, fix, failures>>
  /\ UNCHANGED <<crashes, torn>>

(* A unique index is violated: process.exit.                               *)
Conflicts(s) ==
  \/ s.k = "insert"  /\ \E e \in entries : e.rune = s.x
  \/ s.k = "change"  /\ \E c \in changes : c.rune = s.x /\ c.h = s.h
  \/ s.k = "balance" /\ \E b \in balances : b.out = s.x
  \/ s.k = "event"   /\ \E e \in evs : e.id = s.id

Insert(s) ==
  /\ pc = "insert" /\ s \in todo
  /\ \/ /\ ~ Conflicts(s)
        /\ entries' = entries \cup (IF s.k = "insert"
             THEN {[rune |-> s.x, burned |-> 0, mints |-> 0, genesis |-> s.h, updated |-> s.h]} ELSE {})
        /\ changes' = changes \cup (IF s.k = "change"
             THEN {[rune |-> s.x, burned |-> s.burned, mints |-> s.mints, h |-> s.h]} ELSE {})
        /\ balances' = balances \cup (IF s.k = "balance" THEN {[out |-> s.x, h |-> s.h, spent |-> 0]} ELSE {})
        /\ evs' = evs \cup (IF s.k = "event" THEN {[id |-> s.id, h |-> s.h, what |-> <<s.op, s.x>>]} ELSE {})
        /\ todo' = todo \ {s}
        /\ UNCHANGED <<bitcoin, ord, cumul, hashes, pc, height, at, read, delayed, fix, failures>>
     \/ Conflicts(s) /\ Die
  /\ UNCHANGED <<crashes, torn>>

Inserted ==
  /\ pc = "insert" /\ todo = {}
  /\ todo' = delayed
  /\ Goto("update")
  /\ UNCHANGED <<bitcoin, ord, tables, height, at, read, delayed, fix, counts>>

\* Mutant: an update is also applied to a later state.
UpdateAlways(s) ==
  /\ pc = "update" /\ s \in todo
  /\ balances' = {IF s.k = "remove" /\ b.out = s.x THEN [b EXCEPT !.spent = s.h] ELSE b : b \in balances}
  /\ entries' = {IF s.k = "update" /\ e.rune = s.x
                 THEN [e EXCEPT !.burned = s.burned, !.mints = s.mints, !.updated = s.h] ELSE e : e \in entries}
  /\ todo' = todo \ {s}
  /\ UNCHANGED <<bitcoin, ord, changes, evs, cumul, hashes, pc, height, at, read, delayed, fix, counts>>

(* sql_query_outpoint_to_balances_remove, sql_query_id_to_entry_update     *)
Update(s) ==
  /\ pc = "update" /\ s \in todo
  /\ balances' = {IF s.k = "remove" /\ b.out = s.x THEN [b EXCEPT !.spent = s.h] ELSE b : b \in balances}
  /\ entries' = {IF s.k = "update" /\ e.rune = s.x /\ e.updated < s.h
                 THEN [e EXCEPT !.burned = s.burned, !.mints = s.mints, !.updated = s.h] ELSE e : e \in entries}
  /\ todo' = todo \ {s}
  /\ UNCHANGED <<bitcoin, ord, changes, evs, cumul, hashes, pc, height, at, read, delayed, fix, counts>>

Updated ==
  /\ pc = "update" /\ todo = {}
  /\ Goto("cumul")
  /\ UNCHANGED <<bitcoin, ord, tables, memory, fix, counts>>

-----------------------------------------------------------------------------
(* The hashes of the new blocks, and the end of the pass *)

EventsAt(h) ==
  LET S == {e \in evs : e.h = h}
  IN  [i \in 1 .. Cardinality(S) |-> (CHOOSE e \in S : Cardinality({f \in S : f.id <= e.id}) = i).what]
ChainAt(h) == IF \E c \in cumul : c.h = h THEN (CHOOSE c \in cumul : c.h = h).chain ELSE << >>
LastLine == Top({blocks[i].h : i \in DOMAIN blocks})

\* Mutant: every block starts a chain of its own.
CumulAlone ==
  LET h == Top({c.h : c \in cumul}) + 1
  IN  /\ pc = "cumul" /\ h <= LastLine
      /\ cumul' = cumul \cup {[h |-> h, chain |-> <<EventsAt(h)>>]}
      /\ UNCHANGED <<bitcoin, ord, entries, changes, balances, evs, hashes, pc, memory, fix, counts>>

(* update_cumulative_block_hashes goes on after the last hash there is.    *)
Cumul ==
  LET h == Top({c.h : c \in cumul}) + 1
  IN  /\ pc = "cumul" /\ h <= LastLine
      /\ cumul' = cumul \cup {[h |-> h, chain |-> Append(ChainAt(h - 1), EventsAt(h))]}
      /\ UNCHANGED <<bitcoin, ord, entries, changes, balances, evs, hashes, pc, memory, fix, counts>>

\* Mutant: the hash of the first height is left out.
CumulatedOneOff ==
  /\ pc = "cumul" /\ Top({c.h : c \in cumul}) >= LastLine
  /\ Goto("hashes") /\ at' = 2
  /\ UNCHANGED <<bitcoin, ord, tables, height, work, fix, counts>>

Cumulated ==
  /\ pc = "cumul" /\ Top({c.h : c \in cumul}) >= LastLine
  /\ Goto("hashes") /\ at' = 1
  /\ UNCHANGED <<bitcoin, ord, tables, height, work, fix, counts>>

(* The last line of a height counts; a stored hash stays.                  *)
StoreHash ==
  /\ pc = "hashes" /\ at <= LastLine
  /\ LET I == {i \in DOMAIN blocks : blocks[i].h = at}
     IN  hashes' = IF I = {} \/ HashAt(at) # {} THEN hashes
                   ELSE hashes \cup {[h |-> at, hash |-> blocks[Max(I)].hash]}
  /\ at' = at + 1
  /\ UNCHANGED <<bitcoin, ord, entries, changes, balances, evs, cumul, pc, height, work, fix, counts>>

EmptyLog ==
  /\ pc = "hashes" /\ at > LastLine
  /\ log' = << >>
  /\ Goto("empty")
  /\ UNCHANGED <<bitcoin, index, pending, saves, blocks, tables, memory, fix, counts>>

EmptyBlocks ==
  /\ pc = "empty"
  /\ blocks' = << >>
  /\ Goto("ord") /\ height' = 0 /\ at' = 0 /\ read' = Start /\ delayed' = {}
  /\ UNCHANGED <<bitcoin, index, pending, saves, log, tables, todo, fix, counts>>

Crash ==
  /\ crashes < MaxCrashes /\ Len(best) <= CrashHeight /\ failures = 0 /\ crashes' = crashes + 1
  /\ pc \notin {"check_db", "unrecoverable"}
  /\ torn' = (torn \/ pc \in {"insert", "update", "cumul", "hashes"} \/ fix # Idle)
  /\ Die

Indexer ==
  \/ OrdBlock \/ OrdReorg \/ OrdUnrecoverable \/ OrdEnds
  \/ CheckDb \/ \E c \in DOMAIN fix : FixStep(c)
  \/ Compare \/ Reorged \/ Compared \/ Clean \/ ReadLog
  \/ \E s \in todo : Insert(s) \/ Update(s)
  \/ Inserted \/ Updated \/ Cumul \/ Cumulated \/ StoreHash \/ EmptyLog \/ EmptyBlocks

-----------------------------------------------------------------------------
(* Bitcoin *)

Limit == IF crashes = 0 THEN MaxHeight ELSE CrashHeight

Mine ==
  /\ Len(best) < Limit
  /\ best' = Append(best, Len(base))
  /\ UNCHANGED <<base, ord, tables, pc, memory, fix, counts>>

Reorg(k) ==
  /\ Len(base) < Forks /\ Len(best) < Limit
  /\ base' = Append(base, Prefix(best, k))
  /\ best' = [h \in 1 .. Len(best) + 1 |-> IF h <= k THEN best[h] ELSE Len(base')]
  /\ UNCHANGED <<ord, tables, pc, memory, fix, counts>>

Next ==
  \/ Indexer \/ OrdFails \/ Crash
  \/ Mine \/ \E k \in 0 .. Len(best) - 1 : Reorg(k)

Spec == Init /\ [][Next]_vars

(* The loop runs on and Bitcoin grows.                                     *)
FairSpec == Spec /\ WF_vars(Indexer) /\ WF_vars(Mine)

-----------------------------------------------------------------------------
(* Nothing is stored for a height above that of the log's last block; a    *)
(* pass that ends leaves rows of stored blocks only, each with its         *)
(* cumulative hash.                                                        *)
TypeOK ==
  /\ pc \in {"check_db", "ord", "compare", "reorg", "clean", "insert", "update", "cumul", "hashes", "empty",
             "unrecoverable"}
  /\ IsPrefix(index, pending)
  /\ \A i \in DOMAIN saves : Len(saves[i]) <= Len(index)
  /\ \A b, c \in hashes : b.h = c.h => b = c
  /\ pc = "ord" /\ blocks = << >> /\ crashes = 0 =>
       /\ {b.h : b \in hashes} = 1 .. Len(index)
       /\ {c.h : c \in cumul} = 1 .. Len(index)

Chain == [h \in 1 .. Stored |-> CHOOSE f \in HashAt(h) : TRUE]
All   == FoldLeft(LAMBDA ls, h : ls \o Lines(Chain, h), << >>, [h \in 1 .. Stored |-> h])
Some1(k, x) == \E i \in DOMAIN All : All[i].k = k /\ All[i].x = x
HeightOf(k, x) == Top({All[i].h : i \in {j \in DOMAIN All : All[j].k = k /\ All[j].x = x}})
Settled == pc = "ord" /\ blocks = << >> /\ fix = Idle

(* The process was never stopped while it wrote, and no reorg followed a   *)
(* failure or a stop: both leave lines of blocks that are not committed.   *)
Undisturbed == ~ torn /\ (failures + crashes = 0 \/ Len(base) = 1)

(* Between two passes the runes and their mints and burns, the outputs and *)
(* when they were spent, and the events, in order, with what their         *)
(* cumulative hashes are made of, are those of the blocks whose hashes are *)
(* stored. A rune that changes in the block that etches it and never again *)
(* may show less.                                                          *)
TablesFollow ==
  Settled /\ Undisturbed =>
    /\ {e.rune : e \in entries} = {r \in Runes : Some1("insert", r)}
    /\ \A e \in entries :
         LET u == HeightOf("update", e.rune)
             last == [burned |-> Number(Chain, Stored, "burn", e.rune), mints |-> Number(Chain, Stored, "mint", e.rune)]
         IN  /\ e.genesis = HeightOf("insert", e.rune)
             /\ \/ e.burned = last.burned /\ e.mints = last.mints
                \/ u = e.genesis /\ e.burned = 0 /\ e.mints = 0
    /\ balances = {[out |-> All[i].x, h |-> All[i].h, spent |-> HeightOf("remove", All[i].x)]
                     : i \in {j \in DOMAIN All : All[j].k = "balance"}}
    /\ \A h \in 1 .. Stored :
         LET es == SelectSeq(Lines(Chain, h), LAMBDA l : l.k = "event")
         IN  /\ EventsAt(h) = [i \in DOMAIN es |-> <<es[i].op, es[i].x>>]
             /\ ChainAt(h) = [k \in 1 .. h |-> EventsAt(k)]

(* What ord-runes commits was at some time the chain of Bitcoin.           *)
CommitsAChain ==
  index # << >> =>
    LET f == Last(index)
    IN  index = [h \in DOMAIN index |-> IF h <= Len(base[f]) THEN base[f][h] ELSE f]

Unreadable == read.bad \/ (pc = "clean" /\ at = Len(log) /\ ~ read.expect)

(* The tables get to the tip of Bitcoin, also past reorgs, a run that fails*)
(* and a process that is stopped before it writes to the tables or after.  *)
(* What can keep them from it: a reorg that is too deep or comes in the    *)
(* middle of a run of ord-runes; a log that index_runes.js cannot read,    *)
(* which takes a run that fails and, besides, a reorg or a stop; a pass    *)
(* that is stopped while it writes, of which nothing is said.              *)
ReachesTip ==
  \/ <>[] (hashes = {[h |-> h, hash |-> best[h]] : h \in DOMAIN best})
  \/ <>[] (pc = "unrecoverable")
  \/ <>[] ~ CommitsAChain
  \/ []<> (Unreadable /\ failures > 0 /\ (crashes > 0 \/ Len(base) > 1))
  \/ <> torn

(* README.md: all modules have been built with reorg protection. What      *)
(* Bitcoin has taken back is gone once a run has gone on past it.          *)
ReorgProtection == pc # "ord" => CommitsAChain

(* After the residue was found, handle_reorg fixes it.                     *)
ResidueFixed ==
  Settled => {e.rune : e \in entries} = {r \in Runes : Some1("insert", r)}

(* First run inserts, then updates: between two passes, every rune shows   *)
(* all its mints and burns.                                                *)
UpdatesAfterInserts ==
  Settled /\ Undisturbed => \A e \in entries :
    /\ e.burned = Number(Chain, Stored, "burn", e.rune)
    /\ e.mints = Number(Chain, Stored, "mint", e.rune)
=============================================================================
