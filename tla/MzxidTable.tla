---------------------------- MODULE MzxidTable ----------------------------
(***************************************************************************)
(* The hashtable nodeMzxid (src/hashtable/hashtable.c, with the hash and   *)
(* equality of src/zk_cli.c), as zkUA_insertMzxidAge, zkUA_checkMzxidAge   *)
(* and zkUA_deleteMzxidAge of src/zk_serverReplicate.c use it.             *)
(*                                                                         *)
(* An update of a node's mzxid is one more insert of the same key: the     *)
(* entries of a key pile up in its chain, newest first, and count as       *)
(* entries when the table decides to grow.                                 *)
(***************************************************************************)
EXTENDS Naturals, Sequences

CONSTANTS
  Key,         \* paths of znodes
  Hash,        \* the hash value of each
  Primes,      \* the sizes the table may take, ascending
  MaxInserts   \* bound: inserts, each with a greater mzxid than the one before

ASSUME ConstantsOK ==
  /\ Hash \in [Key -> Nat]
  /\ Primes \in Seq(Nat \ {0}) /\ Len(Primes) > 0
  /\ MaxInserts \in Nat

VARIABLES
  table,       \* the chains, newest entry first, by bucket
  primeindex,  \* of the present size
  entrycount,
  inserted,    \* inserts so far, which is the mzxid of the last
  latest,      \* history: the last mzxid inserted for each key, 0 if none or removed
  recent       \* history: keys inserted since the table last grew

vars == <<table, primeindex, entrycount, inserted, latest, recent>>

-----------------------------------------------------------------------------
(* hashtable.c *)

tablelength   == Primes[primeindex]
LoadLimit(n)  == (65 * n + 99) \div 100          \* ceil(0.65 n)
IndexFor(n, h) == h % n
Entry         == [h : Nat, k : Key, v : Nat]

\* zkUA_equalKeys compares eight bytes, and all paths start with "/Servers".
EqualKeys(k1, k2) == TRUE

Matches(k, e) == e.h = Hash[k] /\ EqualKeys(k, e.k)
Chain(k)      == table[IndexFor(tablelength, Hash[k])]

\* Positions of the entries that a search for k would take.
Hits(k)  == {i \in 1..Len(Chain(k)) : Matches(k, Chain(k)[i])}
First(S) == CHOOSE i \in S : \A j \in S : i <= j

\* hashtable_search: 0 for NULL.
Search(k) == IF Hits(k) = {} THEN 0 ELSE Chain(k)[First(Hits(k))].v

\* Mutant: entries keep the bucket they had.
RehashInPlace(n) ==
  [j \in 0..n - 1 |-> IF j < tablelength THEN table[j] ELSE <<>>]

\* Mutant: an index of the old length, entries beyond it.
RehashShort(n) ==
  [j \in 0..tablelength - 1 |-> table[j]]

\* An entry becomes the head of its chain in a table of n buckets.
Prepend(t, n, e) == [t EXCEPT ![IndexFor(n, e.h)] = <<e>> \o @]

\* The entries in the order hashtable_expand comes to them, chain after chain.
Met ==
  LET Up[i \in 0..tablelength] == IF i = 0 THEN <<>> ELSE Up[i - 1] \o table[i - 1]
  IN Up[tablelength]

\* It makes one after the other the head of its new chain, which reverses them.
Moved(n, q) ==
  LET To[i \in 0..Len(q)] ==
        IF i = 0 THEN [j \in 0..n - 1 |-> <<>>] ELSE Prepend(To[i - 1], n, q[i])
  IN To[Len(q)]

Rehash(n) == Moved(n, Met)

Grows == entrycount + 1 > LoadLimit(tablelength) /\ primeindex < Len(Primes)

NewEntry(k) == [h |-> Hash[k], k |-> k, v |-> inserted + 1]

\* Mutant: the new entry goes to the end of its chain.
PushLast(t, n, k) == [t EXCEPT ![IndexFor(n, Hash[k])] = Append(@, NewEntry(k))]

Push(t, n, k) == Prepend(t, n, NewEntry(k))

\* hashtable_insert: a table that is full grows before the entry is added; at
\* its greatest size it goes on filling up.
Insert(k) ==
  /\ inserted < MaxInserts
  /\ LET n == IF Grows THEN Primes[primeindex + 1] ELSE tablelength
     IN table' = Push(IF Grows THEN Rehash(n) ELSE table, n, k)
  /\ primeindex' = IF Grows THEN primeindex + 1 ELSE primeindex
  /\ entrycount' = entrycount + 1
  /\ inserted' = inserted + 1
  /\ latest' = [latest EXCEPT ![k] = inserted + 1]
  /\ recent' = (IF Grows THEN {} ELSE recent) \cup {k}

\* hashtable_remove: the first entry that matches.
Remove(k) ==
  /\ Hits(k) # {}
  /\ table' = [table EXCEPT ![IndexFor(tablelength, Hash[k])] =
       SubSeq(@, 1, First(Hits(k)) - 1) \o SubSeq(@, First(Hits(k)) + 1, Len(@))]
  /\ entrycount' = entrycount - 1
  /\ latest' = [latest EXCEPT ![k] = 0]
  /\ recent' = recent \ {k}
  /\ UNCHANGED <<primeindex, inserted>>

-----------------------------------------------------------------------------

Init ==
  /\ primeindex = 1
  /\ table = [j \in 0..Primes[1] - 1 |-> <<>>]
  /\ entrycount = 0 /\ inserted = 0
  /\ latest = [k \in Key |-> 0]
  /\ recent = {}

Next == \E k \in Key : Insert(k) \/ Remove(k)

Spec == Init /\ [][Next]_vars

-----------------------------------------------------------------------------
(* Properties *)

\* Every variable stays within its type.
TypeOK ==
  /\ primeindex \in 1..Len(Primes)
  /\ table \in [0..tablelength - 1 -> Seq(Entry)]
  /\ entrycount \in Nat /\ inserted \in 0..MaxInserts
  /\ latest \in [Key -> 0..MaxInserts]
  /\ recent \subseteq Key

\* An entry is in the chain of its hash, so that a search can meet it, however
\* often hashtable_expand has moved it.
WellPlaced ==
  \A j \in 0..tablelength - 1 : \A i \in 1..Len(table[j]) :
    IndexFor(tablelength, table[j][i].h) = j

\* The table answers with the last mzxid inserted for a key as long as it has
\* not grown since, if no two paths have the same hash: what
\* zkUA_checkMzxidAge takes for the mzxid of the local copy is just that.
\* Nothing is promised of a key from the time the table grows, which reverses its
\* entries, or one of them is removed, whereupon an older one surfaces, until it is
\* inserted again.
RecentIsLatest ==
  (\A k, l \in Key : Hash[k] = Hash[l] => k = l) => \A k \in recent : Search(k) = latest[k]

=============================================================================
