------------------------------ MODULE Keyring ------------------------------
(***************************************************************************)
(* PGPKeyring: key objects found by their aliases (fingerprint, key ids,   *)
(* the parts of their User IDs).  Several keys may share an alias, so the  *)
(* keyring keeps a deque of alias maps, each holding at most one key per   *)
(* alias, and sorts the keys of an alias over the maps from left to right. *)
(*                                                                         *)
(* A key object stands for one half of one key or subkey; id(key) is the   *)
(* object itself.  The keyring shares its key objects with the caller, who *)
(* may add subkeys to them behind its back.                                *)
(***************************************************************************)
EXTENDS Integers, Sequences, FiniteSets, SequencesExt, Functions

CONSTANTS
  Keys,       \* key objects
  Alias,      \* strings a key may be known by
  Created,    \* Created[k]: creation time
  Public,     \* the key objects that are public halves
  Aliases,    \* Aliases[k]: k's aliases, in the order _add_key adds them
  Squeeze,    \* Squeeze[a]: alias a without its spaces
  Subkeys0,   \* Subkeys0[k]: subkeys of k at the start
  Late,       \* pairs <<k, s>>: s may become a subkey of k later
  CanUnload   \* does the caller unload keys

\* s is, or may become, a subkey of k.
MayOwn(k, s) == s \in ToSet(Subkeys0[k]) \/ <<k, s>> \in Late

\* The keys that come to a keyring have subkeys, and these none of their own.
ASSUME KeyringAssumption ==
  /\ Created \in [Keys -> Nat]
  /\ Public \subseteq Keys
  /\ Aliases \in [Keys -> Seq(Alias)]
  /\ Squeeze \in [Alias -> Alias]
  /\ Subkeys0 \in [Keys -> Seq(Keys)]
  /\ Late \subseteq Keys \X Keys
  /\ \A k, s, t \in Keys : ~(MayOwn(k, s) /\ MayOwn(s, t))
  /\ CanUnload \in BOOLEAN

VARIABLES
  loaded,   \* the keys of the dict _keys
  pubs,     \* _pubkeys
  privs,    \* _privkeys
  maps,     \* _aliases
  subkeys,  \* subkeys[k]: the subkeys of the key object k, in order
  reported, \* the keys whose fingerprints the last call returned, if it was load
  missed    \* history: the keys that were unloaded, or given to a loaded key, since
            \* a load added them last

ring == [loaded |-> loaded, pubs |-> pubs, privs |-> privs, maps |-> maps]
vars == <<loaded, pubs, privs, maps, subkeys, reported, missed>>

EmptyMap == << >>

Init ==
  /\ loaded = {}
  /\ pubs = <<>>
  /\ privs = <<>>
  /\ maps = <<EmptyMap>>
  /\ subkeys = Subkeys0
  /\ reported = {}
  /\ missed = {}

HasParent(k) == \E p \in Keys : k \in ToSet(subkeys[p])

-----------------------------------------------------------------------------
(***************************************************************************)
(* The alias maps: a dict is the sequence of its entries <<alias, key>>, in *)
(* the order they were inserted, which unload follows.                     *)
(***************************************************************************)
Has(m, a) == \E n \in DOMAIN m : m[n][1] = a
At(m, a) == m[CHOOSE n \in DOMAIN m : m[n][1] = a][2]

\* The items of s that are in keep.
Kept(s, keep) == FoldLeft(LAMBDA q, x : IF x \in keep THEN Append(q, x) ELSE q, <<>>, s)

Without(m, a) == Kept(m, {entry \in ToSet(m) : entry[1] # a})
\* m[a] = k: a new alias goes last, one that is there keeps its place.
With(m, a, k) ==
  IF Has(m, a) THEN [n \in DOMAIN m |-> IF m[n][1] = a THEN <<a, k>> ELSE m[n]]
               ELSE Append(m, <<a, k>>)

Entries(ms) == UNION {ToSet(ms[i]) : i \in DOMAIN ms}
Holding(ms, a) == {i \in DOMAIN ms : Has(ms[i], a)}
KeysOf(ms, a) == {At(ms[i], a) : i \in Holding(ms, a)}

\* __contains__
Known(ms, a) == Holding(ms, a) # {} \/ Holding(ms, Squeeze[a]) # {}

\* The sort key (created, is_public).
Before(j, k) ==
  \/ Created[j] < Created[k]
  \/ Created[j] = Created[k] /\ j \notin Public /\ k \in Public

Sorted(S) ==
  CHOOSE q \in [1 .. Cardinality(S) -> S] :
    IsInjective(q) /\ \A i, j \in DOMAIN q : i < j => ~Before(q[j], q[i])

\* while {} in _aliases: _aliases.remove({})
NonEmpty(ms) == Kept(ms, ToSet(ms) \ {EmptyMap})

\* _sort_alias: take the alias out of every map, put its keys in order into the
\* leftmost maps, drop the empty maps.
SortAlias(ms, a) ==
  LET ids == Sorted(KeysOf(ms, a))
      placed == [i \in DOMAIN ms |->
                   IF i <= Len(ids) THEN With(Without(ms[i], a), a, ids[i])
                                    ELSE Without(ms[i], a)]
  IN  NonEmpty(placed)

\* Mutant of AddAlias: a known alias is not sorted after the new key is put in.
AddAliasUnsorted(ms, a, k) ==
  LET adepth == Len(ms) - Cardinality(Holding(ms, a)) - 1
      grown == IF adepth = -1 THEN <<EmptyMap>> \o ms ELSE ms
      d == IF adepth = -1 THEN 1 ELSE adepth + 1
  IN  IF ~Known(ms, a) THEN [ms EXCEPT ![Len(ms)] = With(@, a, k)]
      ELSE IF k \in KeysOf(ms, a) THEN ms
      ELSE [grown EXCEPT ![d] = With(@, a, k)]

\* Mutant of AddAlias: no map is added when every map holds the alias.
AddAliasNoGrowth(ms, a, k) ==
  LET d == Len(ms) - Cardinality(Holding(ms, a))
  IN  IF ~Known(ms, a) THEN [ms EXCEPT ![Len(ms)] = With(@, a, k)]
      ELSE IF k \in KeysOf(ms, a) THEN ms
      ELSE SortAlias([ms EXCEPT ![IF d = 0 THEN 1 ELSE d] = With(@, a, k)], a)

\* _add_alias: a new alias goes into the last map; a known one into the map
\* adepth, counted as though the maps that hold it were the rightmost ones.
AddAlias(ms, a, k) ==
  LET adepth == Len(ms) - Cardinality(Holding(ms, a)) - 1
      grown == IF adepth = -1 THEN <<EmptyMap>> \o ms ELSE ms
      d == IF adepth = -1 THEN 1 ELSE adepth + 1
  IN  IF ~Known(ms, a) THEN [ms EXCEPT ![Len(ms)] = With(@, a, k)]
      ELSE IF k \in KeysOf(ms, a) THEN ms
      ELSE SortAlias([grown EXCEPT ![d] = With(@, a, k)], a)

\* _add_key for one key object.
AddOne(r, k) ==
  IF k \in r.loaded THEN r
  ELSE [loaded |-> r.loaded \cup {k},
        pubs |-> IF k \in Public /\ ~HasParent(k) THEN Append(r.pubs, k) ELSE r.pubs,
        privs |-> IF k \notin Public /\ ~HasParent(k) THEN Append(r.privs, k) ELSE r.privs,
        maps |-> FoldLeft(LAMBDA ms, a : AddAlias(ms, a, k), r.maps, Aliases[k])]

\* Mutant of AddKey: the subkeys are not added.
AddKeyAlone(r, k) == AddOne(r, k)

\* _add_key: the key, then its subkeys, unless the key itself is there already.
AddKey(r, k) ==
  IF k \in r.loaded THEN r ELSE FoldLeft(AddOne, AddOne(r, k), subkeys[k])

Pop(ms, entry) == [i \in DOMAIN ms |-> Kept(ms[i], ToSet(ms[i]) \ {entry})]

\* Mutant of DropEntry: empty maps are dropped even when nothing is sorted.
DropEntryTidy(ms, entry) ==
  LET popped == Pop(ms, entry)
  IN  IF Known(popped, entry[1]) THEN SortAlias(popped, entry[1])
      ELSE NonEmpty(popped)

\* unload for one entry: it goes, and its alias is sorted again if still known.
DropEntry(ms, entry) ==
  LET popped == Pop(ms, entry)
  IN  IF Known(popped, entry[1]) THEN SortAlias(popped, entry[1]) ELSE popped

\* The entries of k, from the leftmost map to the last one.
EntriesOf(ms, k) ==
  LET all == FoldLeft(LAMBDA q, m : q \o m, <<>>, ms)
  IN  Kept(all, {entry \in ToSet(all) : entry[2] = k})

\* Mutant of DropOne: the aliases of the unloaded key stay behind.
DropOneKeepAliases(r, k) ==
  IF k \notin r.loaded THEN r
  ELSE [r EXCEPT !.loaded = @ \ {k}, !.pubs = RemoveFirst(@, k), !.privs = RemoveFirst(@, k)]

\* Mutant of DropOne: the key stays in its deque.
DropOneKeepDeque(r, k) ==
  IF k \notin r.loaded THEN r
  ELSE [r EXCEPT !.loaded = @ \ {k},
                 !.maps = FoldLeft(DropEntry, @, EntriesOf(@, k))]

\* unload for one key object
DropOne(r, k) ==
  IF k \notin r.loaded THEN r
  ELSE [loaded |-> r.loaded \ {k},
        pubs |-> RemoveFirst(r.pubs, k),
        privs |-> RemoveFirst(r.privs, k),
        maps |-> FoldLeft(DropEntry, r.maps, EntriesOf(r.maps, k))]

\* unload: the key, and its subkeys if it is a primary key that was loaded.
DropKey(r, k) ==
  IF k \notin r.loaded THEN r ELSE FoldLeft(DropOne, DropOne(r, k), subkeys[k])

-----------------------------------------------------------------------------
BecomesRing(r) ==
  /\ loaded' = r.loaded
  /\ pubs' = r.pubs
  /\ privs' = r.privs
  /\ maps' = r.maps

Load(k) ==
  /\ BecomesRing(AddKey(ring, k))
  /\ reported' = {k} \cup ToSet(subkeys[k])
  /\ missed' = IF k \in loaded THEN missed ELSE missed \ ({k} \cup ToSet(subkeys[k]))
  /\ UNCHANGED subkeys

Unload(k) ==
  /\ CanUnload
  /\ BecomesRing(DropKey(ring, k))
  /\ reported' = {}
  /\ missed' = IF k \in loaded THEN missed \cup {k} \cup ToSet(subkeys[k]) ELSE missed
  /\ UNCHANGED subkeys

\* The caller adds a subkey to a key object (PGPKey.add_subkey, or |=).
AdoptSubkey(k, s) ==
  /\ s \notin ToSet(subkeys[k])
  /\ subkeys' = [subkeys EXCEPT ![k] = Append(@, s)]
  /\ reported' = {}
  /\ missed' = IF k \in loaded THEN missed \cup {s} ELSE missed
  /\ UNCHANGED <<loaded, pubs, privs, maps>>

Next ==
  \/ \E k \in Keys : Load(k) \/ Unload(k)
  \/ \E ks \in Late : AdoptSubkey(ks[1], ks[2])

Spec == Init /\ [][Next]_vars

-----------------------------------------------------------------------------
(***************************************************************************)
(* Looking keys up.                                                        *)
(***************************************************************************)
\* _get_keys
GetKeys(a) ==
  LET held == Kept(maps, {m \in ToSet(maps) : Has(m, a)})
  IN  [j \in DOMAIN held |-> At(held[j], a)]

\* _get_key: {} stands for the KeyError, {k} for returning k.
GetKey(a) ==
  LET at == Holding(maps, a) \cup Holding(maps, Squeeze[a])
      i == CHOOSE i \in at : \A j \in at : i <= j
  IN  IF at = {} THEN {}
      ELSE {At(maps[i], IF Has(maps[i], a) THEN a ELSE Squeeze[a])}

HasAlias(k, a) == a \in ToSet(Aliases[k])
-----------------------------------------------------------------------------
TypeOK ==
  /\ loaded \subseteq Keys
  /\ pubs \in Seq(Keys) /\ privs \in Seq(Keys)
  /\ maps \in Seq(Seq(Alias \X Keys))
  /\ maps # <<>>
  /\ subkeys \in [Keys -> Seq(Keys)]
  /\ reported \subseteq Keys
  /\ missed \subseteq Keys

\* No lookup ever meets a key that is not loaded, or that does not have the alias,
\* whatever was loaded, unloaded and reloaded before (_get_key indexes _keys by what
\* the maps hold, and would raise KeyError for a stale entry).
NoDangling ==
  \A entry \in Entries(maps) :
    entry[2] \in loaded /\ HasAlias(entry[2], entry[1])

\* Among the keys found under a, j comes before k.
Precedes(a, j, k) ==
  LET ks == GetKeys(a)
  IN  \E m, n \in DOMAIN ks : m < n /\ ks[m] = j /\ ks[n] = k

\* The keys found under one alias are listed once each, of two keys as old as each other
\* the private one before the public one ("private keys come before public ones"), and
\* keys of different ages in the same order under every alias they share, whatever was
\* loaded and unloaded in whatever order and however deep in the maps the keys of other
\* aliases are (_sort_alias).
AliasesSorted ==
  /\ \A a \in Alias : IsInjective(GetKeys(a))
  /\ \A a \in Alias : \A j, k \in Keys : Precedes(a, j, k) =>
       /\ Created[j] = Created[k] => ~(j \in Public /\ k \notin Public)
       /\ Created[j] # Created[k] => \A b \in Alias : ~Precedes(b, k, j)

\* The two deques list, once each, loaded keys of their half, and every loaded key
\* that has no parent is in one of them (what iterating over the keyring relies on).
DequesAgree ==
  /\ \A q \in {pubs, privs} : IsInjective(q) /\ ToSet(q) \subseteq loaded
  /\ ToSet(pubs) \subseteq Public /\ ToSet(privs) \cap Public = {}
  /\ \A k \in loaded : ~HasParent(k) => k \in ToSet(pubs) \cup ToSet(privs)

\* load returns the fingerprints "of all of the keys that were loaded".  Whatever was
\* loaded, unloaded and given subkeys before, a key that load reports is in the keyring
\* when load returns, unless it was unloaded by itself, or its key got it after the
\* keyring had got the key (the early return of _add_key).
ReportedIsLoaded == reported \ missed \subseteq loaded

-----------------------------------------------------------------------------
\* The relation that the maps stand for, to compare with KeyringAbs.
Index == {entry \in Alias \X Keys : entry[2] \in KeysOf(maps, entry[1])}

Abs == INSTANCE KeyringAbs WITH
         Members <- [k \in Keys |-> {k} \cup ToSet(Subkeys0[k])],
         AliasesOf <- [k \in Keys |-> ToSet(Aliases[k])],
         index <- Index

\* With nothing unloaded and only the two halves of a key sharing an alias, every
\* load makes all its keys reachable under all their aliases and hides no other,
\* whatever the depth of the maps (load, _add_key, _add_alias, _sort_alias).
ImplementsAbs == Abs!Spec

=============================================================================
