# A TLA+ verification development for PGPy

PGPy is a Python implementation of OpenPGP (RFC 4880): keys, signatures, messages and
keyrings as Python objects that are composed with `|=`, written with `bytes()`/`str()` and
read back with `parse`. It is a sequential library. What is hard in it is not concurrency but
**long sequences of legal calls on objects that share and cache state**: secret numbers that
are decrypted and zeroed by nested context managers, deques searched by bisection while the
rank of their items changes, alias maps that are re-sorted and trimmed, objects attached to
others that are copied, merged and re-read, two halves of a key that know each other through
weak references, and packets that are held as fields and written anew, whatever octets they came
in.

Files: one module per component, `MC*.tla` for its instance, one `.cfg` per run,
`*Proofs.tla` for theorems, and `PROJECT.json`, which maps definitions to source lines and
lists runs, mutants, findings, hazards and theorems.

## 1. Inventory

| component (source) | state | operations | interacts with |
|---|---|---|---|
| private key life (`pgp.py` PGPKey.protect/unlock/add_subkey/bind, `packet/fields.py` PrivKey) | per key: s2k usage, private numbers or zeros, `encbytes`; `_children` | protect, unlock block, add_subkey, bind, save/load | KeyAction decides which key is used |
| usage checks (`decorators.py`) | none | KeyAction.usage, check_attributes | reads lock state and flags of the primary and subkeys |
| keyring (`pgp.py` PGPKeyring) | `_keys`, `_pubkeys`, `_privkeys`, deque of alias maps `_aliases` | load, unload, lookups | shares key objects with the caller, who may change them |
| User IDs and signatures (`pgp.py` PGPUID, `types.py` SorteDeque) | `_uids` and each `_signatures`, sorted deques | add_uid, del_uid, `uid \|= sig`, copy, reload | the first User ID gives flags and preferences |
| key block parsing (`pgp.py` PGPKey.parse) | grouping iterator, dict of keys, orphans | the filing loop | builds keys with `\|=` |
| messages (`pgp.py` PGPMessage, PGPKey.encrypt/decrypt; `packets.py`) | `_message`, `_signatures`, `_sessionkeys` | new, sign, encrypt to a key / with a passphrase, decrypt, copy, write, parse | keys, session key packets |
| sibling halves (PGPKey.pubkey) | weak references between the halves | pubkey, `\|=` forwarded to the sibling | every change of a private key |
| making and verifying signatures (PGPKey.sign/certify/revoke/verify, PGPSignature.hashdata, PGPUID.attested_to; `types.py` SignatureVerification) | `_signatures` of keys, User IDs, messages; parents | sign, certify, attest, revoke, bind, verify, expiry | time, parents, User IDs (expiry), key sizes |
| signature subpackets (`packet/subpackets`) | hashed and unhashed areas, a header for each | parse, `addnew`, update_hlen, write | everything that reads a signature |
| packet framing (`types.py`, `packet/types.py`, `packet/packets.py`) | header: format, length of length, length; the fields of each class | dispatch, parse, write, update_hlen, copy | every packet |
| key material and S2K (`packet/fields.py`) | numbers, s2k parameters | parse, serialise, derive_key | private key life |
| armor, constants, errors, cipher wrappers (`types.py`, `constants.py`, `errors.py`, `symenc.py`, `_curves.py`) | none | formatting, tables | – |

What makes each correct:

- **private keys**: secrets of an encrypted key are in memory only inside an unlock block; no
  sequence of calls loses a secret; one passphrase opens a key with its subkeys; an operation
  that passes the checks computes with the secret, not with zeros.
- **keyring**: every loaded key is found by each of its aliases, nothing unloaded is, and the
  keys of a shared alias come in one order.
- **User IDs**: the deques are in rank order, the self-signature read is the latest one, copies
  and reloads agree with the original.
- **parsing**: each packet is filed under the object its place in the block means, and nothing
  disappears silently.
- **messages**: whoever a message was encrypted to reads it, nobody else does, contents and
  signatures survive copies, merging and reloads.
- **signatures**: a signature is good exactly on the object its maker signed, under the parent
  it was signed under; only the owner changes when a key expires; withdrawn attestations do not
  count.
- **halves**: a sibling is a live object of the same key and the other half; halves that are
  linked hold the same, but for operations that are known to change one half only.
- **packets**: reading takes exactly the packet's octets; what was read is written as it was
  received, since signatures are computed over these octets; what is saved is read back and
  stays the same from save to save; a key keeps its fingerprint.

Hard behaviours, all listed with their lines in `PROJECT.json` under hazards: nested blocks,
loops over several keys that stop half-way, state checked on one object and used on another,
keys of sorted containers that change, dicts that are rewritten while another walks them,
objects that are modified in place where a new one is expected, ties in creation times, text and
flags that are recoded on the way through, lengths computed in one place and written in another.

## 2. Modules

| module | models | extends / used by |
|---|---|---|
| `KeyLock` | private key life and usage checks | `MCKeyLock`, `KeyLockProofs` |
| `KeySafe` | what the secret half of a key promises to a careful caller, implemented by KeyLock | instantiated in `KeyLock` |
| `KeyLockProofs` | theorems about KeyLock, the refinement of KeySafe among them | |
| `Keyring` | the keyring | `MCKeyring`, `KeyringProofs` |
| `KeyringAbs` | what a keyring promises, implemented by Keyring | instantiated in `Keyring` |
| `KeyringProofs` | theorems about Keyring, the refinement of KeyringAbs among them | |
| `SorteDeque` | `SorteDeque` as operators: insort and resort by bisection, refilling a deque | `UserIds`, `Message`, `Signing` |
| `SequenceLemmas` | lemmas about bisection, insertion, removal, resorting and folds of insertions | all proof modules |
| `UserIds` | the deque of User IDs and their signatures | `MCUserIds`, `UserIdsProofs` |
| `UserIdsProofs` | theorems about UserIds | |
| `KeyParse` | the parsing loop | `MCKeyParse`, `ParsingProofs` |
| `ParsingProofs` | theorems about KeyParse and about Headers | |
| `Message` | messages | `MCMessage`, `MessageProofs` |
| `MessageProofs` | theorems about Message | |
| `Signing` | signatures: what they are computed over, verification, expiry, attestation | `MCSigning`, `SigningProofs` |
| `SigningProofs` | theorems about Signing | |
| `KeyPair` | the two halves of a key | `MCKeyPair`, `KeyPairProofs` |
| `KeyPairProofs` | theorems about KeyPair | |
| `Headers` | the octets of headers: tags, lengths in both formats, integers | `Octets`, `ParsingProofs` |
| `Octets` | octet strings of runs, and headers in them | `Fields` |
| `Fields` | reading and storing one field, the enumerations | `Subpackets`, `KeyMaterial` |
| `Subpackets` | subpackets, their areas, signature bodies, attributes | `Packets` |
| `KeyMaterial` | key numbers, points, string-to-key, session key ciphertexts | `Packets` |
| `Packets` | packets: read, made, written, copied, protected, halved | `MCPackets` |

An operator named `X...` whose comment begins "Mutant of X" is not part of the model: it is `X`
with a plausible bug, and `PROJECT.json` says which property it breaks.

### KeyLock

State: `prot[k]` is `s2k.usage` in {254, 255}; `plain[k]` says whether the private fields hold
numbers (`clear()` sets them to `MPI(0)`); `blob[k]` is what `encbytes` decrypts to: the
passphrase that opens it and whether numbers or zeros were encrypted into it; `subkeys` is
`_children`; `flags[s]` the flags of the binding signature; `blocks[k]` the open unlock blocks
that will run their `finally` clause on `k`.

Each action is a whole call. `Protect` encrypts whatever the numbers are at that moment, for the
key and all its subkeys, after checking the lock of the key only. `ProtectRejected` is the
exception in the first `encrypt_keyblob`, which has rewritten the s2k by then. `UnlockEnter`,
`UnlockFail` and `UnlockExit` are the halves of the context manager; the `finally` clause runs in
the last two on every key attached *then*. `AddSubkey` inserts the child and then tries `bind`;
the outcomes of `bind` are `BindOutcomes`. `SaveAndReload` writes and parses the key.
`CertifyResult`, `DecryptResult` and `SignResult` are what the decorated operations end up doing
(for sign on a locked subkey of an unlocked primary key that is zeros, see the end of section 3;
`UseFindsSecret` says that this is the only case). Blocks are not required to be nested like a
stack: blocks held by generators may end in any order.

With `Careful = FALSE` the caller does anything. With `Careful = TRUE` it keeps three
obligations that no line of the code enforces: it protects a key through its primary and
only when no covered key is locked (`MayProtect`), it adds subkeys to an unlocked key,
unlocked and such that they can be bound (`MayAdd`), and it opens, closes and saves only keys
that one passphrase opens entirely (`Sealed`): a subkey added unprotected has to be sealed with
`protect` before the block ends. A refused cipher is left out as well.

`KeySafe` is what such a caller may rely on: every key has a lock, which one passphrase opens, and
is open or closed, a primary key together with its subkeys. It has no encrypted numbers that zeros
could get into, no key that is half-protected and no count of blocks. `KeyLock` implements it
(`ImplementsSafe`): `lock` is the passphrase of the blob of a protected key, `open` the keys whose
numbers are there. `UnlockExit` and `UnlockFail` both map to `Relock`, and what the mapping has to
show is that the `finally` clause, which clears whatever is attached when it runs, closes only
what has a lock.

### Keyring, KeyringAbs

`maps` is the deque of dicts, each a sequence of entries in insertion order, because `unload`
follows that order. `AddAlias`, `SortAlias`, `AddKey`, `DropKey` follow `_add_alias`,
`_sort_alias`, `_add_key`, `unload` step for step. `AdoptSubkey` is the caller changing a key
object that the keyring holds; a subkey has no subkeys of its own, as in every key that is read
from octets or built by `add_subkey` on primary keys (`KeyringAssumption`; `KeyPair` has the calls
that make deeper keys). `missed` is a history variable: the keys that the caller unloaded, or gave
to a key that was loaded, since a load added them last; `ReportedIsLoaded` excuses these and no
others. Key objects, aliases and their equality without spaces (`Squeeze`) are constants. `Sorted`
is a `CHOOSE`: `sorted` gets a list made of a set, so keys of one time and half come in an
arbitrary order, and the theorems hold for each. `load` of files is outside; it ends in `Load`.

`KeyringAbs` has a set of keys and a relation. `Keyring` implements it (`ImplementsAbs`, with
the relation read off the maps) under the conditions of the run: nothing is unloaded, at most
two keys (the halves of a key) share an alias, subkeys do not come later, no alias is another
with spaces. Each condition is needed: see section 3 for what unloading and sharing do.

### UserIds

`uids` is `_uids` and `sigs[u]` the signatures of `u`, a signature being a time and a kind (by
the key itself or not, with the primary flag, exportable). Ranks are computed from the
signatures (`Lt` is `__lt__`), so `Certify` changes the rank of an item in place and resorts.
Copies and reloads put everything through `insort` again.

### KeyParse

`block` is chosen at the start among all short blocks; `next` and `fresh` are the state of the
grouping iterator, `keys` the ordered dict, `owner` where each packet was attached, `status`
the exception if one was raised. Trust packets are filtered by `getpkt` before the grouper and
left out; an embedded or malformed packet is beyond this loop. The specification is fair
(`WF_vars(Next)`): the loop is run by one thread that nothing interrupts, so a step that can be
taken is taken. `ParseEnds` then says that a loop which makes a new `groupby` over the same
iterator each time it meets an orphan still comes to the end of every block.

### Message

`msgs` holds every message object made so far, `meant` is a history variable: what the caller
wanted, and for whom. Encrypted data is the secret (cipher and session key) it was made under
and what was in it; `esks` are the session key packets. `EncryptFor` (a key) changes a message
that is encrypted already *in place* and otherwise makes a new one; `EncryptWith` (a passphrase)
always makes a new one and merges the other into it. `framed` records that the copy of encrypted
data has a header without a length. `SaveAndReload` stands for writing and parsing. A session
key of a size that does not fit its cipher raises before anything changes and is left out.

### Signing

`made` is the sequence of all signatures, each with its type, its maker and the data it was
computed over (`Hashed` is `hashdata` without the trailer: the sequence of objects that are
hashed); `on[x]` is `_signatures` of a key, User ID or message, as numbers into `made`; `owner` is
`_parent`. Two fields of a signature are history: `over` and `whose`, what it was wanted for and
who was the parent then. A caller signs one object and may attach the result to another of its
kind (`at`), move User IDs from key to key (`DelUid`, `AddUid`) and add a subkey to a second key,
so the data recomputed at verification may differ from the data signed. `AddSubkey` files the
child and makes the key its parent; if the key is not complete (it has no User ID) the call ends
there with an exception, otherwise it makes two signatures, the second one embedded in the first,
and both end in the subkey's deque. `Collected`, `Verifier` and `Outcome` are the stages of
`PGPKey.verify`; `ExpiresAt`, `IsRevoked` and `Issues` what it asks of the verifying key;
`CurrentAttestations` and `Attested` are `attested_to`. An `AttributeError` of `hashdata` for a
User ID without parent is an outcome.

Assumed of callers: User IDs are self-signed when added, are not marked primary, and their
certifications and attestations repeat the usage flags; an attestation is asked of the owner.
`self_verified` returns OK always (`pgp.py:2389`) and is left out.

### KeyPair

An element of `Private` or `Public` is a Python object, `KeyOf` its fingerprint. `held` are the
objects the program has a reference to; an object is `Alive` if it is held or is reached from one
that is along `_children` (`Reached`, the least set that contains the children of its members;
`_sibling` and `_parent` are weak). When the last reference
goes, weak references to the object die, which `sib` shows as `NoHalf`: `None` and a dead
reference behave alike everywhere, and the name may then stand for a new object. Objects in a circle
go when the collector finds them: `Forget` is that moment for them.

Children may have children, and a key may be among its own descendants: `|=` asks only whether the
other key is a subkey of the same half, and `add_subkey` files the child before `bind` finds that
the key it was called on is itself a subkey (`pgp.py:1681`, `1894`). So the getter of `pubkey`,
which calls itself for every child, is modelled by its calls: `Calls` are the paths from the key
along the children, `Fresh` gives every call a new public object, `Copied` what it copies from the
private object at the end of the path, and `MakePublic` puts the objects together. A key that is
met on two paths has two new halves, the last one made is its sibling. Its test (`pgp.py:1489`) is
true for `None` and for any reference, so it makes new halves on every access. With a circle it
does not end: `PubkeyFails` is the RecursionError, which leaves the siblings of the keys whose
calls had returned dead (`MaxDepth` is the depth Python allows).

`SetPubkey` is the setter with its four checks. `AddSignature`, `AddUid` and `AddHalf` are the
branches of `PGPKey.__or__`, which sends a copy to the sibling last of all, so a private subkey
composed with a private key is filed before the public sibling refuses it. `AddSubkey`,
`CertifyUid` and `DelUid` change one half only; `DelUid` of a subkey finds the User ID at the
parent and then fails to remove it from the subkey. `Hold` takes a subkey out of its key's.
`apart` is a history variable: which of these things happened to an object since its half was
taken; `HalvesAgree` says, for each kind of content, which of them may have made a difference.

Signatures, User IDs and certifications are numbers, in the order they are made. Calls that raise
before they change anything and leave nothing behind are in `SetPubkey`, `AddHalf` and `DelUid` and
otherwise left out; so are parent references and `copy.copy(key)`, which gives a key without
a sibling, as `Loaded` ones are.

### Octets, Fields, Subpackets, KeyMaterial, Packets

An octet string is a sequence of runs: octets whose value the code looks at are listed with the
value, others are `n` octets of some datum, counted but not looked into. Text has one name per
encoding, because the code decodes and encodes it: ASCII, UTF-8 that is not ASCII, and octets that
are not UTF-8. So slices, `del packet[:n]` and sums of lengths are computed as in the code, to the
octet, and a misaligned read shows as octets of another datum.

A packet in memory is represented by the octets that each of its fields will be written as. To
parse a field is to turn received octets into those (`Stored`): the same for most fields; for an
MPI without leading zeros, for flags the bits that have a member, for text re-encoded from Latin-1
to UTF-8, for `Boolean` always 0. `Accepted` is what the setters raise on. A class is a sequence
of fields, one operator per class, named as in the code; classes whose parse method does more
(notations, string-to-key, session keys, keys, literal data, image attributes) have operators of
their own. `Headers` has the first octet of a packet and the lengths of both formats as plain
sequences of numbers, without recursion, so that they can be reasoned about; `Octets` puts them
into octet strings and adds the partial chunks (`Gather`). The lengths of subpackets are those of
the new format.

In `Packets`, `Receive` reads one packet of another program with two more behind it (a marker and
a User ID of 80 octets: `Follow`), `Make` is one PGPy builds (fields set, then `update_hlen`),
`SaveAndReload` writes and reads it with the same two behind, `Copy`, `Protect` and `Pubkey` are
the operations on packets that change their size or share their parts. A failed parse is `"fail"`
on input and `"lose"` on PGPy's own output; `"unwritten"` is an exception when the packet is
written (a file name outside Latin-1). Compressed data are a string with an end that decompression
needs: what another program compressed and PGPy compresses anew may be longer or shorter than the
length in its header says, and is then cut off or takes octets of the packet behind it. `forms`
names what is uncommon about the input; each property lists the forms it excepts and claims that
they are *exactly* the exceptions, so that a form that came to be handled would violate it as much
as one that ceased to be.

## 3. Runs

| run | kind | bounds | shows |
|---|---|---|---|
| KeyLockAny | pass | a primary, 2 subkeys (one can sign), 2 passphrases, 2 blocks per key | the secrets of an encrypted key are clear only inside a block; secrets are lost only in the ways named in `LossOnlyByMisuse` |
| KeyLockCareful | pass | the same | nothing is lost, one passphrase opens everything, certifying and decrypting never use zeros, signing only with a locked subkey of an unlocked primary key; KeyLock implements KeySafe |
| KeyLockCleanup | violation | 1 block | the cleanup zeroes never-encrypted subkeys |
| KeyringAny | pass | both halves of a key, another key, a subkey that the first key may get later; two keys share two aliases | maps, deques and dict agree, one order of the keys of an alias, load reports what is loaded but for subkeys a loaded key grew |
| KeyringLoadOnly | pass | both halves of two keys and of a subkey | Keyring implements KeyringAbs |
| UserIds | pass | 3 User IDs and an attribute, 3 signatures, 2 times | order, latest self-signature, copies |
| KeyParse | pass | every block of at most 4 packets over 2 ids and 2 halves | packets are filed as their place means; parsing ends |
| Message | pass | 3 messages, 2 session key packets each, 3 keys of 2 owners, 2 passphrases, 2 secrets, 3 signatures, 2 of the same second | every passphrase reads a message, every key if all recipients are keys, nobody else; signatures in order |
| MessageMixed | violation | the same | with a passphrase among the recipients of a message a key cannot read it |
| Signing | pass | a key that signs with its subkey and a short one that has no User ID yet, a subkey, two User IDs, two documents, 4 signatures of which one is the first self-certification, 2 seconds | a signature is good exactly where it belongs; expiry is the owner's; newer attestations replace older ones |
| Packets | pass | 581 packets of every class in the forms listed in `MCPackets`, 270 that PGPy makes, 3 operations on each | what is refused, what is altered, alignment, round trips, fingerprints, copies |
| KeyPair | pass | a key loaded twice, another key, two names for public halves of each, 1 item, paths of 3 keys, 5 operations | siblings match, children are of their key's half, linked halves agree |

Why the bounds suffice. KeyLock: a subkey's lock state depends only on itself and on the primary,
two subkeys give every relation between "attached before" and "after", two blocks give nesting and
overlap on one object, and the theorems below hold for all values. Keyring: the depth arithmetic
goes wrong when one alias is missing from an inner map, which needs two keys with a common and a
private alias; the instance has three keys and a subkey. That keys come in one order under all
their aliases needs two of different ages that share two aliases. UserIds: a bisection that meets
the item itself or a misplaced one shows with four items. KeyParse: four packets contain a key, an
item of it with a signature and what follows; the loop keeps only the last key and whether it is
fresh. Message: a third message is a copy, a merge or a decryption of an encryption of the first;
two packets give every order of two recipients. In Message the subkeys, passphrases, secrets and
the two signatures of one second are interchangeable, and SYMMETRY uses that. Signing: three
signatures beyond the initial one are enough for one to be made before a User ID or subkey moves,
one after and one by a third party, and for an attestation to be replaced; a subkey then moves to
a second key only if that key is incomplete and its `add_subkey` raises, while a second binding,
which takes two more signatures, is covered by the theorem `GoodIffSignedAlways` alone. Calls that
make no signature (deleting a User ID, an `add_subkey` that raises) are taken only while there is
room for one. Two seconds let an order and a tie occur and a key expire. The two documents are
interchangeable. KeyPair: five operations are enough to file a subkey, or a circle of two keys,
take a half, change one side, take a newer half and compose with either; two public names for each
key let an older half live beside a newer one, and two halves of a key that is met on two paths
beside each other; one item is enough, because a difference is one item that one half has. Paths
of three keys tell a circle of one or two from none (there are two fingerprints, and a third
object of the first key). The theorems below hold without bounds. The two private objects of key A
are interchangeable, and so are the public ones of each key. Packets: the inputs are one at least
of each class and, within a class, of each branch of its parse method; two subpackets in an area
show misalignment between neighbours; lengths lie in every range of both formats (the boundaries
192, 8384 and 2^8 are passed by growing subpackets, keys and data); three operations reach save,
reload and save again; the 87 octets that follow are enough for the forms that eat into the next
packets (16 octets of an image at each save) to show after two of them.

`CHECK_DEADLOCK FALSE` is set where the system stops: KeyParse ends with the block, Message with
its bound on messages, Signing with its bounds on signatures and time, Packets and KeyPair with
their bounds on operations. All other runs check deadlock.

Fairness is assumed in KeyParse only, for the reason given above. Elsewhere there is nothing to
wait for: every operation is a call that terminates, and the caller is never obliged to make a
further one.

### Where the code and its documentation differ

The violation runs are listed as findings in `PROJECT.json` with the lines quoted. Met on the
way and modelled as the code does it, without a run of their own:

- `_sort_alias`'s comment says that in the maps from left to right newer keys come before older
  ones, because the list, sorted the other way, is placed "from right to left"
  (`pgp.py:2722-2727`). It is placed from left to right (`SortAlias`), so the oldest key of an
  alias is found first. `AliasesSorted` takes no side: it asks for one order of ages, and for the
  private half before the public one.
- `SorteDeque.resort` leaves a demoted item in place when the bisection stops on it (three
  primary User IDs, the middle one demoted); `OrderIsKept` therefore excludes steps that demote.
- `PGPKey.encrypt` returns "a new PGPMessage" (`pgp.py:2517`) but for an encrypted message it
  changes and returns that message.
- the copy of encrypted data is not written with its length (`packets.py:1547`), so what is
  written of a copied encrypted message does not parse (`SaveAndReload` of Message is disabled
  then); the copy of an ECDH session key loses the wrapped key, the copy of an opaque signature or
  key its data (`Uncopied`). The test of copies does not notice: it compares each attribute of the
  original with itself (`tests/test_04_copy.py:94`). The subpackets are shared by the copy and
  the original (`fields.py:179-184`), which matters to programs that change them in place; none of
  the operations here does.
- load returns the fingerprints "of all of the keys that were loaded" (`pgp.py:2795`), but
  `_add_key` returns at once when it knows the key object (`pgp.py:2761`): a subkey that the key
  got since is reported and is not in the keyring (`missed` in `ReportedIsLoaded`).
- an image attribute of an unknown version is read past a header of 16 octets and written without
  one (`userattribute.py:90-106`): every save takes 16 octets off it, and 16 from what follows.
- what another program compressed is compressed anew when it is written, under the length it was
  received with (`packets.py:1011`): a file with it may not be readable any more ("recompressed
  longer" and "recompressed shorter" in `Unsettled`).
- `exportable` is false only "if this signature is marked as being not exportable" (`pgp.py:138`),
  but `Boolean`'s setter for received octets assigns an attribute nobody reads
  (`signature.py:190-191`): a signature that says it is exportable is read as one that is not, and
  written so (`Stored`, "set boolean").

- "orphaned will hold all non-opaque orphaned packets" (`pgp.py:2611`), but the `groupby` that is
  left after an orphan has already taken the packet behind it (`pgp.py:2670`): in [key, literal
  data, User ID] the User ID disappears (`Orphan`).
- a keyring raises KeyError "if there is no loaded key that satisfies the identifier"
  (`pgp.py:2826`), but after unloads `_add_alias` takes the entry of another loaded key for a free
  one (`pgp.py:2750`): loading, unloading and loading again keys with a common e-mail address
  makes one of them unfindable under it (`AddAlias`; reached in KeyringAny, where no property
  forbids it). Loading alone does it when two aliases have three keys each: the first alias makes
  three maps, the sort puts the first two keys of the second one into the leftmost two, and the
  third key takes the place of the first (`adepth` supposes the rightmost). The alias is still
  found (`LoadedAlwaysFound`), one of its keys no longer (hence `AtMostTwo` in
  `ImplementsAbsAlways`).
- `pubkey` means to keep one public half ("keep connect the two halves using a weak reference",
  `pgp.py:1510`) but makes a new one on every access; the earlier one no longer follows.
- literal data's file name is read as UTF-8 and written as Latin-1 (`packets.py:1222`, `1245`); a
  received one outside ASCII changes, one of PGPy's own cannot be read back (`Misread`), and one
  outside Latin-1 raises UnicodeEncodeError when the message is written.
- subpacket type 0x18 is claimed by two classes, so a preferred key server is the one registered
  first (`Format`); an attribute's header is rebuilt with zeros (`Image`).
- `bytes()` of a cleartext message holds its signatures only; encrypting one loses the text.
- sign should raise when the key "has not been unlocked" (`pgp.py:2013`). KeyAction checks the key
  it was called on and runs the action on the subkey it chose (`decorators.py:130`): with a
  signing subkey whose own unlock block ended inside the primary's block, `SignResult` is
  "zero_material", a signature computed with zeroed numbers (`UseFindsSecret` names this case and
  shows that it is the only one for a careful caller).
- an attestation is "over itself and its user ID" (`constants.py:471`), but `hashdata` has no
  branch for it and hashes neither: it verifies on any User ID (`Hashed`; `GoodIffSigned` leaves
  attestations out).
- `selfsig` is "the most recent, self-signature" (`pgp.py:683`) of any type: once the owner
  revokes a User ID, the revocation is read for flags and key expiration, which it lacks; the
  key then does not expire and does not sign.
- the issues that fail a verification are compared as single flags (`constants.py:605`): an
  expired key makes it fail, one that is expired and also revoked or short does not
  (`CausesFailure`).
- signatures of the same second come out in the other order after a copy or a reload
  (`CopyKeepsOrder` therefore excludes ties).

## 4. Theorems

`KeyLockProofs` proves, for every set of subkeys, every set of passphrases and every bound on
blocks, from `KeyLockAssumption` alone:

- `TypeCorrect`: `Spec => []TypeOK`.
- `AlwaysLockedOutsideBlocks`: `Spec => []LockedOutsideBlocks`. The invariant is inductive with
  `TypeOK`; the argument per action is that clearing covers everything the object covers at
  that time, and that the set of covered keys only grows (`AttachedFacts`,
  `AppendAttached`), so a block that covered a key still does when it ends.
- `LossNeedsMisuse`: `Spec => LossOnlyByMisuse`, from the strengthening `BlobHoldsClear` (lemma
  `ClearIsInBlob`): an encrypted key that is in the clear has a blob that holds its
  secret, unless it is half-protected. Without it `UnlockExit` could clear the only copy.
- `CarefulNeverLoses`: `Careful => (Spec => []NoSecretLost)`, by the invariant `KeptInv`: a
  protected key's blob holds the secret, an unprotected key is plain.
- `CarefulOnePassphrase`: `Careful => (Spec => []OnePassphrase)`, inductive with `TypeOK` and
  `LockedOutsideBlocks`: a subkey can be added only while the primary is unlocked, for a
  protected one therefore inside a block, and the block ends when the key is sealed again.
- `CarefulImplementsSafe`: `Careful => (Spec => ImplementsSafe)`, the refinement of `KeySafe`.
  `SafeStep` maps every action to a step of the safe or to none, from `KeptInv` (an unprotected
  key is open, a blob has the secret), the invariant on blocks, and one more, `CarefulHasPass`:
  the blob of a protected key has a passphrase. Without it a key with a lock might look like one
  without, and reading it back, which closes what has a lock, would not be a step of the safe.

`KeyPairProofs` proves, for every set of objects, every assignment of keys to them and every bound,
from `HalvesAssumption` (halves are disjoint, `KeyOf` and `Loaded` are about them):

- `TypeCorrect`: `Spec => []TypeOK`; the part that needs an argument is that the children of every
  live object are subkeys of its own half (`ChildrenFit`), which `add_subkey` and `|=` ensure by
  different checks and `Pubkey` by copying, whatever children they have. What is alive after a
  step is the least set closed under children (`ReachedHolds`, `ReachedLeast`), so it is enough to
  give a closed set of objects that fit. For `Pubkey` these are the objects made: every call made
  one of the fingerprint of the key it was called on (`CallFacts`, by induction along the path),
  and its children are those of the calls one step longer (`PubkeyAlive`).
- `SiblingsAlwaysMatch`: `Spec => []SiblingsMatch`, with `TypeOK`: objects that `pubkey` makes are
  `Gone` before, so no reference points to them, and references to what dies die with it
  (`FilteredSiblingsMatch`).
- `HalvesAlwaysAgree`: `Spec => []HalvesAgree`. `HalvesAgree` is not inductive: a public half `p`
  linked with `h` could get items from another private object `s` whose sibling it is too, and
  nothing in `HalvesAgree` says where such an `s` comes from. `OneClaim` adds it: if so, `h`'s
  half was connected by the setter, the one operation that looks at one side only. `HalvesInv` is
  the conjunction of `TypeOK`, `SiblingsMatch`, `OneClaim` and `HalvesAgree`; `HalvesStep` has one
  step per action.

`CarefulUseFindsSecret`, last of `KeyLockProofs`, adds to `KeptInv` that a careful caller leaves
no attached subkey unbound (`BoundInv`, lemma `CarefulBinds`): the checks of `bind` pass on
unlocked keys, and unlocked keys hold their numbers. So certifying and decrypting compute with
secrets, and signing does unless the subkey it chose is locked while the primary key is not.

`SequenceLemmas` is about the operators of `SorteDeque`. The bisection is a recursive function of
a range and refilling a deque a fold, so facts about them need induction. The induction theorems
of the library take an operator, which these provers cannot instantiate; the least-number
principle can be stated with a set instead (`LeastNatural`, `BoundedInduction`), and a proof by it
picks the least counterexample. From there: a fold has the values its steps give it
(`FoldRecursion`, `InsortSomeSteps`), the bisection stops between an item that is less and one
that is not (`BisectLeftStops`), insertion into a sorted deque keeps it sorted
(`InsortKeepsOrder`), refilling sorts from any order (`InsortAllFacts`) and changes nothing when
there are no ties (`InsortSomeKeeps`), and `resort` repairs a deque in which one item is too far
back (`ResortKeepsOrder`): if the bisection meets the item, nothing before it is greater. "Sorted"
means that no item is `before` one that stands in front of it, and `before` must be a `WeakOrder`.

`UserIdsProofs` proves, for every set of User IDs, kinds, times and bounds, from
`UserIdsAssumption`:

- `UserIdsGood`: the inductive invariant `UserIdsInv`: the types, of which that no User ID is in the
  deque twice needs an argument, and the signatures of every User ID in order of time. The
  order of the User IDs themselves is not part of it, because the code does not always keep it.
- `MostRecentAlways`: the last self-signature in a sorted deque is the latest one.
- `RebuildingAlwaysSorts` and `CopyAlwaysKeepsOrder` rest on `__lt__` being a weak order: it nests
  conditionals, and `LtIsLexicographic` shows that it compares three numbers, class, primary
  mark and time of the self-signature, one after the other.
- `OrderIsAlwaysKept`: `Spec => OrderIsKept`. A signature changes the rank of one User ID. Unless it
  demotes that User ID, nothing behind it comes to be less than it (`NotDemoted`), which is the
  condition of `ResortKeepsOrder`; this lemma is also where a newer self-signature of a
  User ID that had one is shown to move it back at most behind those of the same second.

`MessageProofs` proves, for every set of keys, owners, passphrases, secrets, signatures and any
number of messages and session key packets, from `MessageAssumption`:

- `MessagesGood`: the inductive invariant `MessageInv`. It relates each message to what the caller
  meant with it: its packets are for exactly the recipients meant, what is in it or encrypted
  in it has the signatures meant, signatures are in order, and no packet for a key stands
  before one for a passphrase (`PassphrasesFirst`). Nothing of this can be left out: the last part
  decides which packet `PGPKey.decrypt` meets first.
- `InOrderAlways` and `OnlyRecipientsAlways` follow; `EveryRecipientAlways` needs
  `PassphrasesFirst`: the first packet that a key's decryption takes is for a passphrase if any is
  (`FirstHit`).
- `KeysAlwaysShutOut`: what MessageMixed finds holds of every message: once a passphrase is among
  the recipients every outcome of a key's decryption is an exception.

`ParsingProofs` proves, for blocks of every length over every set of key ids, from
`KeyParseAssumption`:

- `PacketsInPlace`: the inductive invariant `KeyParseInv`. `FiledAsMeant` speaks of the end of the
  block, the invariant of the packets before `next`: what they would mean if the block ended
  there (`MeantBefore`, which a subkey that comes again later changes), that the last key of the
  dict is the primary key before `next`, and that the grouper is made once.
- `FiledAsMeantAlways` and `AcceptsAlways` (which is inductive on its own, given `TypeOK` and the
  keys filed).
- `AlwaysSomeStep` and `EveryStepCloser`: while the loop runs, the condition of one of its steps
  holds (`SomeStep` lists the conditions, by the kind of the next packet), and every step reads at
  least one packet further or stops, so a block of n packets takes at most n + 2 steps. The first
  needs an invariant, `SignaturesLedBy`: only a grouper that is new meets a signature first,
  because the packets after the first of a group are taken up to where another group begins. The
  two are what `ParseEnds` rests on apart from fairness; that `ParseEnds` follows (`SomeStep` is
  `ENABLED Next`, and a number cannot grow for ever below a bound) is left to the run.

It also proves, of `Headers`, for every tag and every length below 2^32, whatever follows in the
stream:

- `LengthsReadBack`: a length that `encode_length` writes in the new format is read back by
  `length_bin`, and it takes the octets that `llen` says, on which `len(packet)` relies.
- `LengthsRewritten`, the other way round: a length read from any octets, unless it is a chunk's, is
  written as it was received if and only if it was not in more octets than it needs. This is why
  "long length" and "long attribute length" are among the forms that `RewrittenAsReceived` excepts,
  and why of the new-format lengths only chunks ("partial lengths") are there beside them.
- `NewHeadersReadBack` and `OldHeadersReadBack`: the same for whole headers. In the old format the
  length has to fit the `llen` octets it was read in. Nothing in the code sees to that: a packet
  that grew (a key protected after import) is written with more octets of length than its first
  octet announces, and the theorem says that this is the only way to get `len(header)` wrong.

They go from the digits of a number (`DigitSum`: four octets, each the remainder of a division, add
up to the number; `WeightedDigits`: no other four do) over `bytes_to_int` and `int_to_bytes`
(`OctetsReadBack`, `OctetsRewritten`) to streams that begin with given octets (`Begins`).

`SigningProofs` proves, for every finite set of primary keys, every set of subkeys, User IDs and
documents, and every bound, from `SigningAssumption` (these sets are disjoint, no two keys start
with the same User ID):

- `SigningGood`: the inductive invariant `SigningInv`. To `TypeOK` it adds that what a signature was
  computed over is what the caller wanted signed with the parent it had then (`MadeFits`), that
  signatures hang on things of their kind only (`Placed`) in the order of creation (`InTime`), that
  every User ID of a key has a self-signature (`SelfSigned`) and that `_uids` is in the order of
  these (`Ranking`). The last two need each other: without a self-signature the rank of a User ID
  is not the time of one (`RankIsTime`), and ranks would not be an order. `AttachKeeps` has the
  argument for every operation that signs: a signature by the key itself is the latest one and can
  move its User ID only forward, which `resort` does, and one by another changes no rank.
- `GoodIffSignedAlways`: from `MadeFits` and `Placed`, by the kinds of signatures (`DataTells`).
- `AttestationsCurrentAlways`: by induction over the loop of `attested_to` (`AttestationLoop`,
  `CurrentAreNewest`); its check that an attestation verifies takes all of them or none
  (`AllOrNone`).
- `ExpiryAlwaysOwners`: `Spec => ExpiryIsOwners`. Without ties the User IDs are strictly in the
  order of rank (`StrictlyRanked`), so that the bisection of `resort` finds the User ID another
  has signed at its own place and leaves the deque alone (`ResortStays`).

`KeyringProofs` proves, for every set of key objects and aliases, every assignment of aliases,
times, halves and subkeys, and subkeys that come later, from `KeyringAssumption`:

- `KeyringGood`: the inductive invariant `KeyringInv`. Of the alias maps it says (`MapsOK`) that
  each is a dict, that the entries of an alias are in the order of `_sort_alias` over the maps
  (`Ordered`) and that every entry leads to a loaded key that has the alias. While one alias is
  being changed the others stay in order (`OrderedBut`), and `_sort_alias` puts it back
  (`SortAliasKeeps`): it has no more keys than there are maps (`KeysOfFacts`), so there is a place
  for each, and dropping the empty maps shifts all entries alike (`KeptFacts`). A map that is put
  in front when all have the alias is empty (`GrownFacts`). For `unload`, whose list of entries is
  made before the maps change, every entry of the key is in that list (`EntriesOfFacts`) and a
  sort adds none (`DropEntriesKeep`).
- `NoDanglingAlways`, `SortedAlways` and `DequesAlwaysAgree` follow, with no condition on what is
  loaded, unloaded, or given subkeys. For `SortedAlways` the order that all aliases share is the
  ascending one (`KeysAscend`).
- `ReportedAlwaysLoaded` has no condition either. `ReportedInv` adds that of a loaded key each
  subkey is loaded or was missed (`missed`), and that subkeys are those `MayOwn` allows, so that a
  load which adds a key adds all it reports.
- `LoadedAlwaysFound`: `~CanUnload => (Spec => []LoadedIsFound)`: while nothing is unloaded every
  alias of a loaded key leads to a loaded key. Nothing is assumed of how many keys share an alias:
  a key put over another's entry still leaves the alias found.
- `ImplementsAbsAlways`: `LoadOnly /\ AtMostTwo => (Spec => ImplementsAbs)`. With two keys at most
  to an alias and no alias that is another with spaces, an alias that has one entry has it in the
  last map (`OnceLast`), so the second key gets a map without the alias, the one left of the last
  (`SecondKey`), and hides none. The maps then hold all aliases of the loaded keys and nothing
  else (`Exact`), and a load adds what `KeyringAbs` says. The bound of two is needed: see the
  example of three keys in section 3. `LoadOnly` says that nothing is unloaded and no key grows
  subkeys. Both conditions hold of the constants of KeyringLoadOnly.

Loops over keys, aliases and entries are folds; each has a lemma (`AddOneSteps` and its like) that
gives its intermediate states, from `FoldSolved` and `RunOfFold` in `SequenceLemmas`.

Only model-checked: `Packets` and the modules under it except `Headers`, whose octet strings are
recursive data throughout (slicing a string of runs is a recursive operator, and so are partial
chunks), and whose properties speak of listed forms of input; and `ParseEnds`, since liveness is
beyond these provers, as is `ENABLED`.

## 5. Not modelled, and the plan

Not modelled: the arithmetic and ciphers of the `cryptography` library, the derivation of keys from
passphrases, armor and other text formatting, key generation, file input of `load`, what is inside
compressed data, the secret numbers of usages other than 0, 254 and 255 (which the code
does not decrypt either), and that an opaque signature or key keeps the very bytearray that
is read from, so that it changes with the stream. Modelled in part, as said in `PROJECT.json`:
usage checks, how signatures look up their subpackets, string-to-key.

What would come next:

1. `KeyCompose`: parsing, User IDs and halves together: `parse(bytes(key))` gives the key back, with
   the packets of `Packets` instead of identifiers.
2. The lookup of subpackets by name (hashed before unhashed, first or last of several) and its
   users in `PGPSignature`, with signatures updated between signing and hashing.
3. Proofs about partial lengths and subpacket areas: `Gather` and the areas as recursive functions
   over plain octets, as `Headers` is, so that reading back what is written is proved for whole
   packets.
