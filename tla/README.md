# Model-checking project for the raw-transaction RPCs

This directory holds TLA+ specifications of `src/rpc/rawtransaction.cpp`, the
JSON-RPC handlers with which clients of the node assemble, co-sign, merge,
send and prove *entities* (transactions and sidechain withdrawal
certificates), together with the TLC configurations that check them.
`PROJECT.json` lists the components, the runs, the line-by-line map from
definitions to source, the findings and the hazards.

## 1. The system

### Parts

| Part | Code | What it does | State it touches |
|---|---|---|---|
| Entity builder | `AddInputsToRawObject`, `AddOutputsToRawObject`, `createrawtransaction` (569-711) | builds an unsigned transaction from JSON arguments | none (pure) |
| Certificate builder | `createrawcertificate` (852-985) | builds an unsigned certificate: inputs, outputs, backward transfers, five mandatory parameters | none (pure) |
| Signature Combination Engine | `signrawtransaction` (1282-1462), `TxInErrorToJSON` | decodes one or more variants of an entity, builds a view of the outputs they spend, signs what it can, merges the variants' signatures, verifies, reports per-input errors | reads chain, mempool, wallet |
| Certificate signing | `signrawcertificate` (1108-1220) | the same for exactly one certificate, with no merge | reads chain, mempool, wallet |
| Sending | `sendrawtransaction`, `sendrawcertificate` (1464-1599) | accepts an entity to the mempool unless it is known, relays it | reads chain, writes mempool |
| Inclusion proofs | `gettxoutproof`, `verifytxoutproof` (455-567) | builds and verifies a partial Merkle tree for ids in a block | reads chain, block index, transaction index, mempool |
| Decoding | `decoderawtransaction` (791-803), `decoderawcertificate` (999-1011), `decodescript` (1038-1053), `TxToJSON` (119-160), `CertToJSON` (177-233), `ScriptPubKeyToJSON` (37-59) | show an entity's inputs, outputs and fields, the kind and the addresses of a locking script, and for a backward transfer the key it pays, read out of the bytes of its script | none (pure) |
| Lookups | `getrawtransaction` (344-364), `getrawcertificate` (431-451), the block part of `TxToJSON` (161-174) and `CertToJSON` (235-249) | find an entity in the mempool, the index or through the coins, and say how deep its block is in the best chain | reads chain, block index, transaction index, mempool |
| Formatter of joinsplits | `TxJoinSplitToJSON` (62-117) | formats the joinsplit descriptions of a transaction | none |
| Usage | the first statement of each of the thirteen handlers | answers a call for help, or with a number of parameters the handler does not take, with the help text | none |
| Collaborators (not in `src/`) | `SignSignature`, `CombineSignatures`, `VerifyScript`, `SignatureHash`, `CCoins`, `EnsureWalletIsUnlocked`, `AcceptToMemoryPool`, `CPartialMerkleTree`, `CMerkleBlock`, `GetTransaction`, `ExtractDestinations`, `GetScriptForDestination` | cryptography and script evaluation, coins, wallet, mempool acceptance, the partial Merkle tree | |
| Environment | callers, block connection, mempool, wallet owner | changes chain and wallet between calls, carries hex strings from one call to the next | |

### Interaction

Every handler takes `cs_main` (the signing handlers also `cs_wallet`) on its
first line and holds it to its last: a call is atomic, and concurrency is the
interleaving of whole calls with each other and with the environment. The
handlers keep no state of their own. What flows between calls is the hex
string of an entity, in the hands of the callers: one creates, several sign
in turn or in parallel, one merges the signed variants and sends. The state
that matters is therefore
- the entities the callers hold (`wire`),
- the unspent outputs of chain and mempool (`coins`),
- the wallet: absent, locked or unlocked (`wallet`),
- the entities that wait for a block (`mempool`) and those a block holds,
- for the proofs: the block index, the blocks on disk, the best chain, the
  transaction index, and the proofs the callers hold.

The sending handlers are the one place where this file writes shared state:
an entity that passes acceptance is in the mempool when the call returns.
The proof handlers read the chain at two different times, once to build a
proof and once to verify it, and what travels in between is in the hands of
callers who may alter it.

### What is hard

- The merge loop clears an input's script, signs, then folds every variant
  back in; signatures of earlier rounds survive only through that fold.
- The view is fetched from chain and mempool, cut off from them, then
  overwritten by `prevtxs` of the request.
- The key store is the request's keys or the wallet's, decided by conditions
  50 lines apart.
- The variants are indexed by the input count of the first one.
- The chain moves and the wallet is locked between the calls of one round.
- The certificate handlers repeat the transaction handlers with differences
  that are easy to miss.
- An entity is known to the node by a hash that covers its signatures: the
  variants co-signers hold are different entities that spend the same
  outputs, and an entity can be sent at any stage, twice, after it was
  confirmed, after its inputs were spent, and after the node lost its
  mempool.
- A block is found for a proof in three ways (a given hash, the coins of the
  last id, the transaction index), each of which can name a block that is not
  in the best chain or does not hold the ids.
- A proof is replayed on a tree whose shape comes from a field of the proof.

## 2. Modules

| Module | Models | Kind |
|---|---|---|
| `Script` | locks, signatures, `SignatureHash`, `SignSignature`, `CombineSignatures`, `VerifyScript`, `IsAvailable` | operators, written from the contracts of `spec.md` 4.2 and 4.4 (the code is outside `src/`) |
| `CreateRaw` | `createrawtransaction`, `createrawcertificate` and their builders | operators, from the source |
| `SignRaw` | `signrawtransaction` | operators, from the source |
| `SignCert` | `signrawcertificate` (extends `SignRaw`) | operators, from the source |
| `CoSign` | the node serving the four building and signing RPCs and their usage, the callers, the chain and the wallet | state machine (extends `SignCert`, instantiates `CreateRaw`), and the properties |
| `MCCoSign` | constants of the runs, and the entities made elsewhere that the node is given to decode | model |
| `ToJSON` | `ScriptPubKeyToJSON`, `TxJoinSplitToJSON`, `TxToJSON` and `CertToJSON`: the inputs, outputs and joinsplits of an entity, the kind and addresses of a script and the key of a backward transfer, over scripts as sequences of bytes | operators, from the source (`ExtractDestinations` from its contract) |
| `Decode` | the node of `CoSign` serving `decoderawtransaction`, `decoderawcertificate` and `decodescript` as well | state machine (extends `CoSign` and `ToJSON`; its next-state relation is `CoSign`'s and the three handlers), and its properties |
| `MCDecode` | constants of the runs `cert` and `bwt_oob` (the scripts and entities given to the decoders) | model |
| `SendRaw` | `sendrawtransaction`, `sendrawcertificate`, acceptance to the mempool, blocks that confirm and spend, restart | state machine (extends `CoSign`), and its properties |
| `Claims` | what the mempool and the chain promise about the outputs entities spend | abstract specification, implemented by `SendRaw` |
| `MCSendRaw` | constants of the run `send` | model |
| `MerkleProof` | `CPartialMerkleTree` (build, serialize, extract) and the Merkle root of a block | `RECURSIVE` operators, written from `spec.md` 4.5 and 4.6 (the code is outside `src/`) |
| `TxOutProof` | `gettxoutproof`, `verifytxoutproof`, `getrawtransaction`, `getrawcertificate`, the chain with a fork, the transaction index, the mempool, the holders of proofs | state machine (extends `MerkleProof`), and its properties |
| `MCTxOutProof` | constants of the runs `proof` and `forged` | model |

A handler is a function from its request and the state it reads to its reply;
`CoSign` makes each an action that puts the reply in `reply`. The checks of a
handler are the arms of a `CASE`, in the order of the code: TLC takes the
first arm whose guard holds, which is the early return the code takes. A loop
of the code is a `FoldLeft` whose step is one pass.

### Correspondence with the code

`SignRaw.SignRawTransaction` follows the handler top to bottom:
`DecodeError` (1289-1304), `FetchView` (1310-1326), `KeysError` (1328-1344),
`WalletError` (1345-1348), `AddPrevTxs`/`AddPrevTx` with
`ScriptPubKeyMismatch` and `SetOutput` (1350-1397), `Keystore` (1399-1403),
`HashTypeError`/`ParseHashType` (1405-1421), then `SignInputs`, whose pass
`SignInput` is the availability test with its `continue`, `SignOrSkip` (the
`clear` and the guarded `SignSignature`), `MergeVariants` (the inner loop over
`txVariants`) and `Verified`; `EndPass` stores the script and appends the
error; `Result` is the reply. `SignCert.SignRawCertificate` is the same
skeleton with `CertDecodeError`, `EnsureWalletIsUnlocked` and `SignCertInput`.
`CreateRaw` has one operator per builder and per check.

`SendRaw.Submit` is the decision both sending handlers make after decoding
(1500-1523 and 1559-1599): `fHaveMempool`, `fHaveChain`, the push to the
mempool with its three failures in the order the code tests them
(`state.IsInvalid()`, `fMissingInputs`, anything else), the refusal of an
entity of the chain, the relay. The two handlers differ in their decoder and
in their wording (`TxWords`, `CertWords`); `fHaveChain` is written with a
height test in one and without in the other, which makes no difference on
`pcoinsTip`, whose coins all have the height of a block. The reply and the
mempool after the call are one record, so that the action
`sendrawtransaction` is the whole call.

`ToJSON.CertToJSON` is the loop over the outputs (195-221); for a backward
transfer `PubKeyHashStr` is lines 206-217: `FindHash160` is `std::find` (0
for `end()`), the copy starts two bytes after what it found and takes
`PkhSize` bytes, `GetHex` is `HexStr` from `rbegin()` to `rend()`.
`ScriptPubKeyToJSON` is lines 37-59: the text of the script, its hex when
asked for, and what `ExtractDestinations` finds, which for a script that is
not standard is the type alone (the early return of line 49).
`ExtractDestinations` knows the two templates the entities of the model can
carry, pay-to-key-hash and pay-to-script-hash. `TxToJSON` is lines 119-160:
the inputs, which for a coinbase show the script and not what is spent, the
outputs with their scripts, the cross-chain outputs and what
`TxJoinSplitToJSON` (62-117) makes of the joinsplits: one object for each, in
their order, with the proof as the serializer of the transaction's version
writes it. `Decode.decoderawtransaction`, `decoderawcertificate` and
`decodescript` are the handlers: "TX decode failed" for what is no entity of
the handler's kind, the refusal of what is not hexadecimal, and the formatter
otherwise; `decodescript` adds the address that pays to the hash of the
script. The handlers decode whatever they are given: an entity a caller
holds, or one of the constant `ForeignEntities` that was made elsewhere.

Every handler begins with `if (fHelp || params.size() ...) throw
runtime_error(<help text>)`, before it takes a lock. `Usage(rpc, sizes)` is
the guard of that statement and its throw, and each handler has its own
action of it with the numbers of parameters the handler takes:
`createrawtransactionUsage` (612-613, none to four),
`signrawtransactionUsage` (1224-1225, one to four),
`createrawcertificateUsage` (807-808, four), `getrawtransactionUsage`
(254-255, one or two), and so on for the thirteen. A call is `[fHelp, size]`
(`Calls`): the one the dispatcher makes for `help`, with `fHelp` and no
parameter, or a caller's own, of up to `MaxParams` parameters. The reply with
the usage carries the call it answers, so which calls are refused is part of
the behaviour: `createrawtransaction` refuses only the call of five
parameters, `createrawcertificate` every call but the one of four. The help
texts themselves are neither modelled nor mapped. The handler's own action
stands for the calls that pass the guard: its optional parameters are
`None` when the call is shorter. `createrawtransaction` tests no least
number, so a call without `inputs` or `sendTo` passes and is refused by the
type check and the accessors of lines 669-673 (`CreateRaw.NotAsExpected`),
before anything is built.

`TxOutProof.GetTxOutProof` is `TxidError` (the loop 480-489, with `OneTxid`
the last id it saw), `FindBlock` (493-516: the given hash, `BlockByCoins`,
`GetTransaction`, with their three errors), and `ProofFromBlock` (518-533:
the read from disk, `AllFound`, the proof). `VerifyTxOutProof` is the decoding
and `Matches` (553-566): the comparison of roots, which answers an empty
array, before the best-chain test, which raises.

### Abstractions

- **Hex strings** are the entities they encode; `Invalid` is a string that
  does not decode. The two kinds of entity do not decode as one another:
  this is assumed of the deserializers, which are outside `src/`.
- **Scripts.** A locking script is `m` of a set of keys, bare or
  pay-to-script-hash. A signature is a key and the digest it commits to, so a
  signature made for another entity, input, hash type or payload is invalid
  by construction. An unlocking script is a set of signatures and whether it
  pushes the redeem script.
- **Bytes of a script** exist only where the code reads them, in
  `CertToJSON`. A byte is an opcode, a push count, or byte `i` of a key
  identifier `h` in memory; a key identifier has `PkhSize` bytes (2 in the
  runs, 20 in the code: the decode depends on the size only through the
  length it copies). The hex string of a key is its bytes last first, as
  `uint160::SetHex` and `GetHex` have it, so the conversion is a reversal and
  not the identity. The script of a backward transfer that
  `createrawcertificate` built is `PayToPubKeyHash` of its key
  (`GetScriptForDestination`, line 887); a certificate made elsewhere carries
  its script as bytes.
- **An address** of an ordinary output is the key it names (line 603): its
  script is `PayToPubKeyHash` of the address. An address of a script is met
  only in what was made elsewhere, and in the reply of `decodescript`.
- **The index of an input that spends nothing** is `(uint32_t) -1` in the
  code and `NullIndex`, -1, in the model, whose integers have 32 bits with a
  sign; no handler compares it with another index.
- **A read past the end of a script** (undefined behaviour) yields a byte of
  the constant `StrayBytes` and is recorded in the field `oob` of the
  decoded result, which the real reply does not have.
- **Amounts** are kept only as valid or `Invalid`; fees are not modelled.
- **The help text** of a handler is the one value `"usage"`. A reply with the
  usage has the call (`fHelp` and the number of parameters) in the place of
  the request: the properties that speak of a request speak of the calls that
  passed the first statement (`~IsUsage(reply)`).
- **A joinsplit** is opaque, as `spec.md` has it ("pass-through only"): its
  amounts, hashes and ciphertexts are shown as they are. Only a transaction
  made elsewhere has joinsplits, and with them a version.
- **`NullOut`** stands for a spent output of a `CCoins` entry.
- **The read past the end of a variant** (undefined behaviour) is modelled
  by a script chosen from the constant `Garbage`, and recorded in the reply's
  field `oob`, which the real reply does not have; a crash of the node at
  that read is not modelled.
- **The null `pwalletMain` of `signrawcertificate`** is modelled as a crash:
  the reply is `Crashed`, and `Restart` brings the node back.
- **`coins`** merges chain and mempool: the signing handlers read both
  through one view.
- **The hash of an entity** is the entity itself, scripts included.
- **Acceptance to the mempool** is what `sendraw*` can tell apart: invalid,
  missing inputs, refused for another reason, accepted. Its checks are those
  of inputs, conflicts and scripts; fees, standardness and the sidechain
  checks of a certificate are left out, so the model accepts entities a real
  node may refuse and never the other way round. `spec.md` gives no rules of
  acceptance: see "Assumptions" below.
- **Hashes in a Merkle tree.** The hash of two hashes is the pair of them: no
  two inputs collide, and a hash is an id or a pair. A block header is its
  hash and its Merkle root.
- **A proof** is its header, its leaf count, its bits and its hashes. The
  serialization is reduced to what changes behaviour: the bits travel in
  whole bytes. A proof that does not decode is `Invalid`.
- **Those who alter a proof** change one field at a time (`Altered`); the
  number of alterations of a proof is bounded by `MaxEdits`.
- **A looked-up entity** is its id, and an id is looked up by the handler of
  its own kind. The callers who look up hold no proof: a lookup reads
  nothing of the proofs, and the chain reaches each of its states with no
  proof held.
- **Blocks** are constants: their ids in order, the block each is built on,
  and the ids whose last output each spends. The first block's outputs are
  in no view, as in the code's chain.
- **Replies.** The environment takes no step while a reply is outstanding.
  This loses nothing: taking a reply commutes with every step of the
  environment.

## 3. Runs

All runs share two previous transactions: `t1` with one output locked to 2 of
the keys 1, 2, 3, and `t2` with one pay-to-script-hash output locked to key 1.
The wallet holds key 1 and the redeem script. At most `MaxVariants = 2`
entities are concatenated in a request (1 in `send`). The proof runs have
their own chain: a first block `g`, `b1` of three entities built on it, and
`b2` (two entities, one of which spends the last output of `t1` of `b1`) and
`b3` (four entities, one of them also in `b2`) both built on `b1`.

| Run | Expect | Distinct states | What it asks |
|---|---|---|---|
| `merge` | pass | 1,405,170 | co-signing rounds on transactions, each holder signing with the default hash type or with `SINGLE|ANYONECANPAY`: does any order of sign, keep, drop and merge lose a signature, sign with a key nobody authorised, or make `complete` depend on the order of the variants? |
| `params` | pass | 104,517 | every refusal of `createrawtransaction` (a call without `inputs` or `sendTo` among them) and of `signrawtransaction`, the six hash types, `prevtxs` that add to, repeat or contradict the node's view or name an output past the end of its transaction, entities without inputs or without outputs: is `complete` exact, and does the call ever fail on `SIGHASH_SINGLE`? |
| `cert` | pass | 321,866 | certificates that one call cannot complete and that the wallet completes, built with every refusal of `createrawcertificate`, signed under every wallet state, given alone, in pairs and with transactions to both signing handlers, and decoded by the three decode handlers, next to two certificates (a pay-to-script-hash backward transfer, and one without `OP_HASH160`), a coinbase, a transaction with a joinsplit and five scripts made elsewhere: is what is built well formed, does a signing call answer only for its own kind, is `complete` exact, do only authorised keys sign, is a backward transfer shown with the key it was built with? |
| `send` | pass | 1,369,608 | entities sent at every stage of co-signing, again, after confirmation and after a restart: can the mempool hold what no block could confirm, is a hash ever returned for what is not in the mempool, and does the node implement `Claims`? |
| `proof` | pass | 241,588 | proofs built in every way a block is found, kept, altered once and verified, and entities looked up, while the chain reorganises: does an unaltered proof verify to exactly its ids, is an altered one that keeps its leaf count sound, is the block found through the coins or the index when the help text says so, is a proof only ever built from a block the node has read, does a lookup show the true depth and work when the help text says so? |
| `forged` | violation | | are the ids `verifytxoutproof` returns entities of the block the proof names? |
| `oob` | violation | | are the variants read within their bounds? |
| `unavailable` | violation | | is an input whose output is unavailable returned with an empty script? |
| `cert_lost` | violation | | does `signrawcertificate` keep the signatures a certificate came with? |
| `cert_wallet` | violation | | is a `signrawcertificate` request with its own keys served whatever the wallet is? |
| `cert_epoch` | violation | | is the epoch of a certificate never negative? |
| `bwt_oob` | violation | | does `decoderawcertificate` read the key of a backward transfer within the script? |

`TxOutProof.GetRawTransaction` and `GetRawCertificate` are the two lookups:
the id that is no hash, `GetTransactionSlow` (the mempool, the index, then
the block at the height of the coins, read and searched) with the refusal
when it finds nothing, the short reply, and the verbose one with `BlockInfo`
(161-174: no field for an entity of the mempool, the depth for a block of
the best chain, 0 for a known block outside it).

### Properties

- `TypeOK`: the shape of the state, and what the builders guarantee of an
  entity: no negative output index, for a certificate a quality that is not
  negative, a valid proof and backward transfers to different keys; a signing
  call returns the body it was given.
- `CompleteIffAllInputsVerify`: `complete` holds exactly when every input
  satisfies the locking script of the output it *really* spends, said from
  `coins` and `prevtxs` without the handler's view; and the error list has
  exactly one record per failing input. In `params` an element of `prevtxs`
  names output 1 of `t1`, which has one output: the entry grows by two when
  the node does not know `t1` (line 1380), the output in between stays null,
  and an input that spends output 0 is reported as failing. With an
  off-by-one in `SetOutput` the given script lands under index 0 and TLC
  finds the property violated. In `cert` both sides are reached: the
  certificate that spends the 2-of-3 output is never complete after one
  call, the one that spends the pay-to-script-hash output alone is
  complete when the unlocked wallet signs it.
- `SignsItsOwnKind` (in `cert`): `signrawtransaction` answers with a result
  only when everything in its string is a transaction, `signrawcertificate`
  only when its string is one certificate and nothing more. The callers of
  this run hold certificates and transactions together and give them in
  every combination of up to two. The mutant drops the test of line 1129,
  and a transaction that follows a certificate is then dropped unseen.
- `NoSignatureLost`: every valid signature of every variant is in the merged
  entity, unless the input is fully signed. It is about the use the loop
  makes of `CombineSignatures` (line 1445); the combiner itself is the
  contract of `spec.md` 4.3 and 4.4.
- `OnlyAuthorisedKeysSign`: a new signature is by a key of the request, or,
  without keys, of the unlocked wallet.
- `CompleteInAnyOrder`: permuting the variants of a request does not change
  `complete`.
- `SignWhatWeCanNeverFails`: the signer's exception for `SIGHASH_SINGLE` never
  reaches the caller.
- `BwtKeyShownAsGiven` (in `cert`): the round trip of a key through three
  conversions. `createrawcertificate` parses the hex string (`SetHex`) and
  builds the script; `decoderawcertificate`, possibly after signing, finds
  the key at a fixed offset of the script and prints it in reverse. The key
  shown is the hex string of the key the certificate pays, and the one
  address `ScriptPubKeyToJSON` shows for the same script is that key: the
  two readings of the script, by offset and by template, agree.

In `send`:

- `MempoolIsSpendable`: every entity of the mempool is in no block, spends
  unspent outputs with scripts that satisfy them, and shares no input with
  another entity of the mempool. This is what makes it safe that an entity
  already in the mempool is relayed again without validation. It holds under
  the acceptance and block rules the model assumes (see "Assumptions"): the
  handlers pass the verdict on, and what the property shows of them is that
  they push exactly the entities they should (lines 1502-1504).
- `RelayedIsInMempool`: a hash is returned only for an entity that is in the
  mempool when the call returns.
- `ClaimsKept`: the refinement. `Claims` has two variables, the sets of
  outputs claimed by the entities that wait (`pending`) and the outputs spent
  in a block (`settled`), and four actions: claim free outputs, give claims
  up, settle a claim, settle an output from outside and drop every claim on
  it. `SendRaw` instantiates it with `pending` the input sets of the mempool's
  entities and `settled` the spent outputs of `coins`, and TLC checks that
  every step of `SendRaw` is a step of `Claims` or leaves the claims alone.
  (Two entities with the same inputs would be one claim; that they never wait
  together is part of `MempoolIsSpendable`.)

In `proof`:

- `TypeOK`: the shape of the state; a proof that `gettxoutproof` returns is
  of a block the node has read (`blockhash` may name a block known by its
  header only, line 519); a proof that left the node has no more hashes than
  its block has entities; the callers hold each proof once.
- `HonestProofVerifies`: a proof built for ids `T` of block `b` and not
  altered verifies to exactly `T`, in the order of the block, while `b` is in
  the best chain, and to "Block not found in chain" otherwise, whatever
  happened to the chain since it was built. This checks `TraverseAndBuild`,
  the padding and `TraverseAndExtract` against the reference definition
  (`Matched`, and `MerkleRoot` computed level by level) for every subset of
  every block.
- `RightSizedProofIsSound`: an altered proof that still states the leaf count
  of its block returns only entities of that block, each once and in order.
- `ProofWhenPromised`: without a block hash, ids of one block of the best
  chain get their proof when the last of them has an unspent output (the
  block is found through the coins) and, on a node that keeps the index,
  also when that output is spent (the fallback of lines 508-516), whatever
  was connected and disconnected before.
- `ConfirmationsAreDepth`: a verbose lookup shows an entity of the best
  chain with its block and the number of blocks from it to the tip, and any
  other entity with 0 or without confirmations. The depth is stated from the
  position in `chainActive`, without the heights the handler uses. The
  cases that matter are reached: an index entry for a block that was
  disconnected (0 confirmations), an entity of both `b2` and `b3` after a
  reorganisation from one to the other, an entity returned to the mempool
  and still indexed.
- `LookupWorksWhenPromised`: an id of the mempool, an id of the best chain
  (above the first block) with its last output unspent, and with the index
  any id of the best chain above the first block, is answered. Without the
  index an entity whose outputs are spent is refused, as the help text says
  ("only works sometimes").

Each property of a passing run has a mutant in `PROJECT.json`: a definition
changed the way a slip in the code would change it (a dropped guard, a fold
that restarts, a swapped condition), under which TLC finds the property
violated.

### Findings

1. **`oob`** (line 1445): `txv.vin[i]` is read for every input of the first
   variant; a variant with fewer inputs is read past its end.
2. **`unavailable`** (line 1434): an unavailable input keeps the script it
   came with; the specification says it is left empty.
3. **`cert_lost`** (line 1196): `signrawcertificate` discards the signatures
   already on a certificate, so holders of a multi-signature output cannot
   sign in turn.
4. **`cert_wallet`** (line 1176): `EnsureWalletIsUnlocked()` is called even
   when the request gives its keys; with a locked wallet the request is
   refused, without a wallet a null pointer is dereferenced. This rests on
   the modelled behaviour of `EnsureWalletIsUnlocked`, whose code is outside
   `src/`: it asks `pwalletMain` whether it is locked.
5. **`cert_epoch`** (line 928): `withdrawalEpochNumber` has no sign check.
6. **`forged`** (line 556): `verifytxoutproof` compares the root the proof
   computes with the header's and asks that the block is in the best chain;
   it does not compare the proof's leaf count with the block's. The trace:
   `gettxoutproof([], b1)` returns a proof of nothing for the three entities
   of `b1` (leaf count 3, one hash: the root); the leaf count is changed to
   1, the first bit is set; `verifytxoutproof` replays a tree of height 0,
   reads the root as a matched leaf, finds the roots equal and returns the
   block's Merkle root as an id the block commits to. The same holds for any
   inner node. This rests on `ExtractMatches` as `spec.md` 4.6 gives it, the
   code being outside `src/`.

7. **`bwt_oob`** (line 211): `CertToJSON` copies `sizeof(uint160)` bytes
   starting two after the first `OP_HASH160` and never compares that with
   the length of the script. The trace: a caller is given a certificate
   whose backward transfer has the script `OP_DUP OP_HASH160 <push>` and one
   byte of a key; `decoderawcertificate` shows a key whose other byte was
   read past the end of the script. In the code this is undefined behaviour
   in a handler that decodes any hex string it is given. The `else` branch of
   the same code ("<<Decode error>>") shows that an undecodable script is
   meant to be reported. The same offset applied to a pay-to-script-hash
   script stays within bounds and shows the script's hash as if it were a
   key (run `cert` reaches it; the code gives no way to tell). The finding
   assumes that a certificate can be deserialized with a backward transfer
   of any script; the deserializer is outside `src/`, where lines 204 and
   887 show only that a backward transfer is told by its position and that
   `createrawcertificate` builds its script from a key.

### Assumptions

What the runs show of the handlers rests on what the model takes the code
outside `src/` to do:

| Assumed | Of | What rests on it |
|---|---|---|
| every signature is validated again when scripts are combined, for every kind of lock (`spec.md` 4.3, 4.4) | `CombineSignatures` | `NoSignatureLost`, `CompleteInAnyOrder` |
| a certificate does not deserialize as a transaction, nor a transaction as a certificate | the deserializers | the "decode failed" arms of the signing, decoding and sending handlers; `SignsItsOwnKind` for `signrawtransaction` |
| acceptance refuses an entity that is known, conflicts with one that waits, spends what is missing or spent, or does not verify; a block removes what conflicts with it (`spec.md` gives no rules: these are those of a mempool over unspent outputs) | `AcceptTxToMemoryPool`, `AcceptCertificateToMemoryPool`, `removeConflicts` | `MempoolIsSpendable`, `ClaimsKept` |
| a certificate can be deserialized with a backward transfer of any script | `DecodeHexCert` | the finding `bwt_oob` |
| `pwalletMain` is asked whether it is locked | `EnsureWalletIsUnlocked` | the finding `cert_wallet` |
| the replay of a proof is that of `spec.md` 4.6 | `ExtractMatches` | the finding `forged`, `RightSizedProofIsSound` |
| `help` calls a handler with `fHelp` and no parameter | the dispatcher | the calls of `Usage` |

### Bounds, and why they are enough

| Bound | Value | Why |
|---|---|---|
| `MaxVariants` | 2 | merging is a fold of a binary, idempotent combination: two variants show every order and every pair; a third adds no kind of step |
| `MaxWire` | 2 (1 in `params`, `proof` and `forged`) | two entities held at once are what a merge needs: two partial signatures of one entity, or entities of different shapes |
| keys | 3 | a 2-of-3 lock has partial, complete and surplus signature sets |
| inputs of a certificate (`cert`) | both outputs, or the pay-to-script-hash one | the first cannot be completed by one call (`signrawcertificate` merges nothing), the second is completed by the wallet: both sides of `complete` |
| inputs per entity | 0, 1 or 2 | an input is signed independently of the others except through the digest; two inputs give entities of different input counts; without inputs the signing loop has no pass and `complete` holds |
| outputs per previous transaction | 1 | `prevtxs` names output 0 and output 1: the second is past the end of the entry, which grows by one or, for a transaction the node does not know, by two with a null output in between (`SetOutput`) |
| `MaxParams` | 5 in `CoSign`, 3 in `TxOutProof` | one more than any handler of the module takes: every range of sizes has a size below, in and above it, where the handler has such a size, and each refused size is a reply of its own |
| entities sent (`send`) | on `t1`, on `t2`, on both | two entities can wait together, and a third conflicts with each of them; each has several signed variants |
| `MaxVariants` in `send` | 1 | merging is the subject of `merge`; holders sign in turn here |
| entities per block (`proof`) | 1, 3, 2, 4 | trees of height 0, 1 and 2, with and without a node that has no right child |
| `MaxBlockTxs` | 4 | the limit on the leaf count is just above the largest block: both sides of it are tried by `Altered` |
| `MaxEdits` | 1 in `proof`, 2 in `forged` | one alteration reaches every single-field forgery; the forged leaf count needs two (the count and a bit) |
| `PkhSize` | 2 | the copy is within bounds, ends exactly at the end of the pushed key, or passes it; two bytes tell a reversed key from one in memory order |
| hash types in `merge` | the default and `SINGLE|ANYONECANPAY` | the two commit to different digests of an entity of two inputs, so that an input gathers signatures of both kinds; the other four types are in `params` |
| entities made elsewhere | 4 in `cert`, 1 in `bwt_oob` | a certificate with the hash at the offset, one without `OP_HASH160` (the decode error), a coinbase (the other branch of the inputs of `TxToJSON`), a transaction with a joinsplit (the loop of `TxJoinSplitToJSON`); one certificate whose script ends inside the key |
| scripts given to `decodescript` | 5 | the empty script, one of each template, one of no template, and what is not hexadecimal |
| ids looked up | every id of the four blocks, an id of no block, a string that is no id; short and verbose | the chain has 388 states, and each is asked about every id |
| ids asked for | none, one, two in both orders, a repeated one, ids of two blocks, an unknown and an invalid one | every arm of `TxidError`, `FindBlock` and `ProofFromBlock` but "Transaction index corrupt", which no state of the model reaches (an indexed block is always known; for the same reason `BlockInfo` never meets a block hash the node does not know) |

In `proof` a caller asks for a proof only when it has room to keep one
(`MaxWire`); without that guard the same states are reached with a reply
nobody keeps. The callers who are answered with the usage hold no proof, like
those who look up: the call reads nothing.

The argument sets of each run are in `MCCoSign`, `MCDecode`, `MCSendRaw` and
`MCTxOutProof`. The certificate arguments
are empty in `merge` and `params`, and the certificate actions fire in `cert`.
Every action of the four next-state relations fires in some passing run.

## 4. Fairness and liveness

No liveness property is stated. The handlers are synchronous calls under one
lock, with no retry, timer, queue or background step in this file: nothing is
promised to happen eventually, and no fairness assumption would be justified
by the code. A relayed entity is confirmed when a miner takes it, and a
proof is verified when a caller asks: both are choices of the environment.
`CoSign`, `Decode`, `SendRaw` and `TxOutProof` may stop nowhere (the callers can always
call), so deadlock is checked. `ClaimsKept` is a safety property: `Claims`
has no fairness condition.

## 5. Not modelled, and the plan

| Part | Why not, or when |
|---|---|
| a lookup of an id by the handler of the other kind | `GetTransaction` and `GetCertificate` are outside `src/`, and nothing in it or in `spec.md` says what they do with such an id |
| an abstract co-signing specification | its state would be, for each input, the keys that have signed it, and its steps the gain of a valid signature: what a refinement to it would show is what `NoSignatureLost` and `OnlyAuthorisedKeysSign` state of the replies directly |
| scripts of the other standard kinds (pay-to-key, multi-signature, data) in the decoders | the locks the signing handlers meet are the abstract ones of `Script`; as bytes the model has the two templates that carry a hash, which is what `CertToJSON` reads |
| amounts, version, lock time and sequence numbers in the decoders | copied from the entity to the reply |
| fees, standardness and the sidechain checks of acceptance | outside `src/`; `sendraw*` only passes their verdict on |
| script opcodes, verification flags, serialization | out of TLC's reach at a useful size, and outside `src/` |
| the fields of a joinsplit | opaque to every handler of this file: `TxJoinSplitToJSON` shows them and nothing reads them |
| the help texts (about 480 lines of the file) | strings; the usage is one value and only the guard that throws it is modelled. The help texts are read as the specification of their handlers (the properties of the lookups and of `gettxoutproof` quote them) |
| liveness | see section 4: every handler is one synchronous call under `cs_main` that ends in a reply or an exception; nothing in this file waits, retries or runs later |
| block disconnection in `CoSign` and `SendRaw` | `coins` only moves forward there; `TxOutProof` has a chain that reorganises |

### The plan in detail

1. `params` with `MaxWire = 2` (an entity signed again under each of the six
   hash types) has more than 3.6 million distinct states and was not run to
   its end; `merge` reaches the case with two hash types.
2. The growth of a coins entry to the index a caller names in `prevtxs`
   (line 1380) is modelled for the indices of `params`. That a caller can
   name index 2^31 - 1, for which `nOut + 1` overflows and the entry would
   need 2^31 outputs, is a question of memory that a model with small
   indices does not ask.

## 6. Running

    tlc -workers 2 -config merge.cfg MCCoSign
    tlc -workers 2 -config params.cfg MCCoSign
    tlc -workers 2 -config cert.cfg MCDecode
    tlc -workers 2 -config send.cfg MCSendRaw
    tlc -workers 2 -config proof.cfg MCTxOutProof

and likewise for the seven configurations that end in a violation (`forged`
with `MCTxOutProof`, `bwt_oob` with `MCDecode`, the others with `MCCoSign`).
`merge` takes about two and a half minutes with coverage statistics, `send`
and `proof` about one, every other run less than half a minute.

A note for those who extend the modules: TLC's coverage statistics expand
every use of a definition. A value that is costly and used more than once is
therefore passed as an operator's parameter (as in `Result(SignInputs(cx))`)
and not named in a `LET`.

A second one: TLC shares the value of a constant that a configuration
substitutes (`InputArgs <- MergeInputArgs`) between its two workers and sorts
the fields of a record in it, in place, when it first uses the record; two
workers that do so at once end the run with an exception, once in some dozens
of runs. A record whose fields are written in the order in which TLC has met
their names is never permuted. The records of `MCCoSign` are therefore written
in the order in which the names first occur in that module (`vout` before
`vin`, as `In` names `vout` first), `MCCoSign` is the first module that
`MCDecode` and `MCSendRaw` extend, and the locks of `MCTxOutputs` are written
as records and not with `Lock`.
