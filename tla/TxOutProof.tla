----------------------------- MODULE TxOutProof -----------------------------
(***************************************************************************)
(* A node serving gettxoutproof and verifytxoutproof.  A caller asks for a *)
(* proof that some ids are in a block, keeps it, and a caller (the same or *)
(* another, who may have altered the proof) has it verified later.  In     *)
(* between blocks are connected and disconnected, headers arrive ahead of  *)
(* their blocks, and transactions leave the mempool.  The same node serves *)
(* getrawtransaction and getrawcertificate, which look an entity up and    *)
(* say how deep in the best chain its block is.                            *)
(*                                                                         *)
(* gettxoutproof parses its ids before it takes cs_main and reads no state *)
(* until then; verifytxoutproof replays the proof before it takes cs_main  *)
(* and reads no state until then: each call is one step.                   *)
(***************************************************************************)
EXTENDS MerkleProof, FiniteSets, SequencesExt

CONSTANTS
    None, Invalid,
    BlockTxs,     \* BlockTxs[b]: the ids of the entities of block b, in order
    BlockPrev,    \* BlockPrev[b]: the block b is built on; None for the first
    BlockSpends,  \* BlockSpends[b]: the ids whose last outputs b spends
    TxidArgs,     \* the "txids" arguments callers give
    BlockArgs,    \* the "blockhash" arguments callers give
    HashArgs,     \* the ids callers look up
    ForgedHashes, \* the hashes put into a proof by who alters it
    Unknown,      \* the hash of a header the node has never seen
    MaxEdits,     \* bound: alterations of one proof
    MaxWire       \* bound: proofs the callers keep

VARIABLES
    mapBlockIndex, \* the blocks whose header the node knows
    onDisk,        \* the blocks whose entities the node has
    chainActive,   \* the best chain, from the first block to the tip
    txindex,       \* -txindex: the block each id was last connected in
    fTxIndex,      \* whether the node keeps the index
    mempool,       \* the ids of the entities waiting for a block
    wire,          \* the proofs the callers hold
    reply          \* the reply the node has sent and the caller not yet taken

chain == <<mapBlockIndex, onDisk, chainActive, txindex, fTxIndex, mempool>>
vars  == <<chain, wire, reply>>

Idle == None
AllBlocks == DOMAIN BlockTxs

-----------------------------------------------------------------------------
(* What the handlers read of the chain.                                    *)

Active == ToSet(chainActive)
Tip    == Last(chainActive)

\* chainActive.Height()
Height == Len(chainActive) - 1

\* nHeight of an active block: the first block has height 0.
HeightOf(b) == CHOOSE h \in 0..(Len(chainActive) - 1) : chainActive[h + 1] = b

\* The active block an id is in, if any.
Confirming(txid) == {b \in Active : txid \in ToSet(BlockTxs[b])}

\* pcoinsTip->GetCoins: an id of the best chain with an output left.  The
\* outputs of the first block are in no view.
GetCoins(txid) ==
    LET held == {b \in Confirming(txid) : HeightOf(b) > 0}
    IN  IF held = {} \/ \E b \in Active : txid \in BlockSpends[b]
        THEN None
        ELSE [nHeight |-> HeightOf(CHOOSE b \in held : TRUE)]

\* GetTransaction without the slow path: the mempool, then the index.  An
\* entity of the mempool has no block.
GetTransaction(txid) ==
    CASE txid \in mempool                     -> NullHash
      [] fTxIndex /\ txid \in DOMAIN txindex  -> txindex[txid]
      [] OTHER                                -> None

Header(b) == [hash |-> b, hashMerkleRoot |-> MerkleRoot(BlockTxs[b])]

\* CMerkleBlock(block, setTxids), as it leaves the node.
MerkleBlock(b, setTxids) ==
    [header |-> Header(b)]
        @@ Serialized(PartialMerkleTree(BlockTxs[b],
                          [i \in DOMAIN BlockTxs[b] |-> BlockTxs[b][i] \in setTxids]))

-----------------------------------------------------------------------------
(* gettxoutproof.                                                          *)

Ok(result)   == [error |-> None, result |-> result]
Throw(error) == [error |-> error, result |-> None]

\* The first id that is not 64 hex digits, or that an earlier one repeats.
TxidError(txids) ==
    LET bad == {i \in DOMAIN txids :
                   txids[i] = Invalid \/ \E j \in 1..(i - 1) : txids[j] = txids[i]}
    IN  CASE bad = {}                    -> None
          [] txids[Min(bad)] = Invalid   -> "Invalid txid"
          [] OTHER                       -> "Invalid parameter, duplicated txid"

\* The id the block is looked up by: the last one given.
OneTxid(txids) == IF txids = << >> THEN NullHash ELSE Last(txids)

\* A mistake: the height of the coins taken as an index from 1.
BlockAtHeightFromOne(coins) == chainActive[coins.nHeight]

BlockAtHeight(coins) == chainActive[coins.nHeight + 1]

\* The block through the unspent outputs of oneTxid, if it has any.
BlockByCoins(oneTxid) ==
    LET coins == GetCoins(oneTxid)
    IN  IF coins # None /\ coins.nHeight > 0 /\ coins.nHeight <= Len(chainActive) - 1
        THEN BlockAtHeight(coins)
        ELSE None

\* pblockindex, or the error that ends the search for it.
FindBlock(blockhash, oneTxid) ==
    CASE blockhash # None /\ blockhash \notin mapBlockIndex -> Throw("Block not found")
      [] blockhash # None                -> Ok(blockhash)
      [] BlockByCoins(oneTxid) # None    -> Ok(BlockByCoins(oneTxid))
      [] GetTransaction(oneTxid) \in {None, NullHash} ->
            Throw("Transaction not yet in block")
      [] GetTransaction(oneTxid) \notin mapBlockIndex ->
            Throw("Transaction index corrupt")
      [] OTHER                           -> Ok(GetTransaction(oneTxid))

\* The all-or-nothing test: as many entities of the block as ids asked for.
AllFound(b, setTxids) ==
    Cardinality({i \in DOMAIN BlockTxs[b] : BlockTxs[b][i] \in setTxids})
        = Cardinality(setTxids)

\* A mistake: the block is taken as read whether or not the node has it.
ProofFromBlockUnread(found, setTxids) ==
    CASE found.error # None          -> found
      [] ~AllFound(found.result, setTxids) ->
            Throw("(Not all) transactions not found in specified block")
      [] OTHER -> Ok(MerkleBlock(found.result, setTxids))

ProofFromBlock(found, setTxids) ==
    CASE found.error # None          -> found
      [] found.result \notin onDisk  -> Throw("Can't read block from disk")
      [] ~AllFound(found.result, setTxids) ->
            Throw("(Not all) transactions not found in specified block")
      [] OTHER -> Ok(MerkleBlock(found.result, setTxids))

GetTxOutProof(txids, blockhash) ==
    IF TxidError(txids) # None
    THEN Throw(TxidError(txids))
    ELSE ProofFromBlock(FindBlock(blockhash, OneTxid(txids)), ToSet(txids))

-----------------------------------------------------------------------------
(* verifytxoutproof.                                                       *)

\* A mistake: the block is looked up and not asked to be in the best chain.
InBlockIndex(hash) == hash \in mapBlockIndex

InActiveChain(hash) == hash \in mapBlockIndex /\ hash \in Active

\* A mistake: whatever root the proof commits to will do.
AnyRoot(merkleBlock, extracted) == TRUE

\* The root the proof folds to is the one its header commits to.
RootsAgree(merkleBlock, extracted) ==
    extracted.root = merkleBlock.header.hashMerkleRoot

Matches(merkleBlock, extracted) ==
    CASE ~RootsAgree(merkleBlock, extracted)   -> Ok(<< >>)
      [] ~InActiveChain(merkleBlock.header.hash) -> Throw("Block not found in chain")
      [] OTHER                                   -> Ok(extracted.vMatch)

VerifyTxOutProof(proof) ==
    IF proof = Invalid
    THEN Throw("proof must be hexadecimal string")
    ELSE Matches(proof, ExtractMatches(proof))

-----------------------------------------------------------------------------
(* getrawtransaction and getrawcertificate.                                *)

\* A mistake: the lookup is asked not to take the slow path.
NeverSlow == FALSE

\* The last argument of GetTransaction and GetCertificate.
fAllowSlow == TRUE

\* GetTransaction and GetCertificate with fAllowSlow: after the mempool and
\* the index, the block at the height of the coins is read from disk and
\* searched for the id.
GetTransactionSlow(hash) ==
    LET coins      == GetCoins(hash)
        pindexSlow == IF coins # None /\ coins.nHeight > 0
                      THEN BlockAtHeight(coins)
                      ELSE None
    IN  CASE GetTransaction(hash) # None -> GetTransaction(hash)
          [] /\ fAllowSlow
             /\ pindexSlow \in onDisk
             /\ hash \in ToSet(BlockTxs[pindexSlow]) -> pindexSlow
          [] OTHER                        -> None

\* A mistake: the depth of the tip is 0.
DepthWithoutOne(hashBlock) == Height - HeightOf(hashBlock)

\* The blocks from hashBlock to the tip, both counted.
Depth(hashBlock) == 1 + Height - HeightOf(hashBlock)

\* What TxToJSON says of the block: nothing for an entity of the mempool,
\* the depth of a block of the best chain, 0 for a block that is not in it.
\* None stands for a field the reply does not have.
BlockInfo(hashBlock) ==
    CASE hashBlock = NullHash          -> [blockhash |-> None, confirmations |-> None]
      [] hashBlock \notin mapBlockIndex -> [blockhash |-> hashBlock, confirmations |-> None]
      [] hashBlock \in Active ->
            [blockhash |-> hashBlock, confirmations |-> Depth(hashBlock)]
      [] OTHER                         -> [blockhash |-> hashBlock, confirmations |-> 0]

\* The same lines of CertToJSON, which leave out "time".
CertBlockInfo(hashBlock) == BlockInfo(hashBlock)

GetRawTransaction(hash, fVerbose) ==
    CASE hash = Invalid -> Throw("parameter 1 must be hexadecimal string")
      [] GetTransactionSlow(hash) = None ->
            Throw("No information available about transaction")
      [] ~fVerbose      -> Ok(hash)
      [] OTHER          -> Ok([hex |-> hash] @@ BlockInfo(GetTransactionSlow(hash)))

GetRawCertificate(hash, fVerbose) ==
    CASE hash = Invalid -> Throw("parameter 1 must be hexadecimal string")
      [] GetTransactionSlow(hash) = None ->
            Throw("No information available about certificate")
      [] ~fVerbose      -> Ok(hash)
      [] OTHER          -> Ok([hex |-> hash] @@ CertBlockInfo(GetTransactionSlow(hash)))

-----------------------------------------------------------------------------
(* The node's handlers as steps.                                           *)

Reply(rpc, req, out) ==
    [rpc |-> rpc, req |-> req, error |-> out.error, result |-> out.result]

\* A caller asks for a proof when it has room to keep one.
gettxoutproof(txids, blockhash) ==
    /\ reply = Idle
    /\ Cardinality(wire) < MaxWire
    /\ reply' = Reply("gettxoutproof", [txids |-> txids, blockhash |-> blockhash],
                      GetTxOutProof(txids, blockhash))
    /\ UNCHANGED <<chain, wire>>

verifytxoutproof(proof) ==
    /\ reply = Idle
    /\ reply' = Reply("verifytxoutproof", proof, VerifyTxOutProof(proof))
    /\ UNCHANGED <<chain, wire>>

\* A lookup reads nothing of the proofs, and the chain is in each of its
\* states with no proof held: the callers who look up hold none.
Looked(rpc, hash, fVerbose, out) ==
    /\ reply = Idle
    /\ wire = {}
    /\ reply' = Reply(rpc, [hash |-> hash, verbose |-> fVerbose], out)
    /\ UNCHANGED <<chain, wire>>

getrawtransaction(hash, fVerbose) ==
    Looked("getrawtransaction", hash, fVerbose, GetRawTransaction(hash, fVerbose))

getrawcertificate(hash, fVerbose) ==
    Looked("getrawcertificate", hash, fVerbose, GetRawCertificate(hash, fVerbose))

\* The first statement of every handler: a call for help, and a call with
\* a number of parameters the handler does not take, is answered with the
\* usage, and the reply says which call it was.  The other actions of a
\* handler are its calls that pass this statement.  Callers try up to
\* MaxParams parameters, one more than any handler takes.  The reply is the
\* same whatever the chain and the proofs are; as for a lookup, the callers
\* who are answered with the usage are those who hold no proof.
MaxParams == 3

\* The calls the dispatcher makes of a handler: the one of "help", with
\* fHelp and no parameter, and those of a caller, with its parameters.
Calls == {[fHelp |-> TRUE, size |-> 0]} \cup [fHelp : {FALSE}, size : 0..MaxParams]

IsUsage(r) == r.error = "usage"

Usage(rpc, sizes) ==
    /\ reply = Idle
    /\ wire = {}
    /\ \E call \in Calls :
          /\ call.fHelp \/ call.size \notin sizes
          /\ reply' = Reply(rpc, call, Throw("usage"))
    /\ UNCHANGED <<chain, wire>>

getrawtransactionUsage == Usage("getrawtransaction", 1..2)
getrawcertificateUsage == Usage("getrawcertificate", 1..2)
gettxoutproofUsage     == Usage("gettxoutproof", 1..2)
verifytxoutproofUsage  == Usage("verifytxoutproof", {1})

-----------------------------------------------------------------------------
(* The callers, and those who alter a proof on its way.                    *)

Held == {w.proof : w \in wire}

\* The caller takes the reply, and keeps a proof it does not hold while it
\* has room.
TakeReply ==
    /\ reply # Idle
    /\ reply' = Idle
    /\ wire' = IF /\ reply.rpc = "gettxoutproof"
                  /\ reply.error = None
                  /\ reply.result \notin Held
                  /\ Cardinality(wire) < MaxWire
               THEN wire \cup {[proof |-> reply.result, edits |-> 0]}
               ELSE wire
    /\ UNCHANGED chain

Forget(w) ==
    /\ reply = Idle
    /\ wire' = wire \ {w}
    /\ UNCHANGED <<chain, reply>>

\* The headers a proof may be given: those of the blocks, and headers the
\* node has never seen, which commit to what their maker likes.
Headers ==
    {Header(b) : b \in AllBlocks}
        \cup {[hash |-> Unknown, hashMerkleRoot |-> Header(b).hashMerkleRoot] :
                 b \in AllBlocks}

\* A proof with one thing changed: another header, another leaf count, a
\* bit flipped, a hash replaced, dropped or added.
Altered(p) ==
    (   {[p EXCEPT !.header = h] : h \in Headers}
   \cup {[p EXCEPT !.nTransactions = n] : n \in 0..(MaxBlockTxs + 1)}
   \cup {[p EXCEPT !.vBits[i] = ~@] : i \in DOMAIN p.vBits}
   \cup {[p EXCEPT !.vHash[i] = h] : i \in DOMAIN p.vHash, h \in ForgedHashes}
   \cup {[p EXCEPT !.vHash = Append(@, h)] : h \in ForgedHashes}
   \cup {[p EXCEPT !.vHash = SubSeq(@, 1, Len(@) - 1)]}  ) \ {p}

Alter(w, q) ==
    /\ reply = Idle
    /\ w.edits < MaxEdits
    /\ q \notin Held
    /\ wire' = (wire \ {w}) \cup {[proof |-> q, edits |-> w.edits + 1]}
    /\ UNCHANGED <<chain, reply>>

-----------------------------------------------------------------------------
(* The chain.                                                              *)

\* A header arrives ahead of its block.
ReceiveHeader(b) ==
    /\ reply = Idle
    /\ b \notin mapBlockIndex
    /\ BlockPrev[b] \in mapBlockIndex
    /\ mapBlockIndex' = mapBlockIndex \cup {b}
    /\ UNCHANGED <<onDisk, chainActive, txindex, fTxIndex, mempool, wire, reply>>

\* A block built on the tip is connected: its entities leave the mempool and
\* the index, if kept, points to it.
ConnectBlock(b) ==
    /\ reply = Idle
    /\ BlockPrev[b] = Tip
    /\ mapBlockIndex' = mapBlockIndex \cup {b}
    /\ onDisk' = onDisk \cup {b}
    /\ chainActive' = Append(chainActive, b)
    /\ txindex' = IF fTxIndex
                  THEN [t \in ToSet(BlockTxs[b]) |-> b] @@ txindex
                  ELSE txindex
    /\ mempool' = mempool \ ToSet(BlockTxs[b])
    /\ UNCHANGED <<fTxIndex, wire, reply>>

\* The tip is disconnected: its entities, but for the coinbase, return to
\* the mempool; the block stays known and the index stays as it is.
DisconnectTip ==
    /\ reply = Idle
    /\ Len(chainActive) > 1
    /\ chainActive' = SubSeq(chainActive, 1, Len(chainActive) - 1)
    /\ mempool' = mempool \cup ToSet(Tail(BlockTxs[Tip]))
    /\ UNCHANGED <<mapBlockIndex, onDisk, txindex, fTxIndex, wire, reply>>

\* An entity expires in the mempool, or is evicted from it.
Expire(t) ==
    /\ reply = Idle
    /\ t \in mempool
    /\ mempool' = mempool \ {t}
    /\ UNCHANGED <<mapBlockIndex, onDisk, chainActive, txindex, fTxIndex, wire, reply>>

-----------------------------------------------------------------------------

Init ==
    /\ \E first \in {b \in AllBlocks : BlockPrev[b] = None} :
           /\ mapBlockIndex = {first}
           /\ onDisk = {first}
           /\ chainActive = <<first>>
    /\ txindex = << >>
    /\ fTxIndex \in BOOLEAN
    /\ mempool = {}
    /\ wire = {}
    /\ reply = Idle

Next ==
    \/ \E txids \in TxidArgs, blockhash \in BlockArgs : gettxoutproof(txids, blockhash)
    \/ \E proof \in Held \cup {Invalid} : verifytxoutproof(proof)
    \/ \E hash \in HashArgs, fVerbose \in BOOLEAN : getrawtransaction(hash, fVerbose)
    \/ \E hash \in HashArgs, fVerbose \in BOOLEAN : getrawcertificate(hash, fVerbose)
    \/ getrawtransactionUsage
    \/ getrawcertificateUsage
    \/ gettxoutproofUsage
    \/ verifytxoutproofUsage
    \/ TakeReply
    \/ \E w \in wire : Forget(w)
    \/ \E w \in wire : \E q \in Altered(w.proof) : Alter(w, q)
    \/ \E b \in AllBlocks : ReceiveHeader(b)
    \/ \E b \in AllBlocks : ConnectBlock(b)
    \/ DisconnectTip
    \/ \E t \in mempool : Expire(t)

Spec == Init /\ [][Next]_vars

-----------------------------------------------------------------------------
(* Properties.                                                             *)

Lookups == {"getrawtransaction", "getrawcertificate"}

\* The shape of the state.  A proof that gettxoutproof returns is of a
\* block whose entities the node has (ReadBlockFromDisk, lines 519-520;
\* "blockhash" may name a block of which the node has the header only), and
\* a proof as it left the node has no more hashes than its block has
\* entities.
TypeOK ==
    /\ mapBlockIndex \subseteq AllBlocks
    /\ onDisk \subseteq mapBlockIndex
    /\ Active \subseteq onDisk
    /\ DOMAIN txindex \subseteq UNION {ToSet(BlockTxs[b]) : b \in AllBlocks}
    /\ \A w \in wire :
          /\ w.edits \in 0..MaxEdits
          /\ w.proof.header \in Headers
          /\ w.edits = 0 => Len(w.proof.vHash) <= w.proof.nTransactions
    /\ Cardinality(Held) = Cardinality(wire) /\ Cardinality(wire) <= MaxWire
    /\ reply # Idle =>
          /\ reply.rpc \in {"gettxoutproof", "verifytxoutproof"} \cup Lookups
          /\ reply.rpc = "gettxoutproof" /\ reply.error = None =>
                reply.result.header.hash \in onDisk

Answered(rpc) == reply # Idle /\ reply.rpc = rpc /\ reply.error = None

\* The ids of block b that are in T, in the order of the block.
Matched(b, T) == SelectSeq(BlockTxs[b], LAMBDA t : t \in T)

\* A proof that gettxoutproof built for ids T of block b, and that nobody
\* altered, is answered by verifytxoutproof (lines 549-566) with exactly T
\* in the order of the block while b is in the best chain, however the chain
\* moved since the proof was built, and with "Block not found in chain"
\* once b has left it.
HonestProofVerifies ==
    reply # Idle /\ reply.rpc = "verifytxoutproof" /\ reply.req # Invalid =>
        \A b \in AllBlocks : \A T \in SUBSET ToSet(BlockTxs[b]) :
            reply.req = MerkleBlock(b, T) =>
                IF b \in Active
                THEN reply.error = None /\ reply.result = Matched(b, T)
                ELSE reply.error = "Block not found in chain"

\* However a proof was altered, if it still says how many entities its
\* block has, the ids verifytxoutproof returns (line 565) are entities of
\* that block, each once and in the order of the block.
RightSizedProofIsSound ==
    Answered("verifytxoutproof") /\ reply.result # << >> =>
        LET b == reply.req.header.hash
        IN  reply.req.nTransactions = Len(BlockTxs[b]) =>
                \E T \in SUBSET ToSet(BlockTxs[b]) : reply.result = Matched(b, T)

\* verifytxoutproof never succeeds on tampered input: the ids it returns are
\* entities of the block the proof names (help text of verifytxoutproof,
\* lines 541-546: "returning the transaction it commits to").
VerifiedIdsAreInBlock ==
    Answered("verifytxoutproof") /\ reply.result # << >> =>
        ToSet(reply.result) \subseteq ToSet(BlockTxs[reply.req.header.hash])

\* gettxoutproof without a block hash works "when there is an unspent
\* output in the utxo for this transaction", and "always" with the index
\* (help text, lines 461-464): if the ids asked for are different ids of
\* one block of the best chain, a proof is returned when the last of them
\* has an output left, the block being found through the coins (lines
\* 504-505), and when the node keeps the index, the block being found
\* through it once the coins are spent (lines 508-516), whatever was
\* connected and disconnected before.
ProofWhenPromised ==
    (/\ reply # Idle
     /\ reply.rpc = "gettxoutproof"
     /\ ~IsUsage(reply)
     /\ reply.req.blockhash = None) =>
        LET txids == reply.req.txids
        IN  /\ txids # << >>
            /\ TxidError(txids) = None
            /\ \E b \in Active :
                  /\ b # chainActive[1]
                  /\ ToSet(txids) \subseteq ToSet(BlockTxs[b])
            /\ fTxIndex \/ \A b \in Active : Last(txids) \notin BlockSpends[b]
            => reply.error = None

\* A verbose getrawtransaction or getrawcertificate (lines 361-364 and
\* 448-451) tells the truth about the best chain as it is at the call,
\* whatever was connected, disconnected and indexed before: an entity of a
\* block of the best chain is shown with that block and with the number of
\* blocks from it to the tip, and any other entity with no confirmations
\* or with 0.  The index is as its last connection left it, and an entity
\* may be in two blocks that were both connected.
ConfirmationsAreDepth ==
    reply # Idle /\ reply.rpc \in Lookups /\ reply.error = None /\ reply.req.verbose =>
        LET shown == reply.result
            held  == {i \in DOMAIN chainActive :
                         reply.req.hash \in ToSet(BlockTxs[chainActive[i]])}
        IN  IF held = {}
            THEN shown.confirmations \in {None, 0}
            ELSE \A i \in held :
                    /\ shown.blockhash = chainActive[i]
                    /\ shown.confirmations = Len(chainActive) - i + 1

\* The lookups work "when the tx is in the mempool or there is at least one
\* unspent output in the utxo for this transaction", and always with the
\* index (help text, lines 256-260 and 372-376): an id of the mempool, an id
\* of a block of the best chain above the first whose last output no block
\* of the best chain spends, and with the index any id of such a block, is
\* answered and not refused (lines 354-355 and 441-442).
LookupWorksWhenPromised ==
    reply # Idle /\ reply.rpc \in Lookups /\ ~IsUsage(reply) =>
        LET hash  == reply.req.hash
            above == {i \in 2..Len(chainActive) :
                         hash \in ToSet(BlockTxs[chainActive[i]])}
        IN  \/ hash \in mempool
            \/ above # {} /\ (fTxIndex \/ \A b \in Active : hash \notin BlockSpends[b])
            => reply.error = None

=============================================================================
