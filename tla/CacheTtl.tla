------------------------------ MODULE CacheTtl ------------------------------
(***************************************************************************)
(* For how many seconds a response may be kept: getCacheStrategy of        *)
(* workers/src/utils/cache.ts, and what its callers pass to it.            *)
(*                                                                         *)
(* A query has a method, a block it asks for ("number" with a height, or a *)
(* tag) and a form: "rpc" when the request carries an array of RPC params, *)
(* "action" when it carries an object of arguments.                        *)
(***************************************************************************)
EXTENDS Integers

Long == 2592000                       \* LONG_TERM_CACHE_TTL
Year == 31536000
Immutable == {"eth_getBlockByHash", "eth_getTransactionByHash", "eth_getTransactionReceipt"}
AccountState == {"eth_getBalance", "eth_call", "eth_getTransactionCount"}
Volatile == {"eth_blockNumber", "eth_gasPrice", "eth_estimateGas", "eth_feeHistory", "eth_blobBaseFee"}
Constant == {"net_version", "web3_clientVersion", "eth_chainId"}
BlockScoped == {"eth_getBlockByNumber", "eth_getStorageAt"}

EpochBlocks(chain) == CASE chain = 56 -> 200
                        [] chain = 137 -> 64
                        [] chain = 10 -> 16
                        [] OTHER -> 32

\* What the policy reads as the block: params[0] or params[2].  An object of
\* arguments has no such property.
BlockParam(query) == IF query.form = "rpc" THEN query.block ELSE "undefined"

\* Confirmations by the latest block, when that is known (neither undefined
\* nor 0).
Confirmations(query, latest) == latest - query.height

isFinalizedBlock(query, chain, latest) ==
  \/ BlockParam(query) = "finalized"
  \/ /\ BlockParam(query) = "number"
     /\ Confirmations(query, latest) >= EpochBlocks(chain)

\* The tiers.  With a known latest block, one that is an epoch deep is finalized
\* already, so that of the tiers by number only the last one is left.
getBlockParamTtl(query, chain, latest) ==
  CASE latest > 0 /\ isFinalizedBlock(query, chain, latest) -> Long
    [] BlockParam(query) \in {"latest", "pending"} -> 12
    [] OTHER -> 300

getCacheTtlByMethod(query, chain, latest) ==
  CASE query.method \in Immutable -> Year
    [] query.method \in BlockScoped -> getBlockParamTtl(query, chain, latest)
    [] query.method \in AccountState -> 30
    [] query.method \in Volatile -> 12
    [] query.method \in Constant -> 3600
    [] query.method = "eth_getLogs" -> 60
    [] OTHER -> 300

\* The block number that the callers pass as the latest one, or 0: the one in the
\* answer, if the method has one.  For a tag that is some block, 1 here.
Latest(query) ==
  CASE query.method = "eth_blockNumber" -> 1
    [] query.method = "eth_getBlockByNumber" ->
         (CASE query.block = "number" -> query.height
            [] query.block = "pending" -> 0
            [] OTHER -> 1)
    [] OTHER -> 0

\* executeAndRespond: the max-age of the response to a query, which is the
\* default of 300 when the method has none.
MaxAge(query, chain) ==
  LET ttl == getCacheTtlByMethod(query, chain, Latest(query))
  IN  IF ttl = 0 THEN 300 ELSE ttl
=============================================================================
