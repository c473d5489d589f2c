---------------------------- MODULE ChainIdentity ----------------------------
(***************************************************************************)
(* chain_identity.rs: the networks the wallet knows by name, each pinned   *)
(* to a magic, a consensus-parameter hash and a genesis hash, and the      *)
(* protocol versions it speaks.  A hash is named by the network it is the  *)
(* hash of.                                                                *)
(***************************************************************************)
BLOCK_VERSION == 5
POUW_PROTOCOL_VERSION == 3

(* CHAIN_IDENTITIES: the magic of each network. *)
NetworkMagic ==
  [devnet |-> "HYDV", neural |-> "HYNN", testnet |-> "HYTS", mainnet |-> "HYPN"]

(* What a node claims about its chain in get_chain_info. *)
Identity(network, magic, params, genesis, block, pouw) ==
  [network |-> network, magic |-> magic, params |-> params,
   genesis |-> genesis, block |-> block, pouw |-> pouw]

(* The claim of an honest node of a known network. *)
Honest(network) ==
  Identity(network, NetworkMagic[network], network, network,
           BLOCK_VERSION, POUW_PROTOCOL_VERSION)

(* Mutant: the network is looked up by name alone. *)
VerifiedByName(c) == c.network \in DOMAIN NetworkMagic

(* verify *)
Verified(c) ==
  /\ c.block = BLOCK_VERSION /\ c.pouw = POUW_PROTOCOL_VERSION
  /\ c.network \in DOMAIN NetworkMagic
  /\ c.magic = NetworkMagic[c.network]
  /\ c.params = c.network /\ c.genesis = c.network

(* magic_is_mainnet, and the name test that picks the ring parameters. *)
MagicIsMainnet(c) == c.magic = "HYPN"
NamedMainnet(c) == c.network = "mainnet"
=============================================================================
