----------------------------- MODULE WalletKeys ------------------------------
(***************************************************************************)
(* What the wallet derives from a mnemonic and a password, and the         *)
(* envelope it keeps the mnemonic in: bip39.rs, keys.rs, address.rs and    *)
(* the first half of api/wallet.rs.  Hashes, ciphers and curve arithmetic  *)
(* are free constructors: a value is the record of what it was computed    *)
(* from, so that two are equal exactly if everything that entered is.      *)
(***************************************************************************)
EXTENDS Naturals

Error == [error |-> TRUE]

(* The text of a mnemonic: its words, how many, whether the last one holds *)
(* the checksum of the others, and whether the words stand apart by single *)
(* spaces.                                                                 *)
Phrase(words, count, checked, spaces) ==
  [words |-> words, count |-> count, checked |-> checked, spaces |-> spaces]

(* generate_mnemonic, entropy_to_mnemonic *)
GenerateMnemonic(entropy, count) ==
  IF count \in {12, 15, 18, 21, 24}
  THEN Phrase(entropy, count, TRUE, "single") ELSE Error

(* validate_mnemonic splits at any white space. *)
ValidMnemonic(p) == p.count \in {12, 15, 18, 21, 24} /\ p.checked

(* mnemonic_to_seed takes the text as it is. *)
MnemonicToSeed(p, passphrase) == [text |-> p, passphrase |-> passphrase]

(* pq_transform_password *)
PqTransform(password) == [transformed |-> password]

(* derive_bip44: view and spend key of a path. *)
DeriveBip44(seed, account, change, index) ==
  LET path == <<44, 868, account, change, index>>
  IN  [view |-> [seed |-> seed, path |-> path, twist |-> "view"],
       spend |-> [seed |-> seed, path |-> path, twist |-> "spend"]]

(* HyphenAddress::encode; the checksum is over version and keys. *)
Encode(keys, mainnet) ==
  LET body == [version |-> IF mainnet THEN 1 ELSE 2,
               view |-> keys.view, spend |-> keys.spend]
  IN  [body |-> body, checksum |-> body]

(* HyphenAddress::decode *)
Decode(address) ==
  IF address.body.version \in {1, 2} /\ address.checksum = address.body
  THEN address.body ELSE Error

(* derive_key and get_default_address. *)
DeriveKey(seed, account, change, index, mainnet) ==
  LET keys == DeriveBip44(seed, account, change, index)
  IN  [address |-> Encode(keys, mainnet), signing |-> keys.spend]
DefaultAddress(seed, mainnet) == DeriveKey(seed, 0, 0, 0, mainnet).address

(* restore_wallet *)
RestoreWallet(p, passphrase) ==
  IF ValidMnemonic(p)
  THEN LET seed == MnemonicToSeed(p, passphrase)
       IN  [mnemonic |-> p, seed |-> seed,
            main |-> DefaultAddress(seed, TRUE), test |-> DefaultAddress(seed, FALSE)]
  ELSE Error
-----------------------------------------------------------------------------
Header(salt) ==
  [magic |-> "HYWLT001", format |-> <<1, 1, 1, 0>>, kdf |-> <<65536, 3, 1>>,
   salt |-> salt]

(* encrypt_wallet: sealed under password and salt, the header bound to it. *)
EncryptWallet(p, password, salt) ==
  [header |-> Header(salt),
   sealed |-> [kind |-> "aead", password |-> password, salt |-> salt,
               aad |-> Header(salt), msg |-> p]]

(* Mutant: the header is not bound to the text. *)
HeaderUnbound(env, password) ==
  IF env.sealed.password = password THEN env.sealed.msg ELSE Error

(* decrypt_current_wallet *)
DecryptCurrent(env, password) ==
  IF /\ env.header.format = <<1, 1, 1, 0>> /\ env.header.kdf = <<65536, 3, 1>>
     /\ env.sealed.kind = "aead"
     /\ env.sealed.password = password /\ env.sealed.salt = env.header.salt
     /\ env.sealed.aad = env.header
  THEN env.sealed.msg ELSE Error

(* decrypt_legacy_wallet: salt, keyed hash of the rest, and the rest.  It  *)
(* is also what an envelope without the magic is taken for.                *)
DecryptLegacy(env, password) ==
  IF /\ env.sealed.kind = "xof"
     /\ env.sealed.password = password /\ env.sealed.salt = env.header.salt
  THEN env.sealed.msg ELSE Error

(* decrypt_wallet *)
DecryptWallet(env, password) ==
  IF env.header.magic = "HYWLT001"
  THEN DecryptCurrent(env, password) ELSE DecryptLegacy(env, password)

(* A historical envelope, which only decrypt_wallet still knows. *)
LegacyEnvelope(p, password, salt) ==
  [header |-> [Header(salt) EXCEPT !.magic = "none"],
   sealed |-> [kind |-> "xof", password |-> password, salt |-> salt,
               aad |-> Header(salt), msg |-> p]]

(* An envelope with its header or its text changed in one place (external). *)
Damaged(env) ==
  {[env EXCEPT !.header.magic = IF @ = "none" THEN "HYWLT001" ELSE "none"],
   [env EXCEPT !.header.salt = "other"], [env EXCEPT !.sealed.kind = "noise"]}
  \cup (IF env.header.magic = "none" THEN {}
        ELSE {[env EXCEPT !.header.format = <<1, 1, 2, 0>>],
              [env EXCEPT !.header.kdf = <<1, 1, 1>>]})
=============================================================================
