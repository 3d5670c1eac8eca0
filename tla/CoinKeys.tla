------------------------------ MODULE CoinKeys ------------------------------
(***************************************************************************)
(* What the device computes from its key (src/src/key.c and the key part   *)
(* of src/src/crypto.c), together with the two parties it has to agree     *)
(* with: the sender who pays to the exported address, and the host that    *)
(* finds the coin and asks the device for its key image.                   *)
(*                                                                         *)
(* The hash is any function: salt chooses one.                             *)
(* Operators named X_Y are faulty variants of X, which no action uses.     *)
(***************************************************************************)
EXTENDS Curve

CONSTANTS
    Hash(_, _),     \* Hash(salt, bytes): the digest of a sequence of bytes
    Salts,          \* how many hash functions are tried
    KeyStrings,     \* private keys, reduced or not: an import is not reduced
    Randoms,        \* random scalars of a sender
    Indices         \* indices of a coin in its transaction

ASSUME CoinKeysAssumption ==
    /\ KeyStrings \subseteq Bytes32
    /\ Randoms \subseteq 1..(Order - 1) /\ Indices \subseteq Nat

VARIABLES
    salt,       \* which function the hash is
    stage,      \* "locked", "loaded", "exported", "paid", "imaged" or "derived"
    key,        \* G_crypto_state_t.key.key
    viewKey,    \* G_crypto_state_t.a
    address,    \* the exported payment address
    coin,       \* the coin on the chain, and the index in it
    secret,     \* the private key of the coin, as the device computed it
    result      \* what else it computed: the key image, or the public keys

coinVars == <<salt, stage, key, viewKey, address, coin, secret, result>>

Keccak(bytes) == Hash(salt, bytes)

-----------------------------------------------------------------------------
(* Functions of the device. *)

hash_to_scalar(raw) == reduce(Keccak(raw))

\* The tag "onetimeaddress" behind the key; one byte stands for it.
OneTimeAddress == <<1>>
gen_private_ota_key(k) == hash_to_scalar(k \o OneTimeAddress)

hash_to_ec(bytes) == ecmul_8(ge_fromfe_frombytes(Keccak(bytes)))
hash_to_point(P) == hash_to_ec(Keccak(P))

generate_key_image(P, x) == ecmul_k(hash_to_point(P), x)

\* Seven bits per byte, the lowest first; a set high bit says that more follow.
encode_varint(value) ==
    LET More == ByteValues \div 2
        v[n \in Nat] == IF n < More THEN <<n>> ELSE <<(n % More) + More>> \o v[n \div More]
    IN  v[value]

generate_key_derivation(P, s) == ecmul_8k(P, s)
derivation_to_scalar(drv, i) == reduce(Keccak(drv \o encode_varint(i)))
derive_secret_key(drv, i, priv) == addm(derivation_to_scalar(drv, i), priv)
derive_public_key_Raw(drv, i, pub) == ecadd(drv, pub)       \* fault: the derivation is not hashed
derive_public_key(drv, i, pub) == ecadd(ecmul_G(derivation_to_scalar(drv, i)), pub)
derive_subaddress_public_key(pub, drv, i) == ecsub(pub, ecmul_G(derivation_to_scalar(drv, i)))

-----------------------------------------------------------------------------
Nothing == [none |-> TRUE]

CoinInit ==
    /\ salt \in 0..(Salts - 1) /\ stage = "locked"
    /\ key = BigEndian(0) /\ viewKey = BigEndian(0)
    /\ address = Nothing /\ coin = Nothing /\ secret = BigEndian(0) /\ result = Nothing

\* incognito_gen_private_key reduces a digest, handleImportPrivate copies what it
\* gets; then incognito_init_crypto_state.
LoadKey ==
    /\ stage = "locked"
    /\ \E k \in KeyStrings : key' \in {k, reduce(k)}
    /\ viewKey' = reduce(Keccak(key'))
    /\ stage' = "loaded"
    /\ UNCHANGED <<salt, address, coin, secret, result>>

\* incognito_gen_public_spend_key, _view_key and _ota_key of handleGetAddress.
ExportAddress ==
    /\ stage = "loaded"
    /\ address' = [spend |-> ecmul_G(key), view |-> ecmul_G(viewKey),
                   ota |-> ecmul_G(gen_private_ota_key(key))]
    /\ stage' = "exported"
    /\ UNCHANGED <<salt, key, viewKey, coin, secret, result>>

\* A sender, who knows the address: the coin's public key hides the spend key
\* behind a hash of a secret shared with the owner of the address.
Coin(kind, r, i, shared) ==
    [kind |-> kind, index |-> i, random |-> Compress(Times(r, Generator)),
     pub |-> Compress(Plus(Times(Scalar(reduce(Keccak(shared))), Generator),
                           Decompress[address.spend]))]

\* The shared secret of this chain is the point r K; the other one is 8 r A.
Pay ==
    /\ stage = "exported"
    /\ \E r \in Randoms, i \in Indices :
        \/ coin' = Coin("ota", r, i, Compress(Times(r, Decompress[address.ota])) \o <<i>>)
        \/ coin' = Coin("view", r, i, Compress(Times(8 * r, Decompress[address.view]))
                                          \o encode_varint(i))
    /\ stage' = "paid"
    /\ UNCHANGED <<salt, key, viewKey, address, secret, result>>

\* extractCoinData of the host, which holds the exported OTA key.
kOTA == reduce(Keccak(Compress(Times(Scalar(gen_private_ota_key(key)), Decompress[coin.random]))
                      \o <<coin.index>>))

\* handleGenKeyImage, for the coin key and the public key the host sends.
GenKeyImage ==
    /\ stage = "paid" /\ coin.kind = "ota"
    /\ secret' = addm(kOTA, key)
    /\ result' = [image |-> generate_key_image(coin.pub, secret')]
    /\ stage' = "imaged"
    /\ UNCHANGED <<salt, key, viewKey, address, coin>>

\* The derivations the device has for coins of the other kind.
DeriveKeys ==
    /\ stage = "paid" /\ coin.kind = "view"
    /\ LET drv == generate_key_derivation(coin.random, viewKey)
       IN  /\ secret' = derive_secret_key(drv, coin.index, key)
           /\ result' = [pub |-> derive_public_key(drv, coin.index, address.spend),
                         spend |-> derive_subaddress_public_key(coin.pub, drv, coin.index)]
    /\ stage' = "derived"
    /\ UNCHANGED <<salt, key, viewKey, address, coin>>

CoinNext == LoadKey \/ ExportAddress \/ Pay \/ GenKeyImage \/ DeriveKeys

CoinSpec == CoinInit /\ [][CoinNext]_coinVars

-----------------------------------------------------------------------------
(* Properties. *)

\* Strings are strings, what was exported are points of the prime order, and
\* every scalar the device computed is below it.
CoinTypeOK ==
    /\ key \in Bytes32 /\ Scalar(viewKey) < Order /\ Scalar(secret) < Order
    /\ address # Nothing =>
        \A s \in {address.spend, address.view, address.ota} :
            Times(Order, Decompress[s]) = Neutral

\* The private key the device computes for a coin is the one of the coin's
\* public key: sender, host and device hash the same shared secret, and neither
\* byte order nor a key that was imported unreduced comes between them.
SecretOpensCoin ==
    stage \in {"imaged", "derived"} =>
        Times(Scalar(secret), Generator) = Decompress[coin.pub]

\* The key image is the coin's private key times eight times the point of the
\* map's definition, so it lies in the group of prime order, whatever the digest.
ImageOfCoin ==
    stage = "imaged" =>
        LET u == Scalar(Keccak(Keccak(coin.pub))) % Field
            image == Times(8 * Scalar(secret), ElligatorPoint(u))
        IN  result.image = Compress(image) /\ Times(Order, image) = Neutral

\* The point of a digest always exists: the map never divides by zero and ends
\* on the curve, whichever of its four roots it takes. (Its string alone would
\* not tell: it holds y and one bit of x.)
DigestHasPoint ==
    stage = "imaged" =>
        LET p == Projective(Keccak(Keccak(coin.pub)))
        IN  /\ p.z # 0
            /\ Point(p.x * Inv[p.z] % Field, p.y * Inv[p.z] % Field) \in Points

\* The public key derived for a coin is the coin's, and taking the derivation
\* off again leaves the spend key it was paid to.
DerivedKeysMatch ==
    stage = "derived" => result.pub = coin.pub /\ result.spend = address.spend
=============================================================================
