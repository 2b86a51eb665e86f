---------------------------- MODULE HybridSignature ----------------------------
(***************************************************************************)
(* From a secret to an accepted transaction: the byte-level signer core,   *)
(* its Python and browser bindings, the polkadot-js signer built on them   *)
(* and the runtime's verification of the envelope (crates/transaction-     *)
(* crypto*, js/quip-signer).                                               *)
(*                                                                         *)
(* Bytes are kept where a rule is about them: the length of a string, and  *)
(* the signature's length byte, Falcon part and padding.  A key, a digest  *)
(* or an account id is the term it is computed from.  Hex is its decoded   *)
(* bytes, or ill formed.  Left out: result ids, error texts, zeroizing,    *)
(* fee estimation with a fake signature and the injection into a page.     *)
(***************************************************************************)
EXTENDS Integers, Sequences, SequencesExt, Results

CONSTANTS
  MAX_UNHASHED_PAYLOAD_LEN,    \* 256, in the signer and in SignedPayload
  MaxDelta,                    \* 255, the largest length byte
  MIN_FALCON512_SIG_LEN        \* bytes of the Falcon part when the length byte is 0

MASTER_SEED_LEN == 32
ACCOUNT_ID_LEN == 32
TailLen == MIN_FALCON512_SIG_LEN + MaxDelta  \* a signature array after the length byte

Bytes(len, value) == [wellformed |-> TRUE, len |-> len, value |-> value]

-----------------------------------------------------------------------------
(* External: H4 of pqhybridsign, blake2, BIP39 and substrate. *)

blake2_256(bytes) == Bytes(32, <<"digest", bytes.value>>)
seed_from_entropy(words, password) == Bytes(MASTER_SEED_LEN, <<"pbkdf2", words, password>>)
keypair_from_seed(seed) == <<"public", seed.value>>

\* A deterministic signature: who signed what, its length byte, that many bytes more than
\* the minimum.  Its last byte may be zero like the padding that follows.
sign_deterministic(public, message) ==
  LET delta == message.len % (MaxDelta + 1)
      last == IF message.len > 32 THEN 1 ELSE 0
  IN  [by |-> <<public, message.value, message.len>>, delta |-> delta,
       tail |-> [i \in 1..(MIN_FALCON512_SIG_LEN + delta) |->
                   IF i = MIN_FALCON512_SIG_LEN + delta THEN last ELSE 1]]
composite_verify(public, message, wire) == wire = sign_deterministic(public, message)

\* HybridPair::verify of the runtime.  Whether it looks at the padding as the signer's core
\* does is decided outside this repository, so it is assumed not to.
HybridPairVerify(signature, message, public) ==
  composite_verify(public, message,
    [signature EXCEPT !.tail = SubSeq(@, 1, MIN_FALCON512_SIG_LEN + signature.delta)])

\* SignedPayload::using_encoded
using_encoded(data) ==
  IF data.len > MAX_UNHASHED_PAYLOAD_LEN THEN blake2_256(data) ELSE data

-----------------------------------------------------------------------------
(* transaction-crypto-core *)

exact_array(bytes, n) == IF bytes.len = n THEN Ok(bytes) ELSE Err("InvalidLength")

account_id_from_public_bytes(public) == Bytes(ACCOUNT_ID_LEN, <<"id", public>>)

public_key_from_seed(seed) ==
  IF exact_array(seed, MASTER_SEED_LEN).ok THEN Ok(keypair_from_seed(seed)) ELSE Err("InvalidLength")

\* Mutant: the padding is not looked at.
validate_signature_padding_Length(signature) == Ok(MIN_FALCON512_SIG_LEN + signature.delta)

\* The bytes of the tail the length byte claims; the rest must be zero.
validate_signature_padding(signature) ==
  LET wire_len == MIN_FALCON512_SIG_LEN + signature.delta
  IN  IF \E i \in (wire_len + 1)..TailLen : signature.tail[i] # 0
      THEN Err("InvalidLength") ELSE Ok(wire_len)

NewEnvelope(public, signature) ==
  IF validate_signature_padding(signature).ok
  THEN Ok([public |-> public, signature |-> signature]) ELSE Err("InvalidLength")

\* HybridTxSignatureBytes::verify
VerifyBytes(envelope, message) ==
  LET padding == validate_signature_padding(envelope.signature)
  IN  /\ padding.ok
      /\ composite_verify(envelope.public, message,
           [envelope.signature EXCEPT !.tail = SubSeq(@, 1, padding.value)])

\* SCALE: two fixed arrays.  Decoding stops after them, whatever follows.
encode_envelope(envelope) == [wellformed |-> TRUE, extra |-> 0, value |-> envelope]
decode_envelope(bytes) ==
  IF bytes.extra < 0 THEN Err("InvalidLength")
  ELSE NewEnvelope(bytes.value.public, bytes.value.signature)

sign_payload_from_seed(seed, payload) ==
  IF ~exact_array(seed, MASTER_SEED_LEN).ok THEN Err("InvalidLength")
  ELSE LET public == keypair_from_seed(seed)
           wire == sign_deterministic(public, payload)
       IN  NewEnvelope(public, [wire EXCEPT !.tail =
             [i \in 1..TailLen |-> IF i <= Len(wire.tail) THEN wire.tail[i] ELSE 0]])

\* A secret URI: its phrase (hex digits or words), junctions and password.

\* A junction after hex digits spoils the seed; the password of a hex seed is unused.
master_seed_from_secret_uri(uri) ==
  IF uri.hex
  THEN IF uri.valid /\ uri.path = "" THEN Ok(Bytes(MASTER_SEED_LEN, uri.phrase))
       ELSE Err("InvalidSeed")
  ELSE IF uri.path # "" THEN Err("UnsupportedDerivationPath")
  ELSE IF ~uri.valid THEN Err("InvalidMnemonic")
  ELSE Ok(seed_from_entropy(uri.phrase, uri.password))

-----------------------------------------------------------------------------
(* The runtime: HybridTxSignature::verify on what SignedPayload encodes *)

verify(envelope, message, signer) ==
  /\ account_id_from_public_bytes(envelope.public) = signer
  /\ HybridPairVerify(envelope.signature, message, envelope.public)

\* The bindings' verify_envelope; the browser's insists on the account's length.
verify_envelope(payload, bytes, account_id) ==
  LET envelope == decode_envelope(bytes)
  IN  IF ~envelope.ok THEN envelope
      ELSE Ok(/\ account_id_from_public_bytes(envelope.value.public) = account_id
              /\ VerifyBytes(envelope.value, payload))
verify_envelope_impl(payload, bytes, account_id) ==
  IF ~(payload.wellformed /\ bytes.wellformed /\ account_id.wellformed) THEN Err("hex")
  ELSE IF account_id.len # ACCOUNT_ID_LEN THEN Err("accountId")
  ELSE verify_envelope(payload, bytes, account_id)

\* Python: HybridSigner::from_seed and sign, the payload as given.
HybridSignerSign(seed, payload) ==
  IF ~public_key_from_seed(seed).ok THEN public_key_from_seed(seed)
  ELSE LET envelope == sign_payload_from_seed(seed, payload)
       IN  IF envelope.ok THEN Ok(encode_envelope(envelope.value)) ELSE envelope
HybridSignerFromMnemonic(uri, payload) ==
  LET seed == master_seed_from_secret_uri(uri)
  IN  IF seed.ok THEN HybridSignerSign(seed.value, payload) ELSE seed

-----------------------------------------------------------------------------
(* js/quip-signer over the browser binding *)

decodeHex(hex, len) == hex.wellformed /\ hex.len = len

\* DevSeedProvider: seeds by account id, whatever prefix an address is written with.
importSeed(seeds, seed) ==
  IF ~decodeHex(seed, MASTER_SEED_LEN) THEN Err("seed")
  ELSE LET id == account_id_from_public_bytes(public_key_from_seed(seed).value)
       IN  Ok([i \in DOMAIN seeds \cup {id} |-> IF i = id THEN seed ELSE seeds[i]])
importMnemonic(seeds, uri) ==
  LET seed == master_seed_from_secret_uri(uri)
  IN  IF seed.ok THEN importSeed(seeds, seed.value) ELSE seed

\* One bad phrase and there is no provider.
fromMnemonics(uris) ==
  FoldLeft(LAMBDA seeds, uri : IF seeds.ok THEN importMnemonic(seeds.value, uri) ELSE seeds,
           Ok([i \in {} |-> i]), uris)

accountIdFromAddress(address) ==
  IF address.checksum /\ address.account.len = ACCOUNT_ID_LEN THEN Ok(address.account)
  ELSE Err("address")

\* What the supplied crypto module signs: this repository's, or one that signs with another
\* seed, another message or leaves bytes in the padding.
SignWith(module, seed, payload) ==
  LET signed == CASE module = "other seed" -> sign_payload_from_seed(Bytes(MASTER_SEED_LEN, <<"other">>), payload)
                  [] module = "other message" -> sign_payload_from_seed(seed, blake2_256(payload))
                  [] OTHER -> sign_payload_from_seed(seed, payload)
  IN  IF module = "padding" /\ signed.value.signature.delta < MaxDelta
      THEN encode_envelope([signed.value EXCEPT !.signature.tail[TailLen] = 1])
      ELSE IF module = "short" THEN [encode_envelope(signed.value) EXCEPT !.extra = -1]
      ELSE encode_envelope(signed.value)

providerSignPayload(seeds, module, address, payload) ==
  LET id == accountIdFromAddress(address)
  IN  IF ~id.ok THEN id
      ELSE IF ~payload.wellformed THEN Err("hex")
      ELSE IF id.value \notin DOMAIN seeds THEN Err("No Quip seed registered")
      ELSE LET bytes == SignWith(module, seeds[id.value], payload)
           IN  IF bytes.extra # 0 THEN Err("length")
               ELSE LET valid == verify_envelope_impl(payload, bytes, id.value)
                    IN  IF ~valid.ok THEN valid
                        ELSE IF ~valid.value THEN Err("invalid signature envelope")
                        ELSE Ok(bytes)

messageToSign(data) ==
  IF data.len > MAX_UNHASHED_PAYLOAD_LEN THEN blake2_256(data) ELSE data

signRaw(seeds, module, address, data) ==
  IF ~accountIdFromAddress(address).ok THEN accountIdFromAddress(address)
  ELSE IF ~data.wellformed THEN Err("hex")
  ELSE LET signature == providerSignPayload(seeds, module, address, messageToSign(data))
       IN  IF signature.ok /\ signature.value.extra # 0 THEN Err("length") ELSE signature
=============================================================================
