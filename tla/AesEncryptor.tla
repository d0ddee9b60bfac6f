---------------------------- MODULE AesEncryptor ----------------------------
(***************************************************************************)
(* aesEncryptor (crypto/aes.go), the Encryptor that NewEncryptor returns   *)
(* for every EncryptorType.                                                *)
(*  - Encrypt copies the key into a zeroed 32-byte buffer, so a longer key *)
(*    is truncated and a shorter one zero-padded.  It draws a random       *)
(*    nonce, seals with AES-GCM and base64-encodes nonce || ciphertext.    *)
(*  - Decrypt normalises the key the same way, base64-decodes, rejects a   *)
(*    buffer shorter than the nonce, splits off the nonce and opens.  The  *)
(*    error of gcm.Open is dropped.                                        *)
(* aes.NewCipher and cipher.NewGCM cannot fail on a 32-byte key, so those  *)
(* error branches are unreachable and left out.  AES-GCM is taken as       *)
(* ideal: Open succeeds exactly when the key and nonce are the sealing     *)
(* ones and the bytes are unchanged.  Texts are kept at rest (a token, a   *)
(* cookie), where their bytes may be altered before they come back to      *)
(* Decrypt.                                                                *)
(***************************************************************************)
EXTENDS Naturals, Sequences

CONSTANTS
  Keys,        \* keys callers pass: byte sequences
  KeyLen,      \* bytes of an AES-256 key (32), scaled down
  Plains,      \* plaintexts callers encrypt; "" is the empty string
  MaxNonces,   \* bound on the nonces drawn
  Junk,        \* a text that is not base64
  Short        \* base64 of fewer bytes than a nonce

ASSUME "" \in Plains /\ KeyLen \in Nat \ {0} /\ MaxNonces \in Nat

\* copy(validKey, key) into make([]byte, 32)
Normalise(k) == [i \in 1..KeyLen |-> IF i <= Len(k) THEN k[i] ELSE 0]

\* A sealed text: the nonce, the key Encrypt was called with and the
\* plaintext, and whether its bytes are still the ones Encrypt returned
Sealed == [nonce : 1..MaxNonces, key : Keys, plain : Plains, intact : BOOLEAN]

VARIABLES
  nonces,      \* nonces drawn so far (crypto/rand gives fresh ones)
  texts,       \* texts Encrypt returned, and their altered copies
  last         \* what the latest call returned

vars == <<nonces, texts, last>>

NoResult == [op |-> "none", out |-> "", err |-> "none", text |-> Junk, key |-> <<>>]

TypeOK ==
  /\ nonces \in 0..MaxNonces
  /\ texts \subseteq Sealed
  /\ last.op \in {"none", "Encrypt", "Decrypt"}
  /\ last.out \in Plains \cup {"sealed"}
  /\ last.err \in {"none", "rand", "base64", "_ErrInvalidNonceSize"}

Init ==
  /\ nonces = 0
  /\ texts = {}
  /\ last = NoResult

\* aesEncryptor.Encrypt: seal text under the normalised key with a fresh nonce
Encrypt(p, k) ==
  /\ nonces < MaxNonces
  /\ nonces' = nonces + 1
  /\ texts' = texts \cup {[nonce |-> nonces + 1, key |-> k, plain |-> p, intact |-> TRUE]}
  /\ last' = [op |-> "Encrypt", out |-> "sealed", err |-> "none", text |-> Junk, key |-> k]

\* io.ReadFull(rand.Reader, nonce) fails: "" and the error
EncryptFails(p, k) ==
  /\ last' = [op |-> "Encrypt", out |-> "", err |-> "rand", text |-> Junk, key |-> k]
  /\ UNCHANGED <<nonces, texts>>

\* The stored text's bytes change (nonce, ciphertext or tag)
Alter(t) ==
  /\ t.intact
  /\ texts' = texts \cup {[t EXCEPT !.intact = FALSE]}
  /\ UNCHANGED <<nonces, last>>

\* gcm.Open: the plaintext when key, nonce and bytes are the sealing ones
Opens(t, k) == t.intact /\ Normalise(t.key) = Normalise(k)

\* A Decrypt without the length check: slicing buf[:nonceSize] of a short
\* buffer panics
DecryptWithoutLengthCheck(t, k) ==
  /\ last' = CASE t = Junk  -> [op |-> "Decrypt", out |-> "", err |-> "base64", text |-> t, key |-> k]
               [] t = Short -> [op |-> "Decrypt", out |-> "", err |-> "panic", text |-> t, key |-> k]
               [] OTHER     -> [op |-> "Decrypt", out |-> IF Opens(t, k) THEN t.plain ELSE "",
                                err |-> "none", text |-> t, key |-> k]
  /\ UNCHANGED <<nonces, texts>>

\* aesEncryptor.Decrypt: base64 decode, nonce length check, then Open with
\* its error dropped, so a text that does not open gives "" and no error
Decrypt(t, k) ==
  /\ last' = CASE t = Junk  -> [op |-> "Decrypt", out |-> "", err |-> "base64", text |-> t, key |-> k]
               [] t = Short -> [op |-> "Decrypt", out |-> "", err |-> "_ErrInvalidNonceSize", text |-> t, key |-> k]
               [] OTHER     -> [op |-> "Decrypt", out |-> IF Opens(t, k) THEN t.plain ELSE "",
                                err |-> "none", text |-> t, key |-> k]
  /\ UNCHANGED <<nonces, texts>>

Next ==
  \/ \E p \in Plains, k \in Keys : Encrypt(p, k) \/ EncryptFails(p, k)
  \/ \E t \in texts : Alter(t)
  \/ \E t \in texts \cup {Junk, Short}, k \in Keys : Decrypt(t, k)

Spec == Init /\ [][Next]_vars

-----------------------------------------------------------------------------
(* Properties *)

DecryptedOk == last.op = "Decrypt" /\ last.err = "none"

\* "A successful Decrypt returns decrypted text and err == nil": Decrypt
\* returns no error only for an unaltered text and the key that sealed it.
DecryptAuthenticates ==
  DecryptedOk => last.text \in Sealed /\ Opens(last.text, last.key)

=============================================================================
