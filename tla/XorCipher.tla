----------------------------- MODULE XorCipher ------------------------------
(* cipher.cpp: a key and the words made of it. encrypt takes the words by     *)
(* position, decrypt the bytes of the key in turn.                            *)
EXTENDS RecordStream, Words

CONSTANTS Ciphers,             \* the cipher objects of a program
          CipherKeys,          \* byte strings offered as keys
          CIPHER_MIN_KEY_LEN,
          CIPHER_MAX_KEY_LEN,
          Garbage              \* byte strings of four that may lie behind a key's words

ASSUME CipherAssumption ==
  /\ CipherKeys \subseteq Seq(0..255)
  /\ Garbage \subseteq [1..4 -> 0..255]
  /\ CIPHER_MIN_KEY_LEN \in Nat \ {0} /\ CIPHER_MAX_KEY_LEN \in Nat

VARIABLES keys,                \* cipher -> its key_, <<>> for none
          origin               \* history: cipher -> the key its key was copied or moved from

cipherVars == <<keys, origin>>

\* The derived words are those of the key, so a cipher is its key.
CipherTypeOK ==
  \A c \in Ciphers : keys[c] = <<>> \/ Len(keys[c]) \in CIPHER_MIN_KEY_LEN..CIPHER_MAX_KEY_LEN

CipherInit == keys = [c \in Ciphers |-> <<>>] /\ origin = keys

\* A key that is too short or too long is refused and the old one stays.
SetKey(c, key) ==
  /\ Len(key) \in CIPHER_MIN_KEY_LEN..CIPHER_MAX_KEY_LEN
  /\ keys' = [keys EXCEPT ![c] = key]
  /\ origin' = [origin EXCEPT ![c] = key]

\* The assignment of a cipher to itself changes nothing.
CopyCipher(c, from) ==
  /\ keys' = [keys EXCEPT ![c] = keys[from]]
  /\ origin' = [origin EXCEPT ![c] = origin[from]]

MoveCipher(c, from) ==
  /\ c # from
  /\ keys' = [keys EXCEPT ![c] = keys[from], ![from] = <<>>]
  /\ origin' = [origin EXCEPT ![c] = origin[from], ![from] = <<>>]

CipherNext ==
  \E c \in Ciphers :
    \/ \E key \in CipherKeys : SetKey(c, key)
    \/ \E from \in Ciphers : CopyCipher(c, from) \/ MoveCipher(c, from)

-----------------------------------------------------------------------------
XorByte(a, b) == Number(Xor(ByteBits(a), ByteBits(b)))

\* Number of derived words; the last one is filled up with zeros.
DerivedLen(key) == (Len(key) + 3) \div 4

\* A plausible mistake: each word is filled from its other end.
DerivedByte_Reversed(key, behind, p) ==
  LET q == 4 * (p \div 4) + 3 - (p % 4)
  IN IF q < Len(key) THEN key[q + 1]
     ELSE IF q < 4 * DerivedLen(key) THEN 0 ELSE behind[1 + (q % 4)]

\* The byte of the derived words at a position, counted from 0: past them lies anything.
DerivedByte(key, behind, p) ==
  IF p < Len(key) THEN key[p + 1]
  ELSE IF p < 4 * DerivedLen(key) THEN 0 ELSE behind[1 + (p % 4)]

\* Whole words by position; the bytes that are left start again at the front of the key.
Encrypt(key, input, behind) ==
  IF key = <<>> THEN input
  ELSE LET whole == 4 * (Len(input) \div 4)
       IN [i \in DOMAIN input |->
             XorByte(input[i], IF i <= whole THEN DerivedByte(key, behind, i - 1)
                                             ELSE key[1 + ((i - 1 - whole) % Len(key))])]

\* Block by block, the key going on where the last block left it.
Decrypt(key, input) ==
  IF key = <<>> THEN input
  ELSE [i \in DOMAIN input |-> XorByte(input[i], key[1 + ((i - 1) % Len(key))])]

\* round_key[i] = key[i] ^ round * (i + 1), zeros behind the key.
derive_round_key(key, round, key_len) ==
  [i \in 1..key_len |-> IF i <= Len(key) THEN XorByte(key[i], (round * i) % 256) ELSE 0]

-----------------------------------------------------------------------------
(* Properties *)

\* What one cipher encrypts every cipher with the same key decrypts, wherever copies and moves have
\* taken the key (cipher.cpp:26-90, 138-193): for an input no longer than the key and of whole words,
\* or of less than one word. Longer inputs are encrypted with what lies behind the derived words.
Matched(key, n) == n < 4 \/ (n % 4 = 0 /\ n <= Len(key))
MatchedInputsReturn(Inputs) ==
  \A c, d \in Ciphers, input \in Inputs, behind \in Garbage :
    origin[c] = origin[d] /\ (keys[c] = <<>> \/ Matched(keys[c], Len(input)))
      => Decrypt(keys[d], Encrypt(keys[c], input, behind)) = input
=============================================================================
