--------------------------- MODULE MCAesEncryptor ---------------------------
(* AesEncryptor with 2-byte keys standing for 32-byte ones: a short key   *)
(* that is zero-padded, exact keys, and a long key that is truncated.     *)
EXTENDS AesEncryptor

MCKeys == {<<1>>, <<1, 0>>, <<1, 1>>, <<1, 1, 0>>}
=============================================================================
