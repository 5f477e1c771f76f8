------------------------------ MODULE MCrypto ------------------------------
(***************************************************************************)
(* encrypt_ssl, decrypt_ssl and digest_sha1 of mutil.c: which of the two   *)
(* blocks they allocate, the context and the output, are still there when  *)
(* they return, whatever fails on the way, and how much of the output they *)
(* write.  OpenSSL is external: a cipher has a block size, 1 for the modes *)
(* that need no padding, such as the default EVP_aes_256_cfb8(), and what  *)
(* it computes is left out.  The functions share a variable for their      *)
(* progress, as they do not call each other.  The allocation of a cipher   *)
(* context is not checked by the code, and always succeeds here.           *)
(***************************************************************************)
EXTENDS Integers

CONSTANTS
    BlockSizes,
    MaxPlain      \* bound: input_size

ASSUME CryptoConstants == BlockSizes \subseteq Nat \ {0} /\ MaxPlain \in Nat

Ciphers == {"encrypt_ssl", "decrypt_ssl"}

VARIABLES
    fn,          \* the function that runs, or "none"
    step,        \* where it is, or "returned"
    block,       \* the cipher's block size
    text_size,   \* the argument input_size
    done,        \* octets of the input that Update has been given
    written,     \* octets of the output
    live,        \* of "ctx" and "out", what is allocated
    result       \* "out" or "NULL"

cryptoVars == <<fn, step, block, text_size, done, written, live, result>>

CryptoInit ==
    /\ fn = "none" /\ step = "idle" /\ block = 1 /\ text_size = 0
    /\ done = 0 /\ written = 0 /\ live = {} /\ result = "NULL"

\* What Update has written after n octets: whole blocks, and the decoder keeps the
\* last one back, as there may be padding in it.
Produced(n) ==
    IF block = 1 THEN n
    ELSE IF fn = "encrypt_ssl" THEN n - (n % block)
    ELSE IF n = 0 THEN 0 ELSE (n - 1) - ((n - 1) % block)

\* What Final may add: the padded block, or what is left of it without padding;
\* the decoder refuses an input that is not made of blocks.
FinalLengths ==
    IF block = 1 THEN {0}
    ELSE IF fn = "encrypt_ssl" THEN {block}
    ELSE IF text_size > 0 /\ text_size % block = 0 THEN 0 .. block - 1 ELSE {}

-----------------------------------------------------------------------------
\* encrypt_ssl and decrypt_ssl.
CryptBegin(f, b, n) ==
    /\ fn = "none"
    /\ fn' = f /\ step' = "update" /\ block' = b /\ text_size' = n
    /\ live' = {"out", "ctx"}
    /\ UNCHANGED <<done, written, result>>

CryptUpdate ==
    /\ fn \in Ciphers /\ step = "update" /\ done < text_size
    /\ done' = done + 1
    /\ written' = Produced(done + 1)
    /\ UNCHANGED <<fn, step, block, text_size, live, result>>

\* EVP_EncryptUpdate, EVP_EncryptFinal or their counterparts return 0.
CryptFails ==
    /\ fn \in Ciphers /\ step = "update"
    /\ live' = live \ {"out"}
    /\ result' = "NULL"
    /\ step' = "returned"
    /\ UNCHANGED <<fn, block, text_size, done, written>>

\* Mutant: the buffer is sized for the input and its terminator.
CryptAllocated_Input == text_size + 1

\* The size of the output.
CryptAllocated == text_size * 2

CryptFinal ==
    /\ fn \in Ciphers /\ step = "update" /\ done = text_size
    /\ \E outlen \in FinalLengths : written' = written + outlen
    /\ live' = live \ {"ctx"}
    /\ result' = "out"
    /\ step' = "returned"
    /\ UNCHANGED <<fn, block, text_size, done>>

-----------------------------------------------------------------------------
\* digest_sha1.  step is the call it makes next; each may fail.
DigestNext == [new |-> "init", init |-> "update", update |-> "malloc", malloc |-> "final"]

DigestBegin ==
    /\ fn = "none"
    /\ fn' = "digest_sha1" /\ step' = "new"
    /\ UNCHANGED <<block, text_size, done, written, live, result>>

DigestStep ==
    /\ fn = "digest_sha1" /\ step \in DOMAIN DigestNext
    /\ step' = DigestNext[step]
    /\ live' = CASE step = "new" -> live \cup {"ctx"}
                 [] step = "malloc" -> live \cup {"out"}
                 [] OTHER -> live
    /\ UNCHANGED <<fn, block, text_size, done, written, result>>

\* Mutant: it returns without the label CLEANUP.
DigestFails_Return ==
    /\ fn = "digest_sha1" /\ step \in DOMAIN DigestNext
    /\ step' = "returned" /\ result' = "NULL"
    /\ UNCHANGED <<fn, block, text_size, done, written, live>>

\* goto CLEANUP before there is a digest.
DigestFails ==
    /\ fn = "digest_sha1" /\ step \in DOMAIN DigestNext
    /\ step' = "returned" /\ result' = "NULL"
    /\ live' = live \ {"ctx"}
    /\ UNCHANGED <<fn, block, text_size, done, written>>

DigestFinal ==
    /\ fn = "digest_sha1" /\ step = "final"
    /\ step' = "returned" /\ result' = "out"
    /\ written' = 20
    /\ live' = live \ {"ctx"}
    /\ UNCHANGED <<fn, block, text_size, done>>

\* The digest is freed, and returned.
DigestFinalFails ==
    /\ fn = "digest_sha1" /\ step = "final"
    /\ step' = "returned" /\ result' = "out"
    /\ live' = live \ {"out", "ctx"}
    /\ UNCHANGED <<fn, block, text_size, done, written>>

-----------------------------------------------------------------------------
\* The caller has the result; what is still live is its, or lost.
CryptoReturned ==
    /\ step = "returned"
    /\ fn' = "none" /\ step' = "idle" /\ block' = 1 /\ text_size' = 0
    /\ done' = 0 /\ written' = 0 /\ live' = {} /\ result' = "NULL"

CryptoNext ==
    \/ \E f \in Ciphers, b \in BlockSizes, n \in 0 .. MaxPlain : CryptBegin(f, b, n)
    \/ CryptUpdate \/ CryptFails \/ CryptFinal
    \/ DigestBegin \/ DigestStep \/ DigestFails \/ DigestFinal \/ DigestFinalFails
    \/ CryptoReturned

CryptoSpec == CryptoInit /\ [][CryptoNext]_cryptoVars

-----------------------------------------------------------------------------
\* Whichever call fails: a function that returns NULL keeps no output, one that has
\* computed its output leaves it to the caller and nothing else, and
\* digest_sha1 always frees its context.
CryptOwns ==
    step = "returned" =>
        /\ result = "NULL" => "out" \notin live
        /\ result = "out" /\ written > 0 => live = {"out"}
        /\ fn = "digest_sha1" => "ctx" \notin live

\* "how much do we need? Initially aim for input*2 to be safe" (mutil.c): that is
\* enough, with the terminator, for an input longer than a block, and for any but
\* the empty one if the cipher needs no padding.
CryptFits ==
    fn \in Ciphers /\ result = "out" /\ text_size > (IF block = 1 THEN 0 ELSE block) =>
        written < CryptAllocated
=============================================================================
