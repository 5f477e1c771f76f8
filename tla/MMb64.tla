------------------------------- MODULE MMb64 -------------------------------
(***************************************************************************)
(* The tool mb64: main of mb64.c, with mbase64.c.  It reads its input      *)
(* until the end, every time into the start of the buffer, and encodes as  *)
(* many octets of the buffer as it has read in all.  The kernel may return *)
(* less than was asked for, or fail.  What the buffer holds where nothing  *)
(* was read is indeterminate; all of it is one octet here.                 *)
(*                                                                         *)
(* -d only keeps the tool from encoding: the decoder is called for the     *)
(* comparison that -t asks for, and for nothing else.                      *)
(***************************************************************************)
EXTENDS MBase64, FiniteSets, SequencesExt

CONSTANTS
    BUFSIZE,
    InputOctets,    \* what the input files are made of
    MaxInput,       \* bound: length of an input file
    Indeterminate   \* what the buffer may hold at the start

ASSUME Mb64Constants ==
    /\ BUFSIZE \in Nat \ {0} /\ MaxInput \in Nat
    /\ InputOctets \subseteq Octets /\ Indeterminate \subseteq Octets

VARIABLES
    mb64,            \* "idle", "read", "done", "exited", or "undefined": outside the buffer
    encode, test,    \* the options
    input_file,      \* the octets of the input
    reads,           \* calls of read() that returned some of them
    read_error,      \* the last one failed
    buffer,
    input_size,      \* the sum of what read() returned
    b64string,       \* the line printed
    mismatch         \* "ERROR: sizes do not match" was printed

mb64Vars == <<mb64, encode, test, input_file, reads, read_error, buffer,
              input_size, b64string, mismatch>>

Mb64Init ==
    /\ mb64 = "idle"
    /\ encode = TRUE /\ test = FALSE
    /\ input_file = <<>> /\ reads = 0 /\ read_error = FALSE
    /\ buffer = [n \in 1 .. BUFSIZE |-> 0] /\ input_size = 0
    /\ b64string = <<>> /\ mismatch = FALSE

Mb64Main(enc, tst, contents, stack) ==
    /\ mb64 = "idle"
    /\ mb64' = "read"
    /\ encode' = enc /\ test' = tst
    /\ input_file' = contents
    /\ buffer' = [n \in 1 .. BUFSIZE |-> stack]
    /\ UNCHANGED <<reads, read_error, input_size, b64string, mismatch>>

-----------------------------------------------------------------------------
Unread == Len(input_file) - input_size

\* The buffer after a read of n octets.
Received(n) ==
    [k \in 1 .. BUFSIZE |-> IF k <= n THEN input_file[input_size + k] ELSE buffer[k]]

ReadSome ==
    /\ mb64 = "read"
    /\ \E n \in 1 .. BUFSIZE :
          /\ n <= Unread
          /\ buffer' = Received(n)
          /\ input_size' = input_size + n
    /\ reads' = reads + 1
    /\ UNCHANGED <<mb64, encode, test, input_file, read_error, b64string, mismatch>>

ReadEof ==
    /\ mb64 = "read" /\ Unread = 0
    /\ mb64' = "done"
    /\ UNCHANGED <<encode, test, input_file, reads, read_error, buffer, input_size, b64string, mismatch>>

\* The -1 is added like any other result.
ReadFails ==
    /\ mb64 = "read"
    /\ mb64' = "done"
    /\ read_error' = TRUE
    /\ input_size' = input_size - 1
    /\ UNCHANGED <<encode, test, input_file, reads, buffer, b64string, mismatch>>

Mb64Encode ==
    /\ mb64 = "done" /\ encode
    /\ IF input_size \in 0 .. BUFSIZE
       THEN /\ mb64' = "exited"
            /\ b64string' = mbase64_encode(SubSeq(buffer, 1, input_size))
            /\ mismatch' = (test /\ Len(mbase64_decode(b64string')) # input_size)
       ELSE mb64' = "undefined" /\ UNCHANGED <<b64string, mismatch>>
    /\ UNCHANGED <<encode, test, input_file, reads, read_error, buffer, input_size>>

Mb64NoEncode ==
    /\ mb64 = "done" /\ ~encode
    /\ mb64' = "exited"
    /\ UNCHANGED <<encode, test, input_file, reads, read_error, buffer, input_size, b64string, mismatch>>

\* The next run of the tool is another process.
Mb64Ended ==
    /\ mb64 \in {"exited", "undefined"}
    /\ mb64' = "idle"
    /\ encode' = TRUE /\ test' = FALSE
    /\ input_file' = <<>> /\ reads' = 0 /\ read_error' = FALSE
    /\ buffer' = [n \in 1 .. BUFSIZE |-> 0] /\ input_size' = 0
    /\ b64string' = <<>> /\ mismatch' = FALSE

Mb64Next ==
    \/ \E enc, tst \in BOOLEAN, contents \in BoundedSeq(InputOctets, MaxInput), stack \in Indeterminate :
          Mb64Main(enc, tst, contents, stack)
    \/ ReadSome \/ ReadEof \/ ReadFails
    \/ Mb64Encode \/ Mb64NoEncode
    \/ Mb64Ended

Mb64Spec == Mb64Init /\ [][Mb64Next]_mb64Vars

-----------------------------------------------------------------------------
\* An input that arrives in one read is encoded right: decoding the line gives the
\* input back, or all of it but the last octet after a read error.  With several reads
\* the line is that of other octets, but of as many, which is why -t never finds
\* the sizes different; and the buffer's end is overrun by longer inputs only,
\* if no read fails.
Mb64Encodes ==
    /\ mb64 = "exited" /\ encode =>
          /\ ~mismatch
          /\ Len(mbase64_decode(b64string)) = input_size
          /\ reads <= 1 => mbase64_decode(b64string) = SubSeq(input_file, 1, input_size)
          /\ ~read_error => input_size = Len(input_file)
    /\ mb64 = "undefined" => Len(input_file) > BUFSIZE \/ read_error
=============================================================================
