----------------------------- MODULE MFibonacci -----------------------------
(***************************************************************************)
(* fibonacci and sfibonacci of mutil.c.  The numbers are uint64_t, taken   *)
(* modulo UInt64; sfibonacci keeps its place in static variables, which    *)
(* all the callers of a program share.                                     *)
(***************************************************************************)
EXTENDS Integers

CONSTANTS
    UInt64,    \* 2^64
    MaxCount   \* bound: calls of sfibonacci since the last reset

ASSUME FibonacciConstants == UInt64 \in Nat /\ MaxCount \in Nat /\ MaxCount < UInt64

VARIABLES first, second, count,   \* static
          out                     \* what the last call returned

fibonacciVars == <<first, second, count, out>>

FibonacciInit == first = 0 /\ second = 1 /\ count = 0 /\ out = 0

fibonacci[n \in 0 .. MaxCount] ==
    IF n < 1 THEN 0
    ELSE IF n = 1 THEN 1
    ELSE (fibonacci[n - 1] + fibonacci[n - 2]) % UInt64

\* Mutant: the reset leaves the two numbers alone.
Statics_CountOnly(reset) ==
    [first |-> first, second |-> second, count |-> IF reset THEN 0 ELSE count]

\* The static variables after the test of reset.
Statics(reset) ==
    IF reset THEN [first |-> 0, second |-> 1, count |-> 0]
             ELSE [first |-> first, second |-> second, count |-> count]

sfibonacci(reset) ==
    LET s == Statics(reset)
        sum == (s.first + s.second) % UInt64
    IN  /\ s.count < MaxCount
        /\ count' = s.count + 1
        /\ IF s.count < 2
           THEN out' = s.count /\ first' = s.first /\ second' = s.second
           ELSE out' = sum /\ first' = s.second /\ second' = sum

FibonacciNext == \E reset \in BOOLEAN : sfibonacci(reset)

FibonacciSpec == FibonacciInit /\ [][FibonacciNext]_fibonacciVars

-----------------------------------------------------------------------------
\* The k-th call of sfibonacci since the last reset, whoever reset it and however
\* far it had come, returns fibonacci(k - 1), modulo 2^64 like fibonacci itself.
FibIsSequence == count > 0 => out = fibonacci[count - 1]
=============================================================================
