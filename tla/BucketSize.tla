-------------------------------- MODULE BucketSize --------------------------------
(***************************************************************************)
(* parseBucketSize (src/pkg/clients/s3/s3.go): the size parameter of a     *)
(* bucket class, a text, to a number of bytes.  A text is a sequence of    *)
(* characters.  Integers are int64 in the code; MaxInt64 and gib are       *)
(* constants because the real ones are beyond the integers of TLC.         *)
(***************************************************************************)
EXTENDS Integers, Sequences

CONSTANTS
    MaxInt64,    \* math.MaxInt64
    gib          \* bytes in a GiB

ASSUME Int64Assumption == MaxInt64 \in Nat \ {0} /\ gib \in Nat \ {0}

\* The value a 64-bit register holds after an operation with result x.
Int64(x) == ((x + MaxInt64 + 1) % (2 * (MaxInt64 + 1))) - (MaxInt64 + 1)

Digit == [x \in {"0", "1", "2", "3", "4", "5", "6", "7", "8", "9"} |->
            CASE x = "0" -> 0 [] x = "1" -> 1 [] x = "2" -> 2 [] x = "3" -> 3 [] x = "4" -> 4
              [] x = "5" -> 5 [] x = "6" -> 6 [] x = "7" -> 7 [] x = "8" -> 8 [] x = "9" -> 9]

\* strings.TrimSpace.
TrimSpace(s) ==
    LET ink == {i \in DOMAIN s : s[i] # " "}
    IN  IF ink = {} THEN <<>>
        ELSE SubSeq(s, CHOOSE i \in ink : \A j \in ink : i <= j,
                       CHOOSE i \in ink : \A j \in ink : j <= i)

\* The number that a non-empty sequence of digits stands for.
Value(s) ==
    LET upTo[i \in 0..Len(s)] == IF i = 0 THEN 0 ELSE 10 * upTo[i - 1] + Digit[s[i]]
    IN  upTo[Len(s)]

\* strconv.ParseInt as parseBucketSize uses it: 0 stands for a text that is not a
\* number, and for one that is out of range.
ParseInt(s) ==
    LET signed == s # <<>> /\ s[1] \in {"+", "-"}
        digits == IF signed THEN Tail(s) ELSE s
        n      == IF signed /\ s[1] = "-" THEN 0 - Value(digits) ELSE Value(digits)
    IN  IF digits = <<>> \/ \E i \in DOMAIN digits : digits[i] \notin DOMAIN Digit THEN 0
        ELSE IF n > MaxInt64 \/ n < 0 - MaxInt64 - 1 THEN 0
        ELSE n

\* The text without an explicit suffix "Gi", in either case.
CutSuffix(s) ==
    IF Len(s) >= 2 /\ s[Len(s) - 1] \in {"G", "g"} /\ s[Len(s)] \in {"I", "i"}
      THEN SubSeq(s, 1, Len(s) - 2) ELSE s

\* Mutant: a size that is too large is not refused.
parseBucketSizeUnchecked(raw) ==
    LET size == ParseInt(TrimSpace(CutSuffix(TrimSpace(raw))))
    IN  IF size > 0 THEN Int64(size * gib) ELSE 0

\* The size in bytes, 0 when the parameter is rejected.
parseBucketSize(raw) ==
    LET size == ParseInt(TrimSpace(CutSuffix(TrimSpace(raw))))
    IN  IF size \in 1..(MaxInt64 \div gib) THEN Int64(size * gib) ELSE 0

\* The digits of the text stand together, and size is the number of bytes in as
\* many GiB as they say.
SizeWritten(raw, size) ==
    \E i, j \in DOMAIN raw :
        /\ {k \in DOMAIN raw : raw[k] \in DOMAIN Digit} = i..j
        /\ size = Value(SubSeq(raw, i, j)) * gib

\* The sizes a bucket can have.
Size == {n * gib : n \in 1..(MaxInt64 \div gib)}
====
