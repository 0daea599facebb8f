------------------------------ MODULE Bencode ------------------------------
(***************************************************************************)
(* The text in which torrent files and the files of a bundle are written:  *)
(* Bencode::Reader with its workers, SerializationVisitor and Path.  A     *)
(* text is a sequence of symbols; a word that the program never takes      *)
(* apart (a key, a name, the hash of a piece) is one symbol, so sizes are  *)
(* counted in symbols.                                                     *)
(***************************************************************************)
EXTENDS Integers, Sequences, SequencesExt, TLC

CONSTANTS
    Bytes,      \* the symbols, in the order in which std::map sorts them
    Width,      \* bits of an integer: 64 in the code
    MaxDigits,  \* characters that the buffer takes: 19 in the code
    MaxString   \* symbols of the longest string that is read: 36 MB in the code

\* What fits the buffer cannot wrap around, it can only reach the sign bit.
ASSUME WidthAssumption ==
    /\ Width \in 2..30 /\ MaxDigits \in Nat \ {0}
    /\ 10^MaxDigits <= 2^Width
    /\ MaxString \in Nat

Integer(n)    == [integer |-> n]
String(s)     == [string |-> s]
List(l)       == [list |-> l]
Dictionary(d) == [dictionary |-> d]

\* Any::get, without the exception.
Is(kind, object) == kind \in DOMAIN object

Digits == <<"0", "1", "2", "3", "4", "5", "6", "7", "8", "9">>
DigitValue == [c \in ToSet(Digits) |-> (CHOOSE i \in DOMAIN Digits : Digits[i] = c) - 1]

Rank == [c \in ToSet(Bytes) |-> CHOOSE i \in DOMAIN Bytes : Bytes[i] = c]
Before(s, t) ==
    \E n \in 1..Len(t) : /\ IF n > Len(s) THEN TRUE ELSE Rank[s[n]] < Rank[t[n]]
                         /\ \A i \in 1..n-1 : i <= Len(s) => s[i] = t[i]
                         /\ n <= Len(s) + 1

----------------------------------------------------------------------------
\* SerializationVisitor.

Decimal(n) ==
    LET digits[m \in 0..n] == IF m < 10 THEN <<Digits[m + 1]>>
                              ELSE digits[m \div 10] \o <<Digits[(m % 10) + 1]>>
    IN  digits[n]
Number(n) == IF n < 0 THEN <<"-">> \o Decimal(-n) ELSE Decimal(n)

Word(s) == Decimal(Len(s)) \o <<":">> \o s

RECURSIVE Serialize(_)
Serialize(object) ==
    LET Entry(key) == Word(key) \o Serialize(object.dictionary[key])
    IN  CASE Is("integer", object) -> <<"i">> \o Number(object.integer) \o <<"e">>
          [] Is("string", object)  -> Word(object.string)
          [] Is("list", object)    ->
                <<"l">> \o FlattenSeq([i \in DOMAIN object.list |-> Serialize(object.list[i])])
                        \o <<"e">>
          [] OTHER ->
                LET keys == SetToSortSeq(DOMAIN object.dictionary, Before)
                IN  <<"d">> \o FlattenSeq([i \in DOMAIN keys |-> Entry(keys[i])]) \o <<"e">>

----------------------------------------------------------------------------
\* The workers.

Nothing == [found |-> FALSE]
Found(value, next) == [found |-> TRUE, value |-> value, next |-> next]

\* The number of the digits between the sign and the last one, none if it does not fit.
ValueOf(buffer, sign, used) ==
    LET value[i \in sign..used] ==
            IF i = sign THEN 0 ELSE (value[i - 1] * 10 + DigitValue[buffer[i]]) % 2^Width
    IN  IF (\E i \in sign..used : value[i] >= 2^(Width - 1)) \/ (sign = 1 /\ used = 1)
        THEN [value |-> 0, used |-> 0]
        ELSE [value |-> IF sign = 1 THEN -value[used] ELSE value[used], used |-> used]

\* IntegerWorker::extractInteger: the number at the beginning of the buffer and how
\* many characters it takes, none when there is none.
ExtractInteger(buffer) ==
    LET sign == IF buffer # <<>> /\ buffer[1] = "-" THEN 1 ELSE 0
        digits == {n \in sign..Len(buffer) : \A i \in sign+1..n : buffer[i] \in ToSet(Digits)}
    IN  ValueOf(buffer, sign, Max(digits))

\* Mutant: as many symbols as there are.
Unbounded(text, i, delimiter) ==
    LET ends == {n \in i+1..Len(text) :
                    text[n] = delimiter /\ \A m \in i..n-1 : text[m] # delimiter}
    IN  IF ends = {} THEN <<>> ELSE SubSeq(text, i, (CHOOSE n \in ends : TRUE) - 1)

\* istream::get: the symbols from i up to the delimiter, at least one and no more
\* than the buffer takes; the delimiter has to follow.
Buffer(text, i, delimiter) ==
    LET ends == {n \in i+1..i+MaxDigits :
                    /\ n <= Len(text) /\ text[n] = delimiter
                    /\ \A m \in i..n-1 : text[m] # delimiter}
    IN  IF ends = {} THEN <<>> ELSE SubSeq(text, i, (CHOOSE n \in ends : TRUE) - 1)

\* IntegerWorker::process; what follows the digits is not looked at.
IntegerAt(text, i) ==
    LET buffer == Buffer(text, i + 1, "e")
        number == ExtractInteger(buffer)
    IN  IF buffer = <<>> \/ number.used = 0 THEN Nothing
        ELSE Found(Integer(number.value), i + Len(buffer) + 2)

\* StringWorker: matches() does not let a size begin with a zero, which leaves out
\* the empty string.
StringMatches(text, i) == i <= Len(text) /\ text[i] \in ToSet(Digits) \ {"0"}
Sized(text, i, prelude, size) ==
    LET first == i + Len(prelude) + 1
    IN  IF \/ prelude = <<>> \/ size.used # Len(prelude) \/ size.value > MaxString
           \/ first + size.value - 1 > Len(text)
        THEN Nothing
        ELSE Found(String(SubSeq(text, first, first + size.value - 1)), first + size.value)
StringAt(text, i) ==
    LET prelude == Buffer(text, i, ":") IN Sized(text, i, prelude, ExtractInteger(prelude))

\* ListWorker and DictionaryWorker: an element in front of the ones after it.  The
\* last one of two equal keys stays.
Joined(what, key, value, rest) ==
    IF ~rest.found THEN Nothing
    ELSE Found(IF what = "list" THEN List(<<value.value>> \o rest.value.list)
               ELSE Dictionary(rest.value.dictionary @@ (key.value.string :> value.value)),
               rest.next)

\* WorkerChain::extractObject and what its workers do.
ObjectAt(text, first) ==
    LET Peek(i) == IF i <= Len(text) THEN text[i] ELSE "end"
        at[what \in {"object", "list", "dictionary"}, i \in 1..Len(text)+1] ==
            LET key   == IF StringMatches(text, i) THEN StringAt(text, i) ELSE Nothing
                value == IF what = "list" THEN at["object", i]
                         ELSE IF key.found THEN at["object", key.next] ELSE Nothing
                rest  == IF value.found THEN at[what, value.next] ELSE Nothing
            IN  CASE what = "object" /\ StringMatches(text, i) -> StringAt(text, i)
                  [] what = "object" /\ Peek(i) = "i" -> IntegerAt(text, i)
                  [] what = "object" /\ Peek(i) = "d" -> at["dictionary", i + 1]
                  [] what = "object" /\ Peek(i) = "l" -> at["list", i + 1]
                  [] what = "list" /\ Peek(i) = "e" -> Found(List(<<>>), i + 1)
                  [] what = "dictionary" /\ Peek(i) = "e" -> Found(Dictionary(<<>>), i + 1)
                  [] what # "object" /\ Peek(i) # "e" -> Joined(what, key, value, rest)
                  [] OTHER -> Nothing
    IN  at["object", first]

\* Reader::parse: what follows the object is not looked at.
Parse(text) == ObjectAt(text, 1)

----------------------------------------------------------------------------
\* Path: a way through nested dictionaries; resolve() gives what is there.

NoObject == [none |-> TRUE]
Path(object, keys) ==
    FoldLeft(LAMBDA here, key :
                IF Is("dictionary", here) /\ key \in DOMAIN here.dictionary
                THEN here.dictionary[key] ELSE NoObject,
             object, keys)
Exists(object, keys) == Path(object, keys) # NoObject
Resolves(object, keys, kind) == Is(kind, Path(object, keys))
Optional(object, keys, kind) == Exists(object, keys) => Resolves(object, keys, kind)
=============================================================================
