---------------------------- MODULE RecordFormat ----------------------------
(***************************************************************************)
(* Records of a1/record.cpp: a line of a CSV file, the attributes it is    *)
(* split into, and the bytes of a slot.  A character is a number; an       *)
(* attribute is a string, without its terminating zero.                    *)
(***************************************************************************)
EXTENDS Integers, Sequences
LOCAL INSTANCE SequencesExt
LOCAL INSTANCE FiniteSetsExt

CONSTANTS
  ATTRIBUTE_SIZE,  \* 10: the bytes of an attribute
  NUM_ATTR         \* 100: the attributes of a record

NUL == 0
Comma == 44
Digit0 == 48
Digit(c) == c \in Digit0 .. Digit0 + 9

\* The first n characters of a string (strncpy into n bytes and a terminator).
Cut(s, n) == SubSeq(s, 1, Min({n, Len(s)}))

\* strncpy pads with zeros; the string in a buffer ends at the first of them.
Padded(s) == [i \in 1 .. ATTRIBUTE_SIZE |-> IF i <= Len(s) THEN s[i] ELSE NUL]
StringIn(bytes) == SubSeq(bytes, 1, Min({i - 1 : i \in {j \in DOMAIN bytes : bytes[j] = NUL}}
                                        \cup {Len(bytes)}))

fixed_len_write(record) == FlattenSeq([a \in DOMAIN record |-> Padded(record[a])])

\* The first n attributes of a slot
fixed_len_read(bytes, n) ==
  [a \in 1 .. n |-> StringIn(SubSeq(bytes, (a - 1) * ATTRIBUTE_SIZE + 1, a * ATTRIBUTE_SIZE))]

\* strtok(line, ","): the longest runs of characters that are not commas
Tokens(line) ==
  LET inside == {i \in DOMAIN line : line[i] # Comma}
      starts == {i \in inside : i - 1 \notin inside}
      end(i) == CHOOSE j \in inside : /\ j + 1 \notin inside
                                      /\ i .. j \subseteq inside
  IN  [k \in 1 .. Cardinality(starts) |->
         LET i == SetToSortSeq(starts, <)[k] IN SubSeq(line, i, end(i))]

\* The assert of load_csv_record
WellFormed(line) == Len(Tokens(line)) = NUM_ATTR

load_csv_record(line) ==
  LET tokens == Tokens(line) IN [a \in DOMAIN tokens |-> Cut(tokens[a], ATTRIBUTE_SIZE)]

\* tupId is not filled in: what the new buffer held becomes the tuple id.
load_col_record(token, garbage) == <<Cut(garbage, ATTRIBUTE_SIZE), Cut(token, ATTRIBUTE_SIZE)>>

\* strcmp(s, t) <= 0
AtMost(s, t) ==
  LET differ == {i \in 1 .. Min({Len(s), Len(t)}) : s[i] # t[i]}
  IN  IF differ = {} THEN Len(s) <= Len(t) ELSE s[Min(differ)] < t[Min(differ)]

\* The number that the digits at the front of a string make
atoi(s) ==
  LET value[n \in 0 .. Len(s)] ==
        IF n = 0 \/ \E i \in 1 .. n : ~ Digit(s[i]) THEN 0
        ELSE 10 * value[n - 1] + s[n] - Digit0
      digits == Max({n \in 0 .. Len(s) : \A i \in 1 .. n : Digit(s[i])})
  IN  value[digits]

=============================================================================
