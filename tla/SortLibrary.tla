---------------------------- MODULE SortLibrary ----------------------------
(***************************************************************************)
(* The schema and the comparators of a2/library.cc and a2/library.h: where *)
(* the attributes of a fixed-length record are, and how two records are    *)
(* compared by the sorting attributes.                                     *)
(*                                                                         *)
(* A record is the sequence of its bytes, in ASCII; an attribute has a     *)
(* fixed number of them and one more byte, the separator, follows it.      *)
(***************************************************************************)
EXTENDS Integers, Sequences, SequencesExt

CONSTANTS json_value,           \* the attributes in the schema file: name, type and length
          sorting_attributes    \* the names given on the command line

set_schema(attr) ==
  [name |-> attr.name, length |-> attr.length,
   type |-> CASE attr.type = "integer" -> "INT"
              [] attr.type = "float" -> "FLOAT"
              [] attr.type = "string" -> "STRING"]
attrs == [i \in DOMAIN json_value |-> set_schema(json_value[i])]

\* Another name, and msort exits before it opens a file.
ASSUME NamesFound ==
  \A i \in DOMAIN sorting_attributes : \E j \in DOMAIN attrs : attrs[j].name = sorting_attributes[i]

\* set_schema_sort_attr: the first attribute of each name
sort_attrs ==
  [i \in DOMAIN sorting_attributes |->
     CHOOSE j \in DOMAIN attrs :
       /\ attrs[j].name = sorting_attributes[i]
       /\ \A l \in 1 .. j - 1 : attrs[l].name # sorting_attributes[i]]

\* The loops of main over the attributes
data_offset ==
  [i \in 1 .. Len(attrs) + 1 |-> FoldLeft(LAMBDA sum, a : sum + a.length + 1, 0, SubSeq(attrs, 1, i - 1))]
schema_record_size == data_offset[Len(attrs) + 1]

get_attr(i, data) == SubSeq(data, data_offset[i] + 1, Len(data))

\* The comparators end the i-th attribute they copy at the length of attribute i
\* of the schema, not of the attribute they compare.  If that is longer they read
\* bytes that nothing has written, and what they return is not determined.
ASSUME BytesWritten == \A i \in DOMAIN sort_attrs : attrs[i].length <= attrs[sort_attrs[i]].length

\* char lhs_attr[40], rhs_attr[40]
ASSUME AttributesFit == \A i \in DOMAIN sort_attrs : attrs[sort_attrs[i]].length <= 40 /\ attrs[i].length < 40

Attr(i, data) == SubSeq(get_attr(sort_attrs[i], data), 1, attrs[i].length)

-----------------------------------------------------------------------------
IsDigit(byte) == byte \in 48 .. 57
IsSpace(byte) == byte = 32 \/ byte \in 9 .. 13

\* Blanks, a sign, digits and, for atof, a point and more digits: the number is
\* value / scale.  An exponent and the rounding of a float are left out.
Scan(s, point) ==
  LET Take(a, byte) ==
        CASE a.at = "blanks" /\ IsSpace(byte) -> a
          [] a.at = "blanks" /\ byte \in {43, 45} -> [a EXCEPT !.at = "digits", !.sign = 44 - byte]
          [] a.at \in {"blanks", "digits"} /\ IsDigit(byte) ->
               [a EXCEPT !.at = "digits", !.value = 10 * @ + byte - 48]
          [] a.at = "fraction" /\ IsDigit(byte) ->
               [a EXCEPT !.value = 10 * @ + byte - 48, !.scale = 10 * @]
          [] a.at \in {"blanks", "digits"} /\ byte = 46 /\ point -> [a EXCEPT !.at = "fraction"]
          [] OTHER -> [a EXCEPT !.at = "end"]
      end == FoldLeft(Take, [at |-> "blanks", sign |-> 1, value |-> 0, scale |-> 1], s)
  IN  [value |-> end.sign * end.value, scale |-> end.scale]

atoi(s) == Scan(s, FALSE).value
atof(s) == Scan(s, TRUE)

int_cmp(lhs, rhs) == atoi(lhs) - atoi(rhs)
float_cmp(lhs, rhs) ==
  LET l == atof(lhs).value * atof(rhs).scale
      r == atof(rhs).value * atof(lhs).scale
  IN  CASE l > r -> 1 [] l < r -> -1 [] OTHER -> 0

\* strcmp: the first bytes that differ; the terminator is less than any byte.
string_cmp(lhs, rhs) ==
  LET At(s, i) == IF i <= Len(s) THEN s[i] ELSE 0
      differ == {i \in 1 .. Len(lhs) + Len(rhs) : At(lhs, i) # At(rhs, i)}
      first == CHOOSE i \in differ : \A j \in differ : i <= j
  IN  IF differ = {} THEN 0 ELSE At(lhs, first) - At(rhs, first)

\* RecordComparator's cmp_fns
cmp_fn(type, lhs, rhs) ==
  CASE type = "INT" -> int_cmp(lhs, rhs)
    [] type = "FLOAT" -> float_cmp(lhs, rhs)
    [] type = "STRING" -> string_cmp(lhs, rhs)

\* qsort_cmp: the first sorting attribute in which the records differ decides.
qsort_cmp(lhs, rhs) ==
  LET cmp(i) == cmp_fn(attrs[sort_attrs[i]].type, Attr(i, lhs), Attr(i, rhs))
      differ == {i \in DOMAIN sort_attrs : cmp(i) # 0}
  IN  IF differ = {} THEN 0 ELSE cmp(CHOOSE i \in differ : \A j \in differ : i <= j)

=============================================================================
