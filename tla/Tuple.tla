--------------------------------- MODULE Tuple ---------------------------------
(***************************************************************************)
(* tuple_t.c: tuples and patterns, the order in which they are compared,   *)
(* and the hash that sends them to a bucket of the hash table.             *)
(*                                                                         *)
(* A tuple is its three counters and the sequence of its elements (the     *)
(* linked list of the code); a pattern also has a condition per element.   *)
(* An integer is itself; a string is its place in strcmp's order.          *)
(***************************************************************************)
EXTENDS Integers, SequencesExt

CONSTANTS
  Values,       (* the integers and strings that occur                      *)
  MaxLen,       (* bound of the checked instance: elements per tuple        *)
  HashModulus,  (* 2^64 in the code, the range of unsigned long             *)
  BucketsCount  (* INITIAL_BUCKETS_COUNT                                    *)

ASSUME TupleAssumption ==
  /\ Values \subseteq Int
  /\ MaxLen \in Nat
  /\ HashModulus \in Nat \ {0}
  /\ BucketsCount \in Nat \ {0}

VARIABLES
  tuple,    (* the tuple a process is building                              *)
  pattern   (* the pattern it is building                                   *)

tvars == <<tuple, pattern>>

(* value_t and condition_t. *)
ValueTypes == {"INTEGER", "STRING"}
Conditions ==
  {"ANY", "EQUAL", "LESS_THAN", "LESS_EQUAL", "GREATER", "GREATER_EQUAL"}

(* The enumerators' values: the length of their names and a final NUL.     *)
Width(valueType) == IF valueType = "INTEGER" THEN 8 ELSE 7

TupleElements == [valueType : ValueTypes, value : Values]
PatternElements ==
  [valueType : ValueTypes, value : Values, conditionType : Conditions]

(***************************************************************************)
(* create_tuple, create_pattern; add_element_to_tuple and                  *)
(* add_element_to_pattern, which do the same.                              *)
(***************************************************************************)
Empty == [len |-> 0, iCount |-> 0, sCount |-> 0, elements |-> <<>>]

(* Variant with a defect: integers are not counted.                        *)
add_uncounted_integers(t, element) ==
  [len |-> t.len + 1,
   iCount |-> t.iCount,
   sCount |-> IF element.valueType = "STRING" THEN t.sCount + 1 ELSE t.sCount,
   elements |-> Append(t.elements, element)]

add_element(t, element) ==
  [len |-> t.len + 1,
   iCount |-> IF element.valueType = "INTEGER" THEN t.iCount + 1 ELSE t.iCount,
   sCount |-> IF element.valueType = "STRING" THEN t.sCount + 1 ELSE t.sCount,
   elements |-> Append(t.elements, element)]

(***************************************************************************)
(* Matching: a remote (stored) tuple against a local pattern or tuple.     *)
(***************************************************************************)
Compares(conditionType, remote, local) ==
  CASE conditionType = "ANY" -> TRUE
    [] conditionType = "EQUAL" -> remote = local
    [] conditionType = "LESS_THAN" -> remote < local
    [] conditionType = "LESS_EQUAL" -> remote <= local
    [] conditionType = "GREATER" -> remote > local
    [] conditionType = "GREATER_EQUAL" -> remote >= local

(* Variant with a defect: the types of the elements are not compared.      *)
matches_other_type(remote, local) ==
  Compares(local.conditionType, remote.value, local.value)

does_tuple_element_match_pattern_element(remote, local) ==
  /\ remote.valueType = local.valueType
  /\ Compares(local.conditionType, remote.value, local.value)

do_tuple_elements_match(remote, local) ==
  /\ remote.valueType = local.valueType
  /\ remote.value = local.value

SameCounts(remote, local) ==
  /\ remote.len = local.len
  /\ remote.iCount = local.iCount
  /\ remote.sCount = local.sCount

(* The loops walk both lists in step, give up at the first pair that does  *)
(* not match, and want both lists to end together.                         *)
does_tuple_match_pattern(remote, local) ==
  /\ SameCounts(remote, local)
  /\ Len(remote.elements) = Len(local.elements)
  /\ \A i \in 1..Len(remote.elements) :
       does_tuple_element_match_pattern_element(remote.elements[i], local.elements[i])

do_tuples_match(remote, local) ==
  /\ SameCounts(remote, local)
  /\ Len(remote.elements) = Len(local.elements)
  /\ \A i \in 1..Len(remote.elements) :
       do_tuple_elements_match(remote.elements[i], local.elements[i])

(***************************************************************************)
(* hash_tuple, hash: the names of the element types are joined and the     *)
(* characters hashed.  The result is only used modulo BucketsCount.        *)
(***************************************************************************)
Characters(valueType) ==
  IF valueType = "INTEGER"
    THEN <<73, 78, 84, 69, 71, 69, 82>>
    ELSE <<83, 84, 82, 73, 78, 71>>

TypesOf(t) == [i \in 1..Len(t.elements) |-> t.elements[i].valueType]

Joined(types) == FlattenSeq([i \in 1..Len(types) |-> Characters(types[i])])

hash(str) ==
  LET h[i \in 0..Len(str)] ==
        IF i = 0 THEN 5381 % HashModulus
        ELSE (h[i - 1] * 33 + str[i]) % HashModulus
  IN  h[Len(str)]

(* Variant with a defect: the values are hashed too, as if only equal      *)
(* tuples were ever looked up.                                             *)
hash_of_values(t) ==
  hash(Joined(TypesOf(t)) \o [i \in 1..Len(t.elements) |-> t.elements[i].value])

hash_tuple(t) == hash(Joined(TypesOf(t)))

bucket(t) == hash_tuple(t) % BucketsCount

-----------------------------------------------------------------------------
TupleInit == tuple = Empty /\ pattern = Empty

add_to_tuple(element) ==
  /\ tuple.len < MaxLen
  /\ tuple' = add_element(tuple, element)
  /\ UNCHANGED pattern

add_to_pattern(element) ==
  /\ pattern.len < MaxLen
  /\ pattern' = add_element(pattern, element)
  /\ UNCHANGED tuple

TupleNext ==
  \/ \E element \in TupleElements : add_to_tuple(element)
  \/ \E element \in PatternElements : add_to_pattern(element)

TupleSpec == TupleInit /\ [][TupleNext]_tvars

-----------------------------------------------------------------------------
(***************************************************************************)
(* Properties.                                                             *)
(***************************************************************************)
WellCounted(t) ==
  /\ t.len = Len(t.elements)
  /\ t.iCount + t.sCount = t.len

(* Types, and counters that agree with the elements.                       *)
TupleTypeOK ==
  /\ tuple \in [len : Nat, iCount : Nat, sCount : Nat, elements : Seq(TupleElements)]
  /\ pattern \in [len : Nat, iCount : Nat, sCount : Nat, elements : Seq(PatternElements)]
  /\ WellCounted(tuple)
  /\ WellCounted(pattern)

(* get_from_hash_table and remove_from_hash_table look only into the       *)
(* bucket of the pattern: every tuple that matches a pattern, whatever its *)
(* values and conditions, is stored in the pattern's bucket.               *)
MatchInSameBucket ==
  does_tuple_match_pattern(tuple, pattern) => bucket(tuple) = bucket(pattern)

(* put_into_hash_table compares with do_tuples_match and readers with      *)
(* does_tuple_match_pattern: a pattern whose conditions are all EQUAL      *)
(* matches exactly the tuples equal to it.                                 *)
EqualPatternIsEquality ==
  (\A i \in 1..Len(pattern.elements) : pattern.elements[i].conditionType = "EQUAL")
    => (does_tuple_match_pattern(tuple, pattern) <=> do_tuples_match(tuple, pattern))

(* hash_tuple joins the names in a buffer sized with the counters and the  *)
(* values of the enumerators: the names and the final NUL fit, for every   *)
(* tuple and pattern that has an element.                                  *)
SignatureFits ==
  \A t \in {tuple, pattern} :
    t.len > 0 =>
      Len(Joined(TypesOf(t))) + 1
        <= t.iCount * Width("INTEGER") + t.sCount * Width("STRING")

=============================================================================
