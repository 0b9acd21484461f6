------------------------------ MODULE AvgFilter ------------------------------
(***************************************************************************)
(* The moving average of avg_filter.c: a ring of the last values and their *)
(* running sum.  A filter is a record, Filter_Update gives the filter      *)
(* after a new value.                                                      *)
(***************************************************************************)
EXTENDS Integers

CONSTANT FilterSize  \* ULT_AVG_FILTER_SIZE

ASSUME FilterSizeAssumption == FilterSize \in 1 .. 16  \* AVG_FILTER_MAX_BUF_SIZE

Filters(Values) ==
  [buffer : [0 .. FilterSize - 1 -> Values], next_index : 0 .. FilterSize - 1,
   data_cnt : 0 .. FilterSize, sum : Int]

Filter_Init ==
  [buffer |-> [i \in 0 .. FilterSize - 1 |-> 0], next_index |-> 0,
   data_cnt |-> 0, sum |-> 0]

(* Mutant: the value that is overwritten stays in the sum. *)
ReplacedKept(f) == 0

(* What leaves the running sum: nothing until the ring has filled up. *)
Replaced(f) == IF f.data_cnt < FilterSize THEN 0 ELSE f.buffer[f.next_index]

Filter_Update(f, new_value) ==
  [buffer     |-> [f.buffer EXCEPT ![f.next_index] = new_value],
   next_index |-> (f.next_index + 1) % FilterSize,
   data_cnt   |-> IF f.data_cnt < FilterSize THEN f.data_cnt + 1 ELSE FilterSize,
   sum        |-> f.sum - Replaced(f) + new_value]

(* The integer average; distances are not negative, so \div is C's /. *)
Average(f) == f.sum \div f.data_cnt

=============================================================================
