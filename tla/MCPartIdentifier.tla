---------------------------- MODULE MCPartIdentifier ----------------------------
(***************************************************************************)
(* Inputs of PartIdentifier for TLC: every width of the fields of a part     *)
(* reference on both sides of its limits, digits of another script in each of *)
(* them, and the boundaries of the dates and of the serial numbers.           *)
(***************************************************************************)
EXTENDS PartIdentifier

\* n digits, the first of which is a zero when there are more than two.
Digits(n) == [i \in 1 .. n |-> (i + n) % (n + 1)]

Base == [family |-> Digits(1), incremental |-> Digits(3), letters |-> 2, size |-> Digits(2),
         layout |-> TRUE]

MCReferences ==
    [family : {Digits(n) : n \in 1 .. 2}, incremental : {Digits(n) : n \in 3 .. 4},
     letters : {2, 4}, size : {Digits(n) : n \in 2 .. 3}, layout : {TRUE}]
    \cup {[Base EXCEPT !.family = Digits(n)] : n \in {0, 3}}
    \cup {[Base EXCEPT !.incremental = Digits(n)] : n \in {0, 2, 5}}
    \cup {[Base EXCEPT !.letters = n] : n \in {0, 1, 5}}
    \cup {[Base EXCEPT !.size = Digits(n)] : n \in {0, 1, 4}}
    \cup {[Base EXCEPT !.layout = FALSE]}
    \cup {[Base EXCEPT !.family = s] : s \in {<<WideDigit>>, <<1, WideDigit>>}}
    \cup {[Base EXCEPT !.incremental = s] : s \in {<<1, 2, WideDigit>>, <<WideDigit, 2, 3, 4>>}}
    \cup {[Base EXCEPT !.size = s] : s \in {<<WideDigit, 5>>, <<WideDigit, WideDigit, WideDigit>>}}

MCBatches == {<<7, 10>>, <<35, Other>>, <<WideDigit, 7>>, <<7>>}
MCLines == {<<4, 2>>, <<0, 35>>}
MCDates ==
    {[year |-> 2000, day |-> 366], [year |-> 2024, day |-> 366], [year |-> 2026, day |-> 1],
     [year |-> 2027, day |-> 365], [year |-> 2068, day |-> 366], [year |-> 2069, day |-> 99]}
MCSerials == {1, 42, 9999, 99999, 100000}
MCGarbles ==
    {<<5, 10>>, <<9, Other>>, <<2, 4>>, <<6, WideDigit>>, <<11, 3>>, <<11, Other>>, <<14, 10>>, <<15, 5>>, <<16, 9>>,
     <<18, 0>>, <<18, 6>>, <<19, 35>>, <<23, 7>>, <<23, Other>>}
=============================================================================
