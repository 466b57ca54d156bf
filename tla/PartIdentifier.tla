---------------------------- MODULE PartIdentifier ----------------------------
(***************************************************************************)
(* Part identifiers (traceability/part_id.rs and the AsciiDigitsOrUpper type *)
(* of the configuration crate): 23 characters made of the part reference,    *)
(* the batch, the line, the date and the serial number.  The gateway makes    *)
(* an identifier; the machine gives it back with every save, where the        *)
(* gateway validates it; ClickHouse takes it apart with strict conversions.   *)
(*                                                                         *)
(* A character is a number: 0 .. 9 are the ASCII digits, 10 .. 35 the ASCII   *)
(* capitals, WideDigit a decimal digit of another script, and Other any other *)
(* character.  Text is a sequence of characters; a raw part reference is the  *)
(* list of its fields.                                                       *)
(***************************************************************************)
EXTENDS Integers, Sequences

CONSTANTS
    References,  \* part references that a machine may show
    Batches,     \* texts that a machine may show as batch
    Lines,       \* the line identifiers of the configuration
    Dates,       \* [year, day] of the clock
    Serials,     \* serial numbers of the cache
    Garbles      \* <<position, character>> changes an identifier may suffer in a machine

Other == 36
WideDigit == 37
Characters == 0 .. 37
IsDigit(c) == c \in 0 .. 9
IsUpper(c) == c \in 10 .. 35

\* What \d matches: a decimal digit of any script.
IsAnyDigit(c) == IsDigit(c) \/ c = WideDigit

\* TryFrom<&[u8]> for AsciiDigitsOrUpper<LENGTH>.  No byte of a character outside ASCII is
\* one of an ASCII digit or capital, and without such a character there are as many bytes
\* as characters.
AsciiDigitsOrUpper(s, length) ==
    /\ Len(s) = length
    /\ \A i \in 1 .. length : IsDigit(s[i]) \/ IsUpper(s[i])

\* The days of a year of the calendar.
IsLeap(year) == year % 4 = 0 /\ (year % 100 # 0 \/ year % 400 = 0)
DaysIn(year) == IF IsLeap(year) THEN 366 ELSE 365

ASSUME PartIdentifierAssumption ==
    /\ \A r \in References :
        /\ {r.family, r.incremental, r.size} \subseteq Seq({c \in Characters : IsAnyDigit(c)})
        /\ r.letters \in Nat
        /\ r.layout \in BOOLEAN
    /\ Batches \cup Lines \subseteq Seq(Characters)
    /\ \A l \in Lines : AsciiDigitsOrUpper(l, 2)
    /\ Dates \subseteq [year : Nat, day : 1 .. 366]
    /\ \A d \in Dates : d.day <= DaysIn(d.year)
    /\ Serials \subseteq Nat
    /\ Garbles \subseteq (1 .. 23) \X Characters

VARIABLES
    input,  \* what goes into the identifier
    made,   \* the identifier, or <<>> when it could not be made
    shown,  \* what the machine gives back
    stage   \* "create", "validate", then "accepted" or "refused"

vars == <<input, made, shown, stage>>

-----------------------------------------------------------------------------

\* TryFrom<&str> for PartReference: an optional P, 1 or 2 digits, a dash, 3 or 4 digits,
\* 2 to 4 letters, 2 or 3 digits that no other digit follows.  The fields of r are the
\* whole runs of digits, of whatever script, and letters; layout tells that nothing else
\* precedes or separates them.
PartReference(r) ==
    /\ Len(r.family) \in 1 .. 2
    /\ r.layout
    /\ Len(r.incremental) \in 3 .. 4
    /\ r.letters \in 2 .. 4
    /\ Len(r.size) \in 2 .. 3

\* Mutant: the zeros go to the wrong side.
PadRight(s, width) ==
    IF Len(s) >= width THEN s ELSE s \o [i \in 1 .. width - Len(s) |-> 0]

\* {s:0>width}: characters are counted, and a longer text is left as it is.
Pad(s, width) ==
    IF Len(s) >= width THEN s ELSE [i \in 1 .. width - Len(s) |-> 0] \o s

\* Display for PartReference
FormatReference(r) == Pad(r.family, 2) \o Pad(r.incremental, 4) \o Pad(r.size, 3)

\* Decimal digits of n, at least width of them.
Decimal(n, width) ==
    LET digits == CHOOSE w \in width .. width + 5 :
                    n < 10^w /\ \A v \in width .. w - 1 : n >= 10^v
    IN  [i \in 1 .. digits |-> (n \div 10^(digits - i)) % 10]

\* strftime("%y%j")
YearAndDay(date) == Decimal(date.year % 100, 2) \o Decimal(date.day, 3)

\* Mutant: the largest serial number is off by one.
SerialFitsOffByOne(serial) == serial <= 100000

SerialFits(serial) == serial <= 99999

CanCreate(x) ==
    /\ SerialFits(x.serial)
    /\ PartReference(x.reference)

create_part_identifier(x) ==
    FormatReference(x.reference) \o x.batch \o x.line \o YearAndDay(x.date)
        \o Decimal(x.serial, 5)

\* The number that digits write.
Number(s) ==
    LET value[i \in 0 .. Len(s)] == IF i = 0 THEN 0 ELSE 10 * value[i - 1] + s[i]
    IN  value[Len(s)]

AllDigits(s) == \A i \in 1 .. Len(s) : IsDigit(s[i])

\* Date::strptime("%y%j"): two-digit years go from 1969 to 2068.
ParsesAsDate(s) ==
    /\ AllDigits(s)
    /\ LET y == Number(SubSeq(s, 1, 2))
           year == IF y >= 69 THEN 1900 + y ELSE 2000 + y
       IN  Number(SubSeq(s, 3, 5)) \in 1 .. DaysIn(year)

\* Mutant: the date is not validated.
validate_all_but_date(s) == AllDigits(SubSeq(s, 1, 9)) /\ AllDigits(SubSeq(s, 19, 23))

validate_part_identifier(s) ==
    /\ AllDigits(SubSeq(s, 1, 9))
    /\ ParsesAsDate(SubSeq(s, 14, 18))
    /\ AllDigits(SubSeq(s, 19, 23))

\* What handle_save accepts from a machine.
Accepted(s) == AsciiDigitsOrUpper(s, 23) /\ validate_part_identifier(s)

-----------------------------------------------------------------------------

Init ==
    /\ input \in [reference : References, batch : Batches, line : Lines, date : Dates,
                  serial : Serials]
    /\ made = <<>>
    /\ shown = <<>>
    /\ stage = "create"

\* create_part_id: the batch is parsed when it is read, the identifier is made, and
\* goes to the machine.
Create ==
    /\ stage = "create"
    /\ made' = IF AsciiDigitsOrUpper(input.batch, 2) /\ CanCreate(input)
               THEN create_part_identifier(input) ELSE <<>>
    /\ shown' = made'
    /\ stage' = "validate"
    /\ UNCHANGED input

\* The machine shows something else: an operator or another system typed it.
Garble ==
    /\ stage = "validate"
    /\ made # <<>> /\ shown = made
    /\ \E g \in Garbles : shown' = [made EXCEPT ![g[1]] = g[2]]
    /\ UNCHANGED <<input, made, stage>>

Validate ==
    /\ stage = "validate"
    /\ stage' = IF Accepted(shown) THEN "accepted" ELSE "refused"
    /\ UNCHANGED <<input, made, shown>>

Next == Create \/ Garble \/ Validate

Spec == Init /\ [][Next]_vars

-----------------------------------------------------------------------------

\* The digits of a part reference are all ASCII ones.
AsciiReference(r) == AllDigits(r.family) /\ AllDigits(r.incremental) /\ AllDigits(r.size)

\* An identifier that the gateway made, and that the machine gives back unchanged, is
\* accepted by every later save, unless its part reference has a digit that is not an ASCII
\* one.  The part regex takes such a digit, the identifier is made and given to the machine
\* all the same, and every save of that part is refused.
MadeIsAccepted ==
    (made # <<>> /\ shown = made) => (Accepted(shown) <=> AsciiReference(input.reference))

\* The columns of the database read back from an identifier that saves accept the reference,
\* the line, the date and the serial number it was made from, whatever the widths and the
\* scripts of the raw fields: no part is filed under another reference or another date.
MadeReadsBack ==
    (made # <<>> /\ Accepted(made)) =>
        /\ Number(SubSeq(made, 1, 2)) = Number(input.reference.family)
        /\ Number(SubSeq(made, 3, 6)) = Number(input.reference.incremental)
        /\ Number(SubSeq(made, 7, 9)) = Number(input.reference.size)
        /\ SubSeq(made, 12, 13) = input.line
        /\ Number(SubSeq(made, 14, 15)) = input.date.year % 100
        /\ Number(SubSeq(made, 16, 18)) = input.date.day
        /\ Number(SubSeq(made, 19, 23)) = input.serial

\* Whatever an accepted identifier is, the strict conversions of the database succeed
\* on it, and produced_on is a day of the year it names: it cannot fail the insertion
\* of a batch.
AcceptedIsInsertable ==
    stage = "accepted" =>
        /\ Len(shown) = 23
        /\ AllDigits(SubSeq(shown, 14, 18))
        /\ Number(SubSeq(shown, 16, 18)) \in 1 .. DaysIn(2000 + Number(SubSeq(shown, 14, 15)))
=============================================================================
