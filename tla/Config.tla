------------------------------ MODULE Config ------------------------------
(***************************************************************************)
(* The configuration file as main() of                                     *)
(* src/system_manager/system_manager.c reads it: fgets() takes a few       *)
(* characters at a time, each piece has to be a number other than 0, and   *)
(* there have to be six of them.                                           *)
(*                                                                         *)
(* A file is a sequence of lines and a line a sequence of digits, or       *)
(* NotADigit for any other character; the line break that ends every line  *)
(* is implied.                                                             *)
(***************************************************************************)
EXTENDS Integers, SequencesExt

NotADigit == -1

\* What a start of the platform with a file comes to when it is not accepted.
Rejected == << >>

\* fgets(line, 9, f) takes at most eight characters, line break included.
Fgets == 8

\* is_number() and atoi(): no character but digits; the empty string is 0.
IsNumber(piece) == NotADigit \notin ToSet(piece)

Atoi(piece) ==
    LET number[n \in 0 .. Len(piece)] == IF n = 0 THEN 0 ELSE 10 * number[n - 1] + piece[n]
    IN number[Len(piece)]

\* The pieces of a line; remove_line_break() cuts the line break off the last one.
Pieces(line) ==
    [i \in 1 .. (Len(line) \div Fgets) + 1 |->
        SubSeq(line, (i - 1) * Fgets + 1, Min({i * Fgets, Len(line)}))]

PiecesOf(file) == FlattenSeq([k \in DOMAIN file |-> Pieces(file[k])])

\* Faulty variant: the second and the third value change places.
ReadSwapped(file) ==
    LET values == [i \in DOMAIN PiecesOf(file) |-> Atoi(PiecesOf(file)[i])]
    IN IF Len(values) = 6 /\ \A i \in DOMAIN values : values[i] > 0
       THEN [values EXCEPT ![2] = values[3], ![3] = values[2]]
       ELSE Rejected

\* The six values in the order of the file: MOBILE_USERS, QUEUE_POS, AUTH_SERVERS,
\* AUTH_PROC_TIME, MAX_VIDEO_WAIT, MAX_OTHERS_WAIT.  A seventh piece is stored past the
\* end of config_values before the file is rejected.
ReadConfig(file) ==
    LET pieces == PiecesOf(file)
        values == [i \in DOMAIN pieces |-> Atoi(pieces[i])]
    IN IF /\ \A i \in DOMAIN pieces : IsNumber(pieces[i]) /\ values[i] # 0
          /\ Len(pieces) = 6
          /\ values[2] >= 0
          /\ \A i \in {3, 5, 6} : values[i] >= 1
       THEN values
       ELSE Rejected

\* What the file says, for a reader who takes a line for a number.
Meant(file) == [k \in DOMAIN file |-> Atoi(file[k])]

===========================================================================
