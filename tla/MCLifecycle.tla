---------------------------- MODULE MCLifecycle ---------------------------
\* Files: one like config.txt, one with more mobiles, one with as many engines as
\* MAX_SIZE, one of five lines whose first is read as two numbers, one that is refused.
EXTENDS Lifecycle, TLC

CONSTANTS m1, m2, b1, b2

Small   == << <<5>>, <<3>>, <<6>>, <<5, 0, 0>>, <<1, 0, 0>>, <<3, 0, 0>> >>
More    == << <<5, 0>>, <<3>>, <<6>>, <<5, 0, 0>>, <<1, 0, 0>>, <<3, 0, 0>> >>
Engines == << <<5>>, <<3>>, <<1, 0, 0>>, <<5, 0, 0>>, <<1, 0, 0>>, <<3, 0, 0>> >>
Split   == << <<0, 0, 0, 0, 0, 0, 0, 5, 3>>, <<6>>, <<5, 0, 0>>, <<1, 0, 0>>,
              <<3, 0, 0>> >>
Wrong   == << <<NotADigit, 5>>, <<3>>, <<6>>, <<5, 0, 0>>, <<1, 0, 0>>, <<3, 0, 0>> >>

MCFiles == {Small, More, Engines, Split, Wrong}

Symmetry == Permutations({m1, m2}) \cup Permutations({b1, b2})

===========================================================================
