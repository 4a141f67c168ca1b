----------------------------- MODULE MC_Devices -----------------------------
(* A small instance of Devices for TLC: the clock goes from noon to the    *)
(* afternoon and to a midnight whose year is of the next century; one      *)
(* machine is for the keyboard, the others are for the clock.              *)
EXTENDS Devices, TLC

At(h, m, s, y) == [sec |-> s, min |-> m, hour |-> h, year |-> y]

NoonToMidnight ==
  [n \in 0..2 |-> CASE n = 0 -> At(12, 59, 59, 2013)
                    [] n = 1 -> At(13, 0, 0, 2013)
                    [] n = 2 -> At(0, 10, 25, 2112)]

PC       == <<TRUE, FALSE>>
Typing   == [keys |-> 4, ticks |-> 0, formats |-> {PC}]
Ticking  == [keys |-> 0, ticks |-> 4, formats |-> BOOLEAN \X BOOLEAN]
Both     == [keys |-> 1, ticks |-> 2, formats |-> {PC}]
AllMachines == {Typing, Ticking, Both}

SwapReaders == Permutations(Readers)
=============================================================================
