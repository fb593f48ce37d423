--------------------------- MODULE Configuration ---------------------------
(***************************************************************************)
(* The numeric settings (src/src/config/).  A text of the environment is   *)
(* read twice: validateEnv reads it with Number(), and only to accept or   *)
(* refuse it; configuration() reads it again with parseInt.  The two       *)
(* differ: the empty text is 0 to the first and no number to the second,   *)
(* 0x10 is 16 and 0, 1e3 is 1000 and 1.                                    *)
(*                                                                         *)
(* A text is represented by what the two make of it.                       *)
(***************************************************************************)
EXTENDS Integers

CONSTANTS NaN, Unset

\* What Number() and parseInt make of a text.
Text(number, parsed) == [number |-> number, parsed |-> parsed]

Plain(n) == Text(n, n)
EmptyText == Text(0, NaN)
Hexadecimal(n) == Text(n, 0)

\* z.coerce.number().int().nonnegative().optional(): no NaN, nothing negative.
Nonnegative(t) == t = Unset \/ (t.number # NaN /\ t.number >= 0)

\* parseInt(process.env.X ?? '<default>', 10): the text is not validated again.
Setting(t, default) == IF t = Unset THEN default ELSE t.parsed

\* The settings a process may start with.
NonnegativeSettings(texts, default) ==
    {Setting(t, default) : t \in {u \in texts : Nonnegative(u)}}
=============================================================================
