----------------------------- MODULE ResultBars -----------------------------
(***************************************************************************)
(* The bars of a Choice question's results, internal/ui/templates.go, in   *)
(* the fixed-width integers the templates compute with.                    *)
(***************************************************************************)
EXTENDS Integers

CONSTANT MaxInt32   \* the largest int32, 2147483647

\* The value an int32 keeps of n.
Int32(n) == ((n + MaxInt32 + 1) % (2 * MaxInt32 + 2)) - (MaxInt32 + 1)

\* Division of Go, which rounds towards zero; d is positive.
Quotient(n, d) == IF n >= 0 THEN n \div d ELSE -((-n) \div d)

\* maxVotes of the votes of the options of one question.
MaxVotes(votes) ==
    IF \A o \in DOMAIN votes : votes[o] <= 0 THEN 0
    ELSE CHOOSE m \in {votes[o] : o \in DOMAIN votes} :
            \A o \in DOMAIN votes : votes[o] <= m

\* barWidth: a percentage of the longest bar.
BarWidth(votes, max) ==
    IF max <= 0 THEN 0 ELSE Quotient(Int32(votes * 100), max)
=============================================================================
