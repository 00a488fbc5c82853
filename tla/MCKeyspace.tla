----------------------------- MODULE MCKeyspace -----------------------------
(***************************************************************************)
(* Instances of Keyspace for TLC: argument sets and symmetry.              *)
(***************************************************************************)
EXTENDS Keyspace, TLC

CONSTANTS t1   \* a text value

\* No command can be refused for its version, one point in time.
PlainCare == {FALSE}
BothCare == BOOLEAN
NoVersion == {0}
AllVersions == 0 .. VersionMax

OneText == {t1}
TwoValues == {t1, 0}
NoIncr == {}
UpOrNotInteger == {1, NotInteger}

\* At time 2: -1 is taken for no deadline by a lookup, 0 removes one, 1 is
\* a duration (due at 3 or later) and 3 a point in time.
AllExpires == {-1, 0, 1, 3}

NegativeExpires == {-1, 1, NotInteger}
Duration == {1}
DurationOrNotInteger == {1, NotInteger}

DropTTL == {0}
KeepTTL == {-1}
DropOrSetTTL == {0, 3}

\* The order in which keys are named does not matter to any action.
KeySymmetry == Permutations(Keys)

\* No action reads the last reply, and no invariant of a run under this
\* view mentions it.
DatabaseView == <<db, now>>

=============================================================================
