------------------------------ MODULE Version ------------------------------
(***************************************************************************)
(* Version and VersionRange of lfs/version.cpp, with the comparison        *)
(* operators of util/operators.hpp.  On the wire a version is a WORD with  *)
(* the major number in the LOW byte, and a range a DWORD with the start in *)
(* the high word, so neither can be compared as a number.                  *)
(*                                                                         *)
(* The state holds the arguments of the next calls: a range dwVersion and  *)
(* a version wVersion, as LFSAsyncOpen hands them to a provider.           *)
(***************************************************************************)
EXTENDS Integers

CONSTANTS Byte,         \* values of a BYTE (256)
          Inputs        \* the WORDs that occur as arguments

WordRange == Byte * Byte
WORD == 0..(WordRange - 1)
BYTE == 0..(Byte - 1)

ASSUME ByteAssumption == Byte \in Nat /\ Byte > 1
ASSUME InputsAssumption == Inputs \subseteq WORD

VARIABLES dwVersion,    \* argument of VersionRange::VersionRange(DWORD)
          wVersion      \* argument of Version::Version(WORD)

versionVars == <<dwVersion, wVersion>>

-----------------------------------------------------------------------------

\* A mutant: the bytes are swapped.
FromWord_Swapped(w) == [major |-> (w \div Byte) % Byte, minor |-> w % Byte]

FromWord(w) == [major |-> w % Byte, minor |-> (w \div Byte) % Byte]

\* The sum is the | of the code: the major number fits the low byte.
Value(v) == v.minor * Byte + v.major

MinOf(major) == [major |-> major, minor |-> 0]
MaxOf(major) == [major |-> major, minor |-> Byte - 1]

\* A mutant: the minor numbers are compared whatever the major ones are.
Less_AnyMajor(a, b) == a.major < b.major \/ a.minor < b.minor

Less(a, b) == a.major < b.major \/ (a.major = b.major /\ a.minor < b.minor)
Equal(a, b) == a.major = b.major /\ a.minor = b.minor

NotEqual(a, b) == ~Equal(a, b)
LessEqual(a, b) == Less(a, b) \/ Equal(a, b)
Greater(a, b) == ~LessEqual(a, b)
GreaterEqual(a, b) == ~Less(a, b)

FromDword(d) == [start |-> FromWord(d \div WordRange), end |-> FromWord(d % WordRange)]

RangeValue(r) == Value(r.start) * WordRange + Value(r.end)

Contains(r, v) == GreaterEqual(v, r.start) /\ LessEqual(v, r.end)

-----------------------------------------------------------------------------

DwordOf(s, e) == s * WordRange + e

VersionInit ==
    /\ dwVersion \in {DwordOf(s, e) : s, e \in Inputs}
    /\ wVersion \in Inputs

VersionNext ==
    /\ dwVersion' \in {DwordOf(s, e) : s, e \in Inputs}
    /\ wVersion' \in Inputs

VersionSpec == VersionInit /\ [][VersionNext]_versionVars

-----------------------------------------------------------------------------
(* Properties.                                                             *)

\* The order of versions as one number, the reference for the comparisons.
Rank(v) == v.major * Byte + v.minor

v0 == FromWord(wVersion)
r0 == FromDword(dwVersion)

\* What value() puts on the wire, the constructors read back: a provider that
\* receives value() sees the version and the range the manager meant.
WireRoundTrip ==
    /\ Value(v0) = wVersion
    /\ RangeValue(r0) = dwVersion

\* The comparisons, the derived ones included, are those of one total order:
\* by major, then by minor number.
OrderAgrees ==
    \A a, b \in {v0, r0.start, r0.end} :
        /\ Equal(a, b) <=> Rank(a) = Rank(b)
        /\ NotEqual(a, b) <=> Rank(a) # Rank(b)
        /\ Less(a, b) <=> Rank(a) < Rank(b)
        /\ LessEqual(a, b) <=> Rank(a) <= Rank(b)
        /\ Greater(a, b) <=> Rank(a) > Rank(b)
        /\ GreaterEqual(a, b) <=> Rank(a) >= Rank(b)

\* contains is the closed interval between the ends, and the range from min to
\* max of a major number holds exactly the versions with that number.
ContainsInterval ==
    /\ Contains(r0, v0) <=> Rank(r0.start) <= Rank(v0) /\ Rank(v0) <= Rank(r0.end)
    /\ \A m \in {v0.major, r0.start.major, r0.end.major} :
          Contains([start |-> MinOf(m), end |-> MaxOf(m)], v0) <=> v0.major = m
=============================================================================
