------------------------------ MODULE RtcpTime ------------------------------
(***************************************************************************)
(* The NTP time stamps of RTCP reports (sessionlocal.go toNtpStamp and     *)
(* fromNtp, stream.go makeRecvReport).  A Go time counts nanoseconds, a    *)
(* stamp has two unsigned words.  The sizes are constants: the theorems    *)
(* are about all of them, those of the code included.                      *)
(***************************************************************************)
EXTENDS Integers

CONSTANTS
    Second,          \* clock ticks of a second: 1e9
    Word,            \* values of an unsigned word: 2^32
    HalfWord,        \* values of half a word: 2^16
    ntpEpochOffset   \* seconds from 1900 to 1970

ASSUME RtcpTimeAssumption ==
    /\ Second \in Nat \ {0} /\ HalfWord \in Nat \ {0}
    /\ Word = HalfWord * HalfWord /\ Second <= Word
    /\ ntpEpochOffset \in 0 .. Word - 1

\* toNtpStamp's two results.  Go times are not negative here.
NtpSeconds(tm) == (tm \div Second + ntpEpochOffset) % Word
NtpFraction(tm) == (((tm % Second) * Word) \div Second) % Word

fromNtp(seconds, fraction) ==
    (seconds - ntpEpochOffset) * Second + (fraction * Second) \div Word

\* makeRecvReport's (sec << 32) | frac is computed in one word before it is
\* shifted right by half a word; it gives the LSR and, of a delay, the DLSR.
MiddleBits(tm) ==
    (((NtpSeconds(tm) * Word) % Word) + NtpFraction(tm)) \div HalfWord

\* The times whose NTP seconds fit in a word: up to the year 2036.
Times == {tm \in Nat : tm \div Second + ntpEpochOffset < Word}
=============================================================================
