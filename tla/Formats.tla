------------------------------ MODULE Formats ------------------------------
(***************************************************************************)
(* The run-time formats of plainjsonpb: the JSON value each scalar, time   *)
(* and duration is written as.  A JSON value is a tuple whose first        *)
(* component is its JSON type; text is kept as the parts it is put         *)
(* together from, so that it can be read back.                             *)
(***************************************************************************)
EXTENDS Integers, Sequences

CONSTANTS Kilo,  \* a second has Kilo milliseconds, a millisecond Kilo microseconds
          Word   \* int64 holds -Word .. Word - 1

ASSUME KiloAssumption == Kilo \in Nat /\ Kilo > 1
ASSUME WordAssumption == Word \in Nat /\ Word > 0

Null == <<"null">>
Bool(b) == <<"boolean", b>>
Num(n) == <<"number", n>>
Str(text) == <<"string", text>>
Arr(values) == <<"array", values>>
Obj(pairs) == <<"object", pairs>>

Mega == Kilo * Kilo
Giga == Kilo * Kilo * Kilo

-----------------------------------------------------------------------------
(* Go's int64: addition and multiplication wrap, division truncates.       *)
Wrap(n) == ((n + Word) % (2 * Word)) - Word

Quot(n, d) == IF n >= 0 THEN n \div d ELSE -((-n) \div d)

Int64JSON(n, format) == IF format = "NUMBER" THEN Num(n) ELSE Str(<<"decimal", n>>)

(* What no JSON number can spell becomes a string.                         *)
FloatJSON(x) == IF x \in {"NaN", "Infinity", "-Infinity"} THEN Str(<<"float", x>>)
                ELSE Num(<<"float", x>>)

BytesJSON(bytes, format) ==
    CASE format = "ARRAY" -> Arr([n \in DOMAIN bytes |-> Num(bytes[n])])
      [] format \in {"BASE64URL", "HEX"} -> Str(<<format, bytes>>)
      [] OTHER -> Str(<<"BASE64", bytes>>)

-----------------------------------------------------------------------------
(* Timestamps and durations: seconds and nanoseconds                       *)

(* Fault: the larger unit is tried for every fraction.                     *)
GroupsOfMillis(nanos) == IF nanos = 0 THEN 0 ELSE IF nanos % Mega < Kilo THEN 1
                         ELSE IF nanos % Kilo = 0 THEN 2 ELSE 3

(* The digits of a fraction of a second, in groups of three.               *)
Groups(nanos) == IF nanos = 0 THEN 0 ELSE IF nanos % Mega = 0 THEN 1
                 ELSE IF nanos % Kilo = 0 THEN 2 ELSE 3

(* The nanoseconds one unit of the last digit stands for.                  *)
Weight(groups) == CASE groups = 0 -> Giga [] groups = 1 -> Mega
                    [] groups = 2 -> Kilo [] groups = 3 -> 1

(* A fraction, zero-padded to its groups (pad).                            *)
Fraction(nanos) == <<Groups(nanos), nanos \div Weight(Groups(nanos))>>

(* formatRFC3339 of AsTime, which carries whole seconds over.              *)
RFC3339(t) == <<"time", t.seconds + t.nanos \div Giga, Fraction(t.nanos % Giga)>>

(* Fault: the fraction is taken before the seconds are scaled.             *)
SinceEpochUnscaled(t, unit) == Wrap(t.seconds * unit + Quot(t.nanos, Giga) * unit)

(* Seconds and nanoseconds as one int64 of the unit's parts of a second.   *)
SinceEpoch(t, unit) == Wrap(Wrap(t.seconds * unit) + Quot(t.nanos, Giga \div unit))

TimeFormats == {"RFC3339", "UNIX_SECONDS", "UNIX_MILLI", "UNIX_MICRO", "UNIX_NANO"}

TimestampJSON(t, format) ==
    CASE format = "UNIX_SECONDS" -> Num(t.seconds)
      [] format = "UNIX_MILLI" -> Num(SinceEpoch(t, Kilo))
      [] format = "UNIX_MICRO" -> Num(SinceEpoch(t, Mega))
      [] format = "UNIX_NANO" -> Num(SinceEpoch(t, Giga))
      [] OTHER -> Str(RFC3339(t))

Negative(d) == d.seconds < 0 \/ d.nanos < 0

(* protojsonDuration: a sign, whole seconds and a fraction.                *)
DurationText(d) ==
    IF Negative(d) THEN <<"duration", -1, Wrap(-d.seconds), Fraction(-d.nanos)>>
                   ELSE <<"duration", 1, d.seconds, Fraction(d.nanos)>>

DurationFormats == {"PROTOJSON", "SECONDS", "MILLIS", "NANOS"}

(* SECONDS is a double; the rounding to one is left out.                   *)
DurationJSON(d, format) ==
    CASE format = "SECONDS" -> Num(<<"float", d.seconds * Giga + d.nanos>>)
      [] format = "MILLIS" -> Num(SinceEpoch(d, Kilo))
      [] format = "NANOS" -> Num(SinceEpoch(d, Giga))
      [] OTHER -> Str(DurationText(d))

-----------------------------------------------------------------------------
(* Reading times back                                                      *)

(* The nanoseconds a timestamp or duration stands for.                     *)
Instant(t) == t.seconds * Giga + t.nanos

(* protobuf's own ranges: a timestamp counts up from its second, a         *)
(* duration's seconds and nanoseconds have one sign.                       *)
ValidTimestamp(t) == t.nanos >= 0 /\ t.nanos < Giga

ValidDuration(d) == /\ d.nanos > -Giga /\ d.nanos < Giga
                    /\ d.seconds > 0 => d.nanos >= 0
                    /\ d.seconds < 0 => d.nanos <= 0

FitsInt64(n) == n \in -Word..Word - 1

ReadFraction(fraction) == fraction[2] * Weight(fraction[1])

(* How many nanoseconds a format's last unit has.                          *)
Resolution(format) ==
    CASE format = "UNIX_SECONDS" -> Giga
      [] format \in {"UNIX_MILLI", "MILLIS"} -> Mega
      [] format = "UNIX_MICRO" -> Kilo
      [] OTHER -> 1

ReadTimestamp(json, format) ==
    IF format = "RFC3339" THEN json[2][2] * Giga + ReadFraction(json[2][3])
                          ELSE json[2] * Resolution(format)

ReadDuration(json, format) ==
    CASE format = "PROTOJSON" -> json[2][2] * (json[2][3] * Giga + ReadFraction(json[2][4]))
      [] format = "SECONDS" -> json[2][2]
      [] OTHER -> json[2] * Resolution(format)

(* A written timestamp reads as the instant it stands for, rounded down to *)
(* what the format can say, unless it is past int64 in nanoseconds.        *)
TimestampExact(json, t, format) ==
    (format = "UNIX_NANO" => FitsInt64(Instant(t))) =>
        ReadTimestamp(json, format) = Instant(t) - (Instant(t) % Resolution(format))

(* A written duration reads as its length, rounded towards zero to what    *)
(* the format can say, unless it is past int64 in nanoseconds.             *)
DurationExact(json, d, format) ==
    (format = "NANOS" => FitsInt64(Instant(d))) =>
        ReadDuration(json, format) = Quot(Instant(d), Resolution(format)) * Resolution(format)
=============================================================================
