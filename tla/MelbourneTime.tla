---------------------------- MODULE MelbourneTime ----------------------------
(***************************************************************************)
(* The studio's clock around a change of daylight saving, in hours: an     *)
(* instant counts UTC hours, a local hour what the clock in Melbourne shows*)
(* then, both from the same midnight.  Two functions of the code go back   *)
(* from a local hour to an instant.                                        *)
(***************************************************************************)
EXTENDS Integers, FiniteSets

CONSTANTS
    SwitchAt,       \* the instant of the change
    NoInstant

VARIABLE spring     \* whether the clock is put forward

STANDARD == 10

offsetAt(i) == IF (i < SwitchAt) = spring THEN STANDARD ELSE STANDARD + 1

localDateTime(i) == i + offsetAt(i)

(* A plausible bug: the offset of the moment that has the same name in UTC.*)
OffsetsNear(local) == {offsetAt(local)}

(* Every offset that is in force within two days.                          *)
Offsets(local) == {offsetAt(local + 6 * k) : k \in -8 .. 8}

(* The only instant that shows a local hour; none in the hour that is left *)
(* out, none in the hour that comes twice.                                 *)
matchingInstant(local) ==
    LET matches == {i \in {local - o : o \in Offsets(local)} : localDateTime(i) = local}
    IN  IF Cardinality(matches) = 1 THEN CHOOSE i \in matches : TRUE ELSE NoInstant

Nearer(local, i) == i + (local - localDateTime(i))

(* A plausible bug: one correction is taken to be enough.                  *)
MelbourneLocalInstantOnce(local) == Nearer(local, local)

(* Three corrections; one that finds nothing to correct changes nothing.   *)
melbourneLocalInstant(local) == Nearer(local, Nearer(local, Nearer(local, local)))
=============================================================================
