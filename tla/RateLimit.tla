------------------------------ MODULE RateLimit ------------------------------
(***************************************************************************)
(* The fixed-window request counter of clift-relayd                        *)
(* (crates/clift-relayd/src/ratelimit.rs): what one call of `allow` makes  *)
(* of the table of windows.  Pure operators; Relayd calls them from its    *)
(* handler, and CloudRelay from its own, whose `allow` (index.ts:315) does *)
(* the same with the same numbers.                                         *)
(***************************************************************************)
EXTENDS Integers, FiniteSets

CONSTANTS
  Addresses,    \* client addresses the relay can tell apart
  PerMinute,    \* requests allowed per window; 0 is no limiting at all
  Window,       \* length of a window, in clock ticks (60 s in the code)
  TableLimit,   \* table size that triggers a sweep (10 000 in the code)
  None          \* no window, no object, no time

ASSUME RateLimitAssumption ==
  /\ PerMinute \in Nat
  /\ Window \in Nat \ {0}
  /\ TableLimit \in Nat

Windows == [Addresses -> [started : Nat, count : Nat] \cup {None}]

Tracked(windows) == {a \in Addresses : windows[a] # None}

\* Instant::duration_since saturates: a window started after t is running.
Running(win, t) == win # None /\ t - win.started < Window

\* The table is swept of finished windows only once it is large.
Swept(windows, t) ==
  IF Cardinality(Tracked(windows)) > TableLimit
    THEN [a \in Addresses |-> IF Running(windows[a], t) THEN windows[a] ELSE None]
    ELSE windows

\* The window a call at time t counts in: the running one or a new one.
Current(windows, a, t) ==
  LET win == Swept(windows, t)[a]
  IN  IF Running(win, t) THEN win ELSE [started |-> t, count |-> 0]

\* `allow`: every call is counted, the refused ones too.
Recorded(windows, a, t) ==
  IF PerMinute = 0
    THEN windows
    ELSE [Swept(windows, t) EXCEPT ![a] =
            [Current(windows, a, t) EXCEPT !.count = @ + 1]]

Allows(windows, a, t) ==
  PerMinute = 0 \/ Current(windows, a, t).count + 1 <= PerMinute

==============================================================================
