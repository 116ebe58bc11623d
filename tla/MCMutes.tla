------------------------------ MODULE MCMutes ------------------------------
(* Values of the bot's constants for TLC. *)
EXTENDS Mutes

CONSTANTS h1, h2, owner, stranger

From(chat_, via, kind, host, mins) ==
  [from |-> chat_, via |-> via, kind |-> kind, host |-> host, mins |-> mins]

\* In units of half a minute, with durations from -8 to 7: one minute is
\* kept, five end in the past.  The stranger is refused one way and ignored
\* the other.
SomeUpdates ==
  {From(owner, "message", "mute", h1, m) : m \in {0, 1, 5}}
    \cup {From(owner, "button", "unmute", h1, 0), From(owner, "button", "mute", h2, 1),
          From(stranger, "message", "mute", h1, 1), From(stranger, "button", "unmute", h1, 0)}
=============================================================================
