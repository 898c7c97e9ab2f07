---------------------------------- MODULE Plan ----------------------------------
(***************************************************************************)
(* The media flags of a run: which combinations are accepted before        *)
(* anything is contacted, what an accepted one resolves to, and the role   *)
(* each user of a room gets from it.  A plan is a record of the flags,     *)
(* all counts being per room.                                              *)
(*                                                                         *)
(* AcceptedMutant is Accepted as a plausible bug would have it; nothing    *)
(* uses it.                                                                *)
(***************************************************************************)
EXTENDS Integers

Modes == {"none", "listen", "audio", "video"}

Publishers(p) == p.video + p.audio

\* Plan.Validate returns no message.
AcceptedMutant(p) ==
  /\ p.users > 0
  /\ p.video >= 0 /\ p.audio >= 0 /\ p.subscribers >= 0
  /\ p.mode = "none" => Publishers(p) = 0 /\ p.subscribers = 0
  /\ p.mode = "listen" => Publishers(p) = 0
  /\ p.mode = "audio" => p.video = 0 /\ p.audio > 0
  /\ p.mode = "video" => p.video > 0
  /\ Publishers(p) <= p.users
  /\ p.subscribers > 0 => p.subscribers <= p.users
Accepted(p) ==
  /\ p.users > 0
  /\ p.video >= 0 /\ p.audio >= 0 /\ p.subscribers >= 0
  /\ p.mode = "none" => Publishers(p) = 0 /\ p.subscribers = 0
  /\ p.mode = "listen" => Publishers(p) = 0
  /\ p.mode = "audio" => p.video = 0 /\ p.audio > 0
  /\ p.mode = "video" => p.video > 0
  /\ Publishers(p) <= p.users
  /\ p.subscribers > 0 => p.subscribers \in Publishers(p)..p.users

\* What Validate leaves in an accepted plan: with a media mode and no number of
\* subscribers, every user is one.
Resolved(p) ==
  IF p.mode # "none" /\ p.subscribers = 0
    THEN [p EXCEPT !.subscribers = p.users] ELSE p

\* Config.mediaRole: publishers come first, then listeners, then core users.
MediaRole(p, uIdx) ==
  CASE uIdx < p.video -> "video"
    [] uIdx >= p.video /\ uIdx < Publishers(p) -> "audio"
    [] uIdx >= Publishers(p) /\ uIdx < p.subscribers -> "listen"
    [] OTHER -> "core"

\* How many tracks publish puts into the room for a role.
TracksOf(role) ==
  CASE role = "video" -> 2 [] role = "audio" -> 1 [] OTHER -> 0
===============================================================================
