-------------------------------- MODULE MCMedia --------------------------------
(* Instances of Media for TLC. *)
EXTENDS Media

Flag(mode, users, video, audio, subscribers) ==
  [mode |-> mode, users |-> users, video |-> video, audio |-> audio,
   subscribers |-> subscribers]

OneListener == {Flag("listen", 1, 0, 0, 0)}

\* All flags for rooms of up to two, and a publisher with two listeners.
SmallRooms ==
  {Flag(mode, users, video, audio, subscribers) :
     mode \in Modes, users \in 0..2, video \in -1..3, audio \in -1..3,
     subscribers \in -1..3}
  \cup {Flag("video", 3, 1, 0, 0)}
===============================================================================
