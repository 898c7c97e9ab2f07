----------------------------- MODULE MCChatHistory -----------------------------
(* Two things one user does in its room, its chat history and its whiteboard. *)
(* They share no state, so a behaviour takes either, and leaves the other as  *)
(* it is at the beginning.                                                    *)
EXTENDS ChatHistory, Whiteboard

VARIABLE subject

MCInit == HistInit /\ BoardInit /\ subject \in {"history", "whiteboard"}

MCNext == \/ subject = "history" /\ HistNext /\ UNCHANGED <<boardVars, subject>>
          \/ subject = "whiteboard" /\ BoardNext /\ UNCHANGED <<histVars, subject>>

MCSpec ==
  /\ MCInit /\ [][MCNext]_<<histVars, boardVars, subject>>
  /\ WF_boardVars(subject = "whiteboard" /\ Loop)
  /\ WF_boardVars(subject = "whiteboard" /\ Elapse)
===============================================================================
